-------------------------------- MODULE Lua --------------------------------
(***************************************************************************)
(* The script interpreter of scripting/lua.c.  A registered function may   *)
(* run a script of its own.  All scripts share one stack of integers and   *)
(* the one place that strtok keeps; strtok also ends the text of a script  *)
(* after the first word it gives out.                                      *)
(***************************************************************************)
EXTENDS Integers, Sequences

CONSTANTS
  LuaStackSize,   \* LUA_STACK_SIZE (256)
  Scripts,        \* texts, by name
  Words(_),       \* the words of a text
  Number(_),      \* atoi of a word
  Runs(_),        \* the scripts a function of that name may run
  MaxDepth,       \* bound: scripts within scripts
  MaxValue        \* bound: no text is loaded with a larger integer on the stack

ASSUME LuaAssumption ==
  /\ LuaStackSize \in Nat /\ MaxDepth \in Nat /\ MaxValue \in Nat
  /\ \A s \in Scripts : /\ Words(s) \in Seq(STRING)
                        /\ \A i \in DOMAIN Words(s) : Runs(Words(s)[i]) \subseteq Scripts

VARIABLES
  stack,      \* lua_global_state.stack
  words,      \* the words still readable in each text
  place,      \* strtok: the words left to give out
  running,    \* the executions open, the innermost last: [script, left, cut]:
              \* the words it has still to run, and whether they were cut off
  lastRun     \* the last one to end

luaVars == <<stack, words, place, running, lastRun>>

NoRun == [script |-> "none", left |-> 0, cut |-> FALSE]

LuaInit ==
  /\ stack = << >>
  /\ words = [s \in Scripts |-> Words(s)]
  /\ place = << >>
  /\ running = << >>
  /\ lastRun = NoRun

lua_push(st, value) == IF Len(st) < LuaStackSize THEN Append(st, value) ELSE st
Top(st) == IF st = << >> THEN 0 ELSE st[Len(st)]
lua_pop(st) == IF st = << >> THEN st ELSE SubSeq(st, 1, Len(st) - 1)

Second(st) == Top(lua_pop(st))

\* Both operands popped, the result pushed.
Computed(st, result) == lua_push(lua_pop(lua_pop(st)), result)

-----------------------------------------------------------------------------

\* Mutant: the words of the outer script follow those of the inner one.
Queued(s) == words[s] \o place

\* Where strtok goes on once it was given a text.
Placed(s) == words[s]

\* lua_execute_script begins over the executions open: strtok takes the text
\* and ends it after its first word; the open ones lose their place.
Start(s, open) ==
  /\ Len(open) < MaxDepth
  /\ place' = Placed(s)
  /\ words' = [words EXCEPT ![s] = SubSeq(@, 1, IF Len(@) > 1 THEN 1 ELSE Len(@))]
  /\ running' = Append([f \in DOMAIN open |-> [open[f] EXCEPT !.cut = @ \/ open[f].left > 0]],
                       [script |-> s, left |-> Len(words[s]), cut |-> FALSE])
  /\ UNCHANGED <<stack, lastRun>>

lua_execute_script(s) == running = << >> /\ Start(s, running)

\* script_loader_load reads a text into its buffer again.
script_loader_load(s) ==
  /\ running = << >>
  /\ \A i \in DOMAIN stack : stack[i] \in -MaxValue..MaxValue
  /\ words' = [words EXCEPT ![s] = Words(s)]
  /\ UNCHANGED <<stack, place, running, lastRun>>

\* The executions open after the innermost took n words, or what is left.
Given(n) ==
  LET m == IF n < Len(place) THEN n ELSE Len(place)
  IN  [running EXCEPT ![Len(running)].left = @ - m]

Take(n) ==
  /\ place' = SubSeq(place, n + 1, Len(place))
  /\ running' = Given(n)
  /\ UNCHANGED <<words, lastRun>>

Here(word) == running # << >> /\ place # << >> /\ place[1] = word

push ==
  /\ Here("push")
  /\ stack' = IF Len(place) > 1 THEN lua_push(stack, Number(place[2])) ELSE stack
  /\ Take(2)

add == Here("add") /\ stack' = Computed(stack, Second(stack) + Top(stack)) /\ Take(1)
sub == Here("sub") /\ stack' = Computed(stack, Second(stack) - Top(stack)) /\ Take(1)

\* lua_call_function: a function that runs no script, or none of that name.
call ==
  /\ Here("call")
  /\ Len(place) > 1 => Runs(place[2]) = {}
  /\ Take(2) /\ UNCHANGED stack

\* A function that runs one.
call_script ==
  /\ Here("call") /\ Len(place) > 1
  /\ \E s \in Runs(place[2]) : Start(s, Given(2))

other ==
  /\ running # << >> /\ place # << >>
  /\ place[1] \notin {"push", "add", "sub", "call"}
  /\ Take(1) /\ UNCHANGED stack

\* No word is left: the execution ends with the top of the stack.
return ==
  /\ running # << >> /\ place = << >>
  /\ stack' = lua_pop(stack)
  /\ lastRun' = running[Len(running)]
  /\ running' = SubSeq(running, 1, Len(running) - 1)
  /\ UNCHANGED <<words, place>>

LuaNext ==
  \/ \E s \in Scripts : lua_execute_script(s) \/ script_loader_load(s)
  \/ push \/ add \/ sub \/ call \/ call_script \/ other \/ return

-----------------------------------------------------------------------------

\* A script that returns has run every word it had and no other's, unless one
\* of its functions ran a script before its last word: then the rest of it is
\* dropped, for strtok's place is at the end of the other text (lua.c:69-71).
ScriptRest == lastRun.left >= 0 /\ (lastRun.left > 0 <=> lastRun.cut)
=============================================================================
