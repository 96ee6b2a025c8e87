--------------------------- MODULE ServicesProofs ---------------------------
(***************************************************************************)
(* For any hosts, scripts, names and plugins, and caches, stacks and       *)
(* tables of any size: what the services around the loader keep.           *)
(***************************************************************************)
EXTENDS Services, Loops, FunctionTheorems, FiniteSetTheorems

-----------------------------------------------------------------------------
(* Address resolution *)

Frame == [ip : Ips, mac : Macs]

\* A frame, a cache entry or an answer that its host stands by, or stood by
\* before it moved.
True(e) == e.ip \notin moved => e.mac = hosts[e.ip]

\* The inductive invariant: whatever carries an address, on the way, kept or
\* answered, carries it truly; while arp_resolve waits it has answered nothing
\* and passed no frame of the host over.
ArpInv ==
  /\ hosts \in [Ips -> Macs]
  /\ flight \subseteq Frame /\ \A frame \in flight : True(frame)
  /\ arp_cache # NoEntry => arp_cache \in Frame /\ True(arp_cache)
  /\ resolving \in Ips \cup {NoEntry}
  /\ retry \in 0..Retries /\ polls \in 0..Polls
  /\ resolving # NoEntry => answer = NoEntry
  /\ answer # NoEntry =>
       \/ answer \in Frame /\ True(answer)
       \/ answer.mac = "none" /\ retry = Retries /\ polls = Polls
  /\ missed = FALSE

\* The cache is empty and nothing is on its way.
LEMMA ArpInitInv == ArpInit => ArpInv
  BY ArpAssumption DEF ArpAssumption, ArpInit, ArpInv

\* No step of the network or of arp_resolve breaks it.
LEMMA ArpNextInv == ArpInv /\ [ArpNext]_arpVars => ArpInv'
<1> SUFFICES ASSUME ArpInv, [ArpNext]_arpVars PROVE ArpInv'
  OBVIOUS
<1> USE ArpAssumption DEF ArpAssumption, ArpInv, True
<1>1. ASSUME NEW ip \in Ips, Speak(ip) PROVE ArpInv'
  <2>1. [ip |-> ip, mac |-> hosts[ip]] \in Frame
    BY DEF Frame
  <2>2. QED
    BY <1>1, <2>1 DEF Speak
<1>2. ASSUME NEW ip \in Ips, Move(ip) PROVE ArpInv'
  <2>1. /\ hosts' \in [Ips -> Macs] /\ moved' = moved \cup {ip}
        /\ \A x \in Ips : x # ip => hosts'[x] = hosts[x]
    BY <1>2 DEF Move
  <2>2. \A e \in Frame : True(e) => True(e)'
    BY <2>1 DEF Frame
  <2>3. UNCHANGED <<flight, arp_cache, resolving, retry, polls, answer, missed>>
    BY <1>2 DEF Move
  <2> QED
    BY <2>1, <2>2, <2>3
<1>3. ASSUME NEW ip \in Ips, arp_resolve(ip) PROVE ArpInv'
  BY <1>3 DEF arp_resolve
<1>4. CASE poll
  <2>1. /\ resolving \in Ips /\ answer = NoEntry /\ polls < Polls
        /\ UNCHANGED <<hosts, moved>>
    BY <1>4 DEF poll
  <2>2. CASE polls' = polls + 1 /\ UNCHANGED <<flight, arp_cache, answer, resolving, retry, missed>>
    BY <2>1, <2>2
  <2>3. ASSUME NEW frame \in flight, flight' = flight \ {frame},
               IsAnswer(frame, resolving),
               arp_cache' = [ip |-> resolving, mac |-> frame.mac],
               answer' = [ip |-> resolving, mac |-> frame.mac],
               resolving' = NoEntry, UNCHANGED <<retry, polls, missed>>
        PROVE  ArpInv'
    <3>1. frame.ip = resolving /\ frame \in Frame /\ True(frame)
      BY <2>3 DEF IsAnswer
    <3>2. [ip |-> resolving, mac |-> frame.mac] = frame
      BY <3>1 DEF Frame
    <3> QED
      BY <2>1, <2>3, <3>1, <3>2
  <2>4. ASSUME NEW frame \in flight, flight' = flight \ {frame},
               ~IsAnswer(frame, resolving), polls' = polls + 1,
               missed' = (missed \/ frame.ip = resolving),
               UNCHANGED <<arp_cache, answer, resolving, retry>>
        PROVE  ArpInv'
    <3>1. missed' = FALSE
      BY <2>4, Zenon DEF IsAnswer
    <3> QED
      BY <2>1, <2>4, <3>1
  <2>5. QED
    BY <1>4, <2>2, <2>3, <2>4 DEF poll
<1>5. CASE again
  BY <1>5 DEF again
<1>6. CASE UNCHANGED arpVars
  BY <1>6 DEF arpVars
<1>7. QED
  BY <1>1, <1>2, <1>3, <1>4, <1>5, <1>6 DEF ArpNext

\* A step of any of the services is one of address resolution or leaves it.
LEMMA ServicesArpStep == [ServicesNext]_servicesVars => [ArpNext]_arpVars
  BY DEF ServicesNext, servicesVars

\* An address resolved or cached is the one its host has, or had before it
\* moved, and -1 comes after every poll of every request.
THEOREM ArpSafe == ServicesSpec => []ArpTellsTheTruth
<1>1. ServicesInit => ArpInv
  BY ArpInitInv DEF ServicesInit
<1>2. ArpInv /\ [ServicesNext]_servicesVars => ArpInv'
  BY ArpNextInv, ServicesArpStep
<1>3. ArpInv => ArpTellsTheTruth
  BY ArpAssumption DEF ArpAssumption, ArpInv, ArpTellsTheTruth, True, Frame
<1>4. QED
  BY <1>1, <1>2, <1>3, PTL DEF ServicesSpec
-----------------------------------------------------------------------------
(* Scripts within scripts *)

Word == {w \in STRING : Runs(w) \subseteq Scripts}
Run == [script : Scripts, left : Nat, cut : BOOLEAN]

\* An execution has words left exactly when it was cut off.
Settled(r) == r.left > 0 <=> r.cut

\* What Start does to an execution that was open.
CutOff(r) == [r EXCEPT !.cut = @ \/ r.left > 0]

\* The innermost execution is cut off, with words left and none to be had from
\* strtok, or has as many left as strtok has.
AtPlace(r, rest) == IF r.cut THEN rest = << >> /\ r.left > 0 ELSE r.left = Len(rest)

\* The inductive invariant.  An execution that waits for another one was cut
\* off, or had given out its last word before.
LuaInv ==
  /\ words \in [Scripts -> Seq(Word)]
  /\ place \in Seq(Word)
  /\ running \in Seq(Run)
  /\ \A f \in 1..Len(running) : f < Len(running) => Settled(running[f])
  /\ running # << >> => AtPlace(running[Len(running)], place)
  /\ lastRun.left >= 0 /\ Settled(lastRun)

\* The texts are made of words.
LEMMA WordsOfTexts == \A s \in Scripts : Words(s) \in Seq(Word)
<1>1. ASSUME NEW s \in Scripts PROVE Words(s) \in Seq(Word)
  <2>1. Words(s) \in Seq(STRING) /\ \A i \in DOMAIN Words(s) : Runs(Words(s)[i]) \subseteq Scripts
    BY LuaAssumption DEF LuaAssumption
  <2>2. \A i \in 1..Len(Words(s)) : Words(s)[i] \in Word
    BY <2>1, LenProperties DEF Word
  <2>3. QED
    BY <2>1, <2>2, SeqDef, LenProperties
<1>2. QED
  BY <1>1

\* No execution is open.
LEMMA LuaInitInv == LuaInit => LuaInv
<1> SUFFICES ASSUME LuaInit PROVE LuaInv
  OBVIOUS
<1>1. words \in [Scripts -> Seq(Word)]
  BY WordsOfTexts DEF LuaInit
<1>2. running = << >> /\ place = << >> /\ Len(running) = 0
  BY DEF LuaInit
<1>3. lastRun.left = 0 /\ lastRun.cut = FALSE
  BY DEF LuaInit, NoRun
<1>4. lastRun.left >= 0 /\ Settled(lastRun)
  BY <1>3 DEF Settled
<1>5. QED
  BY <1>1, <1>2, <1>4 DEF LuaInv

\* Words are taken from strtok and from what the innermost has left alike.
LEMMA TakenWords ==
  ASSUME LuaInv, running # << >>, place # << >>, NEW n \in Nat
  PROVE  /\ SubSeq(place, n + 1, Len(place)) \in Seq(Word)
         /\ Given(n) \in Seq(Run)
         /\ Len(running) \in Nat \ {0} /\ Len(Given(n)) = Len(running)
         /\ \A f \in 1..Len(running) : f < Len(running) => Given(n)[f] = running[f]
         /\ Given(n)[Len(running)].cut = FALSE
         /\ Given(n)[Len(running)].left = Len(SubSeq(place, n + 1, Len(place)))
<1> DEFINE k == Len(running)
           m == IF n < Len(place) THEN n ELSE Len(place)
           r == running[k]
           rest == SubSeq(place, n + 1, Len(place))
<1>1. /\ place \in Seq(Word) /\ running \in Seq(Run)
      /\ Len(place) \in Nat \ {0} /\ k \in Nat \ {0}
      /\ DOMAIN running = 1..k /\ \A f \in 1..k : running[f] \in Run
  BY LenProperties, EmptySeq DEF LuaInv
<1>2. rest \in Seq(Word) /\ Len(rest) = Len(place) - m
  <2>1. \A i \in (n + 1)..Len(place) : place[i] \in Word
    BY <1>1, LenProperties
  <2>2. /\ rest \in Seq(Word)
        /\ Len(rest) = IF n + 1 <= Len(place) THEN Len(place) - (n + 1) + 1 ELSE 0
    BY <1>1, <2>1, SubSeqProperties
  <2>3. \A l \in Nat : (IF n + 1 <= l THEN l - (n + 1) + 1 ELSE 0) = l - (IF n < l THEN n ELSE l)
    OBVIOUS
  <2>4. QED
    BY <1>1, <2>2, <2>3
<1>3. r \in Run /\ r.left \in Nat /\ r.cut \in BOOLEAN
  BY <1>1 DEF Run
<1>4. r.cut = FALSE /\ r.left = Len(place)
  <2>1. AtPlace(r, place) /\ place # << >>
    BY DEF LuaInv
  <2> HIDE DEF r
  <2>2. QED
    BY <1>3, <2>1, Zenon DEF AtPlace
<1>5. Given(n) = [running EXCEPT ![k] = [r EXCEPT !.left = r.left - m]]
  BY DEF Given
<1>6. [r EXCEPT !.left = r.left - m] \in Run
  <2>1. \A l \in Nat : l - (IF n < l THEN n ELSE l) \in Nat
    OBVIOUS
  <2>2. r.left - m \in Nat
    BY <1>1, <1>4, <2>1
  <2> HIDE DEF m, r
  <2>3. QED
    BY <1>3, <2>2 DEF Run
<1>7. [r EXCEPT !.left = r.left - m].cut = r.cut /\ [r EXCEPT !.left = r.left - m].left = r.left - m
  BY <1>3 DEF Run
<1> HIDE DEF m, r, rest, k
<1>8. /\ Given(n) \in Seq(Run) /\ Len(Given(n)) = k
      /\ \A f \in 1..k : f # k => Given(n)[f] = running[f]
      /\ Given(n)[k] = [r EXCEPT !.left = r.left - m]
  BY <1>1, <1>5, <1>6, ExceptSeq DEF k
<1>9. QED
  BY <1>1, <1>2, <1>4, <1>7, <1>8 DEF k, rest
\* An execution that is cut off is settled.
LEMMA CutOffSettles ==
  ASSUME NEW r \in Run, r.cut => r.left > 0
  PROVE  CutOff(r) \in Run /\ Settled(CutOff(r))
<1>1. r.left \in Nat /\ r.cut \in BOOLEAN
  BY DEF Run
<1> DEFINE c == r.cut \/ r.left > 0
<1>2. c \in BOOLEAN /\ (r.left > 0 <=> c)
  BY Zenon
<1>3. CutOff(r) = [r EXCEPT !.cut = c]
  BY Zenon DEF CutOff
<1> HIDE DEF c
<1>4. [r EXCEPT !.cut = c] \in Run
  BY <1>2 DEF Run
<1>5. [r EXCEPT !.cut = c].left = r.left /\ [r EXCEPT !.cut = c].cut = c
  BY DEF Run
<1>6. Settled([r EXCEPT !.cut = c])
  BY <1>2, <1>5, Zenon DEF Settled
<1>7. QED
  BY <1>3, <1>4, <1>6, Zenon

\* A script begins over others, of which none that waits is cut off without
\* words left.
LEMMA StartInv ==
  ASSUME LuaInv, NEW s \in Scripts, NEW open \in Seq(Run), Start(s, open),
         \A f \in 1..Len(open) : open[f].cut => open[f].left > 0
  PROVE  LuaInv'
<1> DEFINE n == Len(open)
           waiting == [f \in DOMAIN open |-> CutOff(open[f])]
           new == [script |-> s, left |-> Len(words[s]), cut |-> FALSE]
           first == SubSeq(words[s], 1, IF Len(words[s]) > 1 THEN 1 ELSE Len(words[s]))
<1>1. /\ n \in Nat /\ DOMAIN open = 1..n /\ \A f \in 1..n : open[f] \in Run
      /\ words \in [Scripts -> Seq(Word)] /\ words[s] \in Seq(Word)
      /\ Len(words[s]) \in Nat /\ \A i \in 1..Len(words[s]) : words[s][i] \in Word
  BY LenProperties DEF LuaInv
<1>2. waiting \in Seq(Run) /\ Len(waiting) = n /\ \A f \in 1..n : Settled(waiting[f])
  <2>1. \A f \in 1..n : CutOff(open[f]) \in Run /\ Settled(CutOff(open[f]))
    BY <1>1, CutOffSettles
  <2> HIDE DEF n
  <2>2. waiting \in [1..n -> Run] /\ \A f \in 1..n : Settled(waiting[f])
    BY <1>1, <2>1
  <2>3. QED
    BY <1>1, <2>2, SeqDef, LenProperties
<1>3. new \in Run
  BY <1>1 DEF Run
<1>4. first \in Seq(Word)
  <2> DEFINE k == IF Len(words[s]) > 1 THEN 1 ELSE Len(words[s])
  <2>1. k \in Nat /\ \A i \in 1..k : words[s][i] \in Word
    BY <1>1
  <2> HIDE DEF k
  <2>2. SubSeq(words[s], 1, k) \in Seq(Word)
    BY <2>1, SubSeqProperties
  <2>3. QED
    BY <2>2 DEF k
<1>5. /\ running' = Append(waiting, new)
      /\ place' = words[s]
      /\ words' = [words EXCEPT ![s] = first]
      /\ lastRun' = lastRun
  BY DEF Start, Placed, CutOff
<1>6. new.cut = FALSE /\ new.left = Len(words[s])
  OBVIOUS
<1> HIDE DEF waiting, new, first, n
<1>7. /\ running' \in Seq(Run) /\ Len(running') = n + 1
      /\ \A f \in 1..n : running'[f] = waiting[f]
      /\ running'[n + 1] = new
  BY <1>2, <1>3, <1>5, AppendProperties
<1>8. words' \in [Scripts -> Seq(Word)] /\ place' \in Seq(Word)
  BY <1>1, <1>4, <1>5
<1>9. \A f \in 1..Len(running') : f < Len(running') => Settled(running'[f])
  BY <1>1, <1>2, <1>7
<1>10. AtPlace(running'[Len(running')], place')
  BY <1>5, <1>6, <1>7 DEF AtPlace
<1>11. lastRun'.left >= 0 /\ Settled(lastRun')
  BY <1>5 DEF LuaInv
<1>12. QED
  BY <1>7, <1>8, <1>9, <1>10, <1>11 DEF LuaInv, Settled

\* Words are taken and no script begins.
LEMMA TakeInv ==
  ASSUME LuaInv, running # << >>, place # << >>, NEW n \in Nat, Take(n)
  PROVE  LuaInv'
<1> DEFINE k == Len(running)
<1>1. /\ place' = SubSeq(place, n + 1, Len(place)) /\ running' = Given(n)
      /\ words' = words /\ lastRun' = lastRun
  BY DEF Take
<1>2. /\ place' \in Seq(Word) /\ running' \in Seq(Run)
      /\ k \in Nat \ {0} /\ Len(running') = k
      /\ \A f \in 1..k : f < k => running'[f] = running[f]
      /\ running'[k].cut = FALSE
      /\ running'[k].left = Len(place')
  BY <1>1, TakenWords
<1>3. \A f \in 1..k : f < k => Settled(running'[f])
  BY <1>2 DEF LuaInv
<1>4. AtPlace(running'[k], place')
  BY <1>2 DEF AtPlace
<1>5. /\ words' \in [Scripts -> Seq(Word)]
      /\ lastRun'.left >= 0 /\ Settled(lastRun')
  BY <1>1 DEF LuaInv
<1> HIDE DEF k
<1>6. QED
  BY <1>2, <1>3, <1>4, <1>5 DEF LuaInv, Settled

\* The innermost execution ends, and the one below is where it was left.
LEMMA ReturnInv ==
  ASSUME LuaInv, return
  PROVE  LuaInv'
<1> DEFINE n == Len(running)
           r == running[n]
<1>1. /\ running \in Seq(Run) /\ running # << >> /\ place = << >>
      /\ n \in Nat \ {0} /\ \A f \in 1..n : running[f] \in Run
      /\ AtPlace(r, place) /\ Len(place) = 0
  BY LenProperties, EmptySeq DEF LuaInv, return
<1>2. /\ running' = SubSeq(running, 1, n - 1) /\ lastRun' = r
      /\ words' = words /\ place' = place
  BY DEF return
<1>3. r.left \in Nat /\ r.cut \in BOOLEAN
  BY <1>1 DEF Run
<1>4. r.left >= 0 /\ Settled(r)
  <2> HIDE DEF r
  <2>1. CASE r.cut
    BY <1>1, <1>3, <2>1 DEF AtPlace, Settled
  <2>2. CASE ~r.cut
    <3>1. r.left = 0
      BY <1>1, <2>2 DEF AtPlace
    <3>2. QED
      BY <2>2, <3>1 DEF Settled
  <2>3. QED
    BY <2>1, <2>2
<1> HIDE DEF r
<1>5. /\ running' \in Seq(Run) /\ Len(running') = n - 1
      /\ \A f \in 1..(n - 1) : running'[f] = running[f]
  <2>1. \A f \in 1..(n - 1) : running[f] \in Run
    BY <1>1
  <2> HIDE DEF n
  <2>2. /\ running' \in Seq(Run)
        /\ Len(running') = IF 1 <= n - 1 THEN (n - 1) - 1 + 1 ELSE 0
        /\ \A f \in 1..((n - 1) - 1 + 1) : running'[f] = running[1 + f - 1]
    BY <1>1, <1>2, <2>1, SubSeqProperties
  <2>3. QED
    BY <1>1, <2>2
<1>6. \A f \in 1..(n - 1) : Settled(running'[f])
  BY <1>1, <1>5 DEF LuaInv
<1>7. running' # << >> => AtPlace(running'[Len(running')], place')
  <2>1. SUFFICES ASSUME running' # << >> PROVE AtPlace(running'[n - 1], place')
    BY <1>5
  <2>2. n - 1 \in 1..(n - 1)
    BY <1>1, <1>5, <2>1, EmptySeq
  <2> DEFINE q == running'[n - 1]
  <2>3. q \in Run /\ Settled(q)
    BY <1>5, <1>6, <2>2, LenProperties
  <2>4. q.left \in Nat
    BY <2>3 DEF Run
  <2> HIDE DEF q
  <2>5. CASE q.cut
    BY <1>1, <1>2, <2>3, <2>5 DEF AtPlace, Settled, q
  <2>6. CASE ~q.cut
    <3>1. q.left = 0
      BY <2>3, <2>4, <2>6 DEF Settled
    <3>2. QED
      BY <1>1, <1>2, <2>6, <3>1 DEF AtPlace, q
  <2>7. QED
    BY <2>5, <2>6
<1>8. lastRun'.left >= 0 /\ Settled(lastRun')
  BY <1>2, <1>4
<1>9. words' \in [Scripts -> Seq(Word)] /\ place' \in Seq(Word)
  BY <1>2 DEF LuaInv
<1> HIDE DEF n
<1>10. QED
  BY <1>1, <1>5, <1>6, <1>7, <1>8, <1>9 DEF LuaInv, Settled

\* No step of the interpreter breaks it.
LEMMA LuaNextInv == LuaInv /\ [LuaNext]_luaVars => LuaInv'
<1> SUFFICES ASSUME LuaInv, [LuaNext]_luaVars PROVE LuaInv'
  OBVIOUS
<1>1. ASSUME NEW s \in Scripts, lua_execute_script(s) PROVE LuaInv'
  <2>1. running = << >> /\ Len(running) = 0 /\ running \in Seq(Run) /\ Start(s, running)
    BY <1>1 DEF lua_execute_script, LuaInv
  <2>2. \A f \in 1..Len(running) : running[f].cut => running[f].left > 0
    BY <2>1
  <2>3. QED
    BY <2>1, <2>2, StartInv
<1>2. ASSUME NEW s \in Scripts, script_loader_load(s) PROVE LuaInv'
  <2>1. /\ running = << >> /\ running' = running /\ place' = place /\ lastRun' = lastRun
        /\ words' = [words EXCEPT ![s] = Words(s)]
    BY <1>2 DEF script_loader_load
  <2>2. words' \in [Scripts -> Seq(Word)]
    BY <2>1, WordsOfTexts DEF LuaInv
  <2>3. QED
    BY <2>1, <2>2 DEF LuaInv, Settled
<1>3. ASSUME running # << >>, place # << >>, Take(1) \/ Take(2) PROVE LuaInv'
  BY <1>3, TakeInv
<1>4. CASE call_script
  <2>1. PICK s \in Runs(place[2]) : Start(s, Given(2))
    BY <1>4 DEF call_script
  <2>2. running # << >> /\ place # << >> /\ Len(place) > 1
    BY <1>4 DEF call_script, Here
  <2>3. s \in Scripts
    BY <2>1, <2>2, LenProperties DEF LuaInv, Word
  <2>4. /\ Given(2) \in Seq(Run)
        /\ Len(running) \in Nat \ {0} /\ Len(Given(2)) = Len(running)
        /\ \A f \in 1..Len(running) : f < Len(running) => Given(2)[f] = running[f]
        /\ Given(2)[Len(running)].cut = FALSE
    BY <2>2, TakenWords
  <2>5. \A f \in 1..Len(running) : f < Len(running) => (running[f].left > 0 <=> running[f].cut)
    BY DEF LuaInv, Settled
  <2>6. ASSUME NEW f \in 1..Len(Given(2)), Given(2)[f].cut PROVE Given(2)[f].left > 0
    <3>1. f \in 1..Len(running) /\ f # Len(running)
      BY <2>4, <2>6
    <3>2. f < Len(running)
      BY <2>4, <3>1
    <3>3. Given(2)[f] = running[f]
      BY <2>4, <3>1, <3>2
    <3>4. QED
      BY <2>5, <2>6, <3>1, <3>2, <3>3
  <2>7. QED
    BY <2>1, <2>3, <2>4, <2>6, StartInv
<1>5. CASE return
  BY <1>5, ReturnInv
<1>6. CASE UNCHANGED luaVars
  BY <1>6 DEF luaVars, LuaInv, Settled, AtPlace
<1>7. CASE push \/ add \/ sub \/ call \/ other
  BY <1>3, <1>7 DEF push, add, sub, call, other, Here
<1>8. QED
  BY <1>1, <1>2, <1>4, <1>5, <1>6, <1>7 DEF LuaNext

\* A step of any of the services is one of the interpreter or leaves it.
LEMMA ServicesLuaStep == [ServicesNext]_servicesVars => [LuaNext]_luaVars
  BY DEF ServicesNext, servicesVars

\* However deep scripts run scripts, one that returns has run every word it
\* had, or was cut off with words left.
THEOREM ScriptsSafe == ServicesSpec => []ScriptRest
<1>1. ServicesInit => LuaInv
  BY LuaInitInv DEF ServicesInit
<1>2. LuaInv /\ [ServicesNext]_servicesVars => LuaInv'
  BY LuaNextInv, ServicesLuaStep
<1>3. LuaInv => ScriptRest
  BY DEF LuaInv, ScriptRest, Settled
<1>4. QED
  BY <1>1, <1>2, <1>3, PTL DEF ServicesSpec
-----------------------------------------------------------------------------
(* Tables of names *)

\* The inductive invariant: each entry holds what a caller put there, its name
\* as the table keeps it.
TablesInv ==
  /\ kind \in TableKinds
  /\ puts \in Seq([name : Keys, value : Values])
  /\ DOMAIN table = DOMAIN puts /\ table \in Seq([name : Seq(STRING), value : Values])
  /\ \A i \in DOMAIN puts : table[i].name = Stored(puts[i].name) /\ table[i].value = puts[i].value

\* The entries that answer to a name.
Answering(name) ==
  IF ByPrefix
  THEN {i \in DOMAIN puts : Len(puts[i].name) < Kept(kind) /\ IsPrefixOf(puts[i].name, name)}
  ELSE {i \in DOMAIN puts : Stored(puts[i].name) = name}

\* A table keeps of a name the beginning that fits.
LEMMA StoredProperties ==
  ASSUME NEW name \in Seq(STRING), kind \in TableKinds
  PROVE  /\ Stored(name) \in Seq(STRING)
         /\ Len(name) \in Nat /\ Kept(kind) \in Nat
         /\ Len(name) <= Kept(kind) => Stored(name) = name
         /\ Len(Stored(name)) = IF Len(name) < Kept(kind) THEN Len(name) ELSE Kept(kind)
<1> DEFINE n == IF Len(name) < Kept(kind) THEN Len(name) ELSE Kept(kind)
<1>1. Kept(kind) \in Nat /\ Len(name) \in Nat /\ \A i \in 1..Len(name) : name[i] \in STRING
  BY NameTablesAssumption, LenProperties DEF NameTablesAssumption
<1>2. n \in Nat /\ n <= Len(name) /\ (Len(name) <= Kept(kind) => n = Len(name))
  BY <1>1
<1> HIDE DEF n
<1>3. /\ SubSeq(name, 1, n) \in Seq(STRING) /\ Len(SubSeq(name, 1, n)) = n
      /\ \A i \in 1..n : SubSeq(name, 1, n)[i] = name[i]
  BY <1>1, <1>2, SubSeqProperties
<1>4. n = Len(name) => SubSeq(name, 1, n) = name
  BY <1>1, <1>3, SeqEqual
<1>5. Stored(name) = SubSeq(name, 1, n)
  BY DEF Stored, n
<1>6. QED
  BY <1>1, <1>2, <1>3, <1>4, <1>5 DEF n

\* Nothing was put.
LEMMA TablesInitInv == NameTablesInit => TablesInv
  BY EmptySeq DEF NameTablesInit, TablesInv, Stored

\* A table only grows.
LEMMA TablesNextInv == TablesInv /\ [NameTablesNext]_tableVars => TablesInv'
<1> SUFFICES ASSUME TablesInv, [NameTablesNext]_tableVars PROVE TablesInv'
  OBVIOUS
<1>1. ASSUME NEW name \in Keys, NEW value \in Values, Put(name, value) PROVE TablesInv'
  <2> DEFINE e == [name |-> Stored(name), value |-> value]
             c == [name |-> name, value |-> value]
             n == Len(puts)
  <2>1. /\ table' = Append(table, e) /\ puts' = Append(puts, c) /\ kind' = kind
    BY <1>1 DEF Put
  <2>2. /\ kind \in TableKinds /\ puts \in Seq([name : Keys, value : Values])
        /\ table \in Seq([name : Seq(STRING), value : Values])
        /\ Len(table) = n /\ n \in Nat /\ DOMAIN puts = 1..n /\ DOMAIN table = 1..n
    BY LenProperties DEF TablesInv
  <2>3. e \in [name : Seq(STRING), value : Values] /\ c \in [name : Keys, value : Values]
    BY <2>2, NameTablesAssumption, StoredProperties DEF NameTablesAssumption
  <2>4. e.name = Stored(c.name) /\ e.value = c.value
    OBVIOUS
  <2> HIDE DEF e, c, n
  <2>5. /\ table' \in Seq([name : Seq(STRING), value : Values])
        /\ puts' \in Seq([name : Keys, value : Values])
        /\ DOMAIN table' = 1..(n + 1) /\ DOMAIN puts' = 1..(n + 1)
        /\ \A i \in 1..n : table'[i] = table[i] /\ puts'[i] = puts[i]
        /\ table'[n + 1] = e /\ puts'[n + 1] = c
    BY <2>1, <2>2, <2>3, AppendProperties, LenProperties
  <2>6. \A i \in 1..(n + 1) : i \in 1..n \/ i = n + 1
    BY <2>2
  <2>7. \A i \in 1..(n + 1) : table'[i].name = Stored(puts'[i].name) /\ table'[i].value = puts'[i].value
    BY <2>2, <2>4, <2>5, <2>6 DEF TablesInv
  <2>8. QED
    BY <2>1, <2>2, <2>5, <2>7 DEF TablesInv, Stored
<1>2. CASE UNCHANGED tableVars
  BY <1>2 DEF tableVars, TablesInv, Stored
<1>3. QED
  BY <1>1, <1>2 DEF NameTablesNext, script_env_set, script_api_register, plugin_registry_register, putenv

\* A search ends at the first entry that answers.
LEMMA FirstOfProperties ==
  ASSUME NEW hits \in SUBSET Nat
  PROVE  /\ hits = {} => FirstOf(hits) = Absent
         /\ \A i \in hits : (\A j \in hits : i <= j) => FirstOf(hits) = table[i].value
<1>1. ASSUME NEW i \in hits, \A j \in hits : i <= j
      PROVE  FirstOf(hits) = table[i].value
  <2> DEFINE k == CHOOSE x \in hits : \A j \in hits : x <= j
  <2>1. k \in hits /\ \A j \in hits : k <= j
    BY <1>1
  <2>2. k = i
    <3> HIDE DEF k
    <3>1. k <= i /\ i <= k /\ i \in Nat /\ k \in Nat
      BY <1>1, <2>1
    <3>2. QED
      BY <3>1
  <2>3. hits # {}
    BY <1>1
  <2>4. QED
    BY <2>2, <2>3 DEF FirstOf
<1>2. QED
  BY <1>1 DEF FirstOf

\* Callers put names.
LEMMA PutNames ==
  ASSUME TablesInv
  PROVE  \A i \in DOMAIN puts : puts[i].name \in Seq(STRING) /\ Len(puts[i].name) < Kept("environ")
<1>1. puts \in Seq([name : Keys, value : Values])
  BY DEF TablesInv
<1>2. \A i \in DOMAIN puts : puts[i] \in [name : Keys, value : Values]
  BY <1>1, ElementOfSeq, LenProperties
<1>3. \A i \in DOMAIN puts : puts[i].name \in Keys
  BY <1>2
<1>4. QED
  BY <1>3, NameTablesAssumption DEF NameTablesAssumption

\* Every table is searched for the entries that answer.
LEMMA LookUpProperties ==
  ASSUME TablesInv, NEW name \in Keys
  PROVE  LookUp(name) = FirstOf(Answering(name))
<1>1. /\ \A i \in DOMAIN puts : /\ table[i].name = Stored(puts[i].name)
                                /\ puts[i].name \in Seq(STRING)
                                /\ kind = "environ" => Len(puts[i].name) < Kept(kind)
      /\ DOMAIN table = DOMAIN puts /\ kind \in TableKinds
  BY PutNames DEF TablesInv
<1>2. ASSUME NEW i \in DOMAIN puts
      PROVE  LET n == puts[i].name
             IN  /\ Stored(n) \in Seq(STRING) /\ Len(n) \in Nat /\ Kept(kind) \in Nat
                 /\ Len(n) <= Kept(kind) => Stored(n) = n
                 /\ Len(Stored(n)) = IF Len(n) < Kept(kind) THEN Len(n) ELSE Kept(kind)
  BY <1>1, StoredProperties
<1>3. CASE kind = "env"
  <2>1. LookUp(name) = FirstOf({i \in DOMAIN table : Len(table[i].name) < Kept(kind)
                                                     /\ IsPrefixOf(table[i].name, name)})
    BY <1>3 DEF LookUp, script_env_get
  <2>2. \A i \in DOMAIN puts : /\ Len(table[i].name) < Kept(kind) <=> Len(puts[i].name) < Kept(kind)
                               /\ Len(puts[i].name) < Kept(kind) => table[i].name = puts[i].name
    BY <1>1, <1>2
  <2>3. {i \in DOMAIN table : Len(table[i].name) < Kept(kind) /\ IsPrefixOf(table[i].name, name)}
          = Answering(name)
    BY <1>1, <1>3, <2>2 DEF Answering, ByPrefix
  <2>4. QED
    BY <2>1, <2>3
<1>4. CASE kind = "environ"
  <2>1. LookUp(name) = FirstOf({i \in DOMAIN table : IsPrefixOf(table[i].name, name)})
    BY <1>4 DEF LookUp, config_env_get
  <2>2. \A i \in DOMAIN puts : Len(puts[i].name) < Kept(kind) /\ table[i].name = puts[i].name
    BY <1>1, <1>2, <1>4
  <2>3. {i \in DOMAIN table : IsPrefixOf(table[i].name, name)} = Answering(name)
    BY <1>1, <1>4, <2>2 DEF Answering, ByPrefix
  <2>4. QED
    BY <2>1, <2>3
<1>5. CASE kind \in {"api", "registry"}
  <2>1. LookUp(name) = FirstOf({i \in DOMAIN table : table[i].name = name})
    BY <1>5 DEF LookUp, script_api_lookup, plugin_registry_find
  <2>2. {i \in DOMAIN table : table[i].name = name} = Answering(name)
    BY <1>1, <1>5 DEF Answering, ByPrefix
  <2>3. QED
    BY <2>1, <2>2
<1>6. QED
  BY <1>1, <1>3, <1>4, <1>5 DEF TableKinds

\* A name begins with itself.
LEMMA BeginsWithItself == \A name \in Seq(STRING) : IsPrefixOf(name, name)
<1>1. ASSUME NEW name \in Seq(STRING) PROVE IsPrefixOf(name, name)
  <2>1. Len(name) \in Nat /\ \A i \in 1..Len(name) : name[i] \in STRING
    BY LenProperties
  <2>2. /\ SubSeq(name, 1, Len(name)) \in Seq(STRING)
        /\ Len(SubSeq(name, 1, Len(name))) = Len(name)
        /\ \A i \in 1..Len(name) : SubSeq(name, 1, Len(name))[i] = name[i]
    BY <2>1, SubSeqProperties
  <2>3. SubSeq(name, 1, Len(name)) = name
    BY <2>1, <2>2, SeqEqual
  <2>4. QED
    BY <2>1, <2>3 DEF IsPrefixOf
<1>2. QED
  BY <1>1

\* A name that is alone is answered by the entries put under it, if it is whole.
LEMMA AloneAnswers ==
  ASSUME TablesInv, NEW name \in Keys, Alone(name)
  PROVE  Answering(name) = IF FitsWhole(name) THEN PutUnder(name) ELSE {}
<1>1. kind \in TableKinds /\ name \in Seq(STRING) /\ \A i \in DOMAIN puts : puts[i].name \in Seq(STRING)
  BY NameTablesAssumption, PutNames DEF NameTablesAssumption, TablesInv
<1>2. /\ Len(name) \in Nat /\ Kept(kind) \in Nat
      /\ Len(name) <= Kept(kind) => Stored(name) = name
      /\ Len(Stored(name)) = IF Len(name) < Kept(kind) THEN Len(name) ELSE Kept(kind)
  BY <1>1, StoredProperties
<1>3. CASE ByPrefix
  <2>1. ASSUME NEW i \in DOMAIN puts
        PROVE  i \in Answering(name) <=> puts[i].name = name /\ Len(name) < Kept(kind)
    <3>1. IsPrefixOf(puts[i].name, name) => puts[i].name = name
      BY <1>3 DEF Alone
    <3>2. puts[i].name = name => IsPrefixOf(puts[i].name, name)
      BY <1>1, BeginsWithItself
    <3>3. QED
      BY <1>3, <3>1, <3>2 DEF Answering
  <2>2. QED
    BY <1>3, <2>1 DEF Answering, FitsWhole, PutUnder
<1>4. CASE ~ByPrefix
  <2>1. ASSUME NEW i \in DOMAIN puts
        PROVE  i \in Answering(name) <=> puts[i].name = name /\ Len(name) <= Kept(kind)
    <3>1. Stored(puts[i].name) = name => puts[i].name = name
      BY <1>4 DEF Alone
    <3>2. Stored(name) = name <=> Len(name) <= Kept(kind)
      BY <1>2
    <3>3. QED
      BY <1>4, <3>1, <3>2 DEF Answering
  <2>2. QED
    BY <1>4, <2>1 DEF Answering, FitsWhole, PutUnder
<1>5. QED
  BY <1>3, <1>4

\* What the entries say makes the searches answer as callers find them to.
LEMMA TablesAnswer == TablesInv => FirstIsFound
<1> SUFFICES ASSUME TablesInv, NEW name \in Keys
             PROVE  /\ Alone(name) =>
                         IF FitsWhole(name) /\ PutUnder(name) # {}
                         THEN \A i \in PutUnder(name) :
                                (\A j \in PutUnder(name) : i <= j) => LookUp(name) = puts[i].value
                         ELSE LookUp(name) = Absent
                    /\ ByPrefix => \A i \in DOMAIN puts :
                         LET earlier == puts[i].name
                         IN  /\ Len(earlier) < Kept(kind) /\ IsPrefixOf(earlier, name) /\ earlier # name
                             /\ \A j \in 1..(i - 1) : ~IsPrefixOf(puts[j].name, name)
                             => LookUp(name) = puts[i].value
  BY DEF FirstIsFound
<1>1. /\ DOMAIN puts \in SUBSET Nat /\ \A i, j \in DOMAIN puts : j < i => j \in 1..(i - 1)
      /\ \A i \in DOMAIN puts : table[i].value = puts[i].value
  BY LenProperties DEF TablesInv
<1>2. Answering(name) \in SUBSET DOMAIN puts /\ Answering(name) \in SUBSET Nat
  BY <1>1 DEF Answering
<1>3. /\ Answering(name) = {} => LookUp(name) = Absent
      /\ \A i \in Answering(name) :
           (\A j \in Answering(name) : i <= j) => LookUp(name) = puts[i].value
  BY <1>1, <1>2, FirstOfProperties, LookUpProperties
<1>4. ASSUME Alone(name)
      PROVE  IF FitsWhole(name) /\ PutUnder(name) # {}
             THEN \A i \in PutUnder(name) :
                    (\A j \in PutUnder(name) : i <= j) => LookUp(name) = puts[i].value
             ELSE LookUp(name) = Absent
  BY <1>3, <1>4, AloneAnswers
<1>5. ASSUME ByPrefix, NEW i \in DOMAIN puts,
             Len(puts[i].name) < Kept(kind), IsPrefixOf(puts[i].name, name),
             \A j \in 1..(i - 1) : ~IsPrefixOf(puts[j].name, name)
      PROVE  LookUp(name) = puts[i].value
  <2>1. i \in Answering(name)
    BY <1>5 DEF Answering
  <2>2. \A j \in Answering(name) : IsPrefixOf(puts[j].name, name)
    BY <1>5 DEF Answering
  <2>3. \A j \in Answering(name) : ~(j < i)
    BY <1>1, <1>2, <1>5, <2>2
  <2>4. \A j \in Answering(name) : i <= j
    BY <1>1, <1>2, <2>3
  <2>5. QED
    BY <1>3, <2>1, <2>4
<1>6. QED
  BY <1>4, <1>5

\* A step of any of the services is one of the tables or leaves them.
LEMMA ServicesTablesStep == [ServicesNext]_servicesVars => [NameTablesNext]_tableVars
  BY DEF ServicesNext, servicesVars

\* Whatever was put in a table of any size, in any order, a search finds the
\* first value of a whole name that is not taken for another.
THEOREM TablesSafe == ServicesSpec => []FirstIsFound
<1>1. ServicesInit => TablesInv
  BY TablesInitInv DEF ServicesInit
<1>2. TablesInv /\ [ServicesNext]_servicesVars => TablesInv'
  BY TablesNextInv, ServicesTablesStep
<1>3. TablesInv => FirstIsFound
  BY TablesAnswer
<1>4. QED
  BY <1>1, <1>2, <1>3, PTL DEF ServicesSpec
-----------------------------------------------------------------------------
(* Plugins *)

Call == [op : {"register", "load", "unload"}, library : Libraries \ Mute, slot : 0..(MaxPlugins - 1)]

\* How often a library is open: its slots, and its registrations that wait.
Registering(p) == {f \in Waiting("register") : frames[f].library = p}
Open(p) == Cardinality(Slots(p)) + Cardinality(Registering(p))

\* The table holds libraries where it is counted, and each is open as often as
\* the table says.
TableInv ==
  /\ plugins \in [0..(MaxPlugins - 1) -> Libraries \cup {Vacant}]
  /\ plugin_count \in 0..MaxPlugins
  /\ \A i \in 0..(plugin_count - 1) : plugins[i] \in Libraries
  /\ refs \in [Libraries -> Nat]
  /\ \A p \in Libraries : refs[p] = Open(p)

\* Over a registration that waits there is nothing but calls of init, so its
\* library stays in the slot after the last one counted.
RegisterInv ==
  \A f \in Waiting("register") :
    /\ frames[f].slot = plugin_count /\ plugins[plugin_count] = frames[f].library
    /\ \A g \in 1..Len(frames) : f < g => frames[g].op = "load"

\* The slot an unload waits to take out holds its library; each unload inside
\* another is of a slot further on and of another library.
UnloadInv ==
  \A f \in Waiting("unload") :
    /\ frames[f].slot < plugin_count /\ plugins[frames[f].slot] = frames[f].library
    /\ \A g \in Waiting("unload") : f < g => /\ frames[f].slot < frames[g].slot
                                             /\ frames[f].library # frames[g].library

\* The code of every call that waits is loaded, and when an unload ends the
\* code of those below it still is.
LoadedInv ==
  /\ \A f \in 1..Len(frames) : refs[frames[f].library] > 0
  /\ \A g \in Waiting("unload") : \A f \in 1..(g - 1) :
       frames[f].library = frames[g].library => refs[frames[g].library] > 1

Whole == ~strayed /\ frames \in Seq(Call) /\ TableInv /\ RegisterInv /\ UnloadInv /\ LoadedInv

\* The inductive invariant.
PluginsInv ==
  /\ meddled \in BOOLEAN
  /\ ~meddled => Whole

\* The counted slots of a table that hold a library.
Holding(at, count, p) == {i \in 0..(count - 1) : i < MaxPlugins /\ at[i] = p}

\* There are finitely many.
LEMMA HoldingFinite ==
  ASSUME NEW at, NEW count \in Nat, NEW p
  PROVE  /\ IsFiniteSet(Holding(at, count, p)) /\ Cardinality(Holding(at, count, p)) \in Nat
         /\ Holding(at, count, p) \in SUBSET Nat
<1>1. IsFiniteSet(0..(count - 1))
  BY FS_Interval
<1>2. Holding(at, count, p) \in SUBSET (0..(count - 1))
  BY DEF Holding
<1>3. QED
  BY <1>1, <1>2, FS_Subset, FS_CardinalityType

\* One more slot counted is one more for the library it holds.
LEMMA HoldingGrows ==
  ASSUME NEW at, NEW count \in Nat, count < MaxPlugins, NEW p
  PROVE  Cardinality(Holding(at, count + 1, p)) =
           Cardinality(Holding(at, count, p)) + (IF at[count] = p THEN 1 ELSE 0)
<1>1. CASE at[count] = p
  <2>1. Holding(at, count + 1, p) = Holding(at, count, p) \cup {count}
    BY <1>1 DEF Holding
  <2>2. count \notin Holding(at, count, p)
    BY DEF Holding
  <2>3. QED
    BY <1>1, <2>1, <2>2, HoldingFinite, FS_AddElement
<1>2. CASE at[count] # p
  <2>1. Holding(at, count + 1, p) = Holding(at, count, p)
    BY <1>2 DEF Holding
  <2>2. QED
    BY <1>2, <2>1, HoldingFinite
<1>3. QED
  BY <1>1, <1>2

\* The slots move up over the one taken out: one less for the library it held.
LEMMA HoldingShifted ==
  ASSUME NEW M \in Nat, M = MaxPlugins, NEW at, DOMAIN at = 0..(M - 1),
         NEW count \in 1..M, NEW i \in 0..(count - 1), NEW p
  PROVE  Cardinality(Holding(Shifted(at, i, count), count - 1, p)) =
           Cardinality(Holding(at, count, p)) - (IF at[i] = p THEN 1 ELSE 0)
<1> DEFINE S == Holding(at, count, p)
           T == Holding(Shifted(at, i, count), count - 1, p)
           Up(j) == IF j < i THEN j ELSE j - 1
           f == [j \in S \ {i} |-> Up(j)]
<1>1. \A j \in 0..(count - 2) :
        Shifted(at, i, count)[j] = IF j < i THEN at[j] ELSE at[j + 1]
  <2>1. \A j \in 0..(count - 2) : j \in 0..(M - 1) /\ j < count - 1 /\ j + 1 < M
    OBVIOUS
  <2>2. \A j \in 0..(count - 2) : j >= i <=> ~(j < i)
    OBVIOUS
  <2>3. QED
    BY <2>1, <2>2 DEF Shifted
<1>2. T = {j \in 0..(count - 2) : (IF j < i THEN at[j] ELSE at[j + 1]) = p}
  <2>1. T = {j \in 0..(count - 2) : j < M /\ Shifted(at, i, count)[j] = p}
    <3>1. 0..((count - 1) - 1) = 0..(count - 2)
      OBVIOUS
    <3>2. QED
      BY <3>1 DEF Holding
  <2>2. \A j \in 0..(count - 2) : j < M
    OBVIOUS
  <2>3. QED
    BY <1>1, <2>1, <2>2
<1>3. S = {j \in 0..(count - 1) : at[j] = p}
  BY DEF Holding
<1> HIDE DEF S, T
<1>4. \A j \in S \ {i} : Up(j) \in T
  <2>1. ASSUME NEW j \in S \ {i}, j < i PROVE j \in T
    BY <1>2, <1>3, <2>1
  <2>2. ASSUME NEW j \in S \ {i}, ~(j < i) PROVE j - 1 \in T
    <3>1. j \in 0..(count - 1) /\ j > i /\ at[j] = p
      BY <1>3, <2>2
    <3>2. j - 1 \in 0..(count - 2) /\ ~(j - 1 < i) /\ (j - 1) + 1 = j
      BY <3>1
    <3>3. QED
      BY <1>2, <3>1, <3>2
  <2>3. QED
    BY <2>1, <2>2
<1>5. \A k \in T : \E j \in S \ {i} : Up(j) = k
  <2>1. ASSUME NEW k \in T, k < i PROVE k \in S \ {i} /\ Up(k) = k
    BY <1>2, <1>3, <2>1
  <2>2. ASSUME NEW k \in T, ~(k < i) PROVE k + 1 \in S \ {i} /\ Up(k + 1) = k
    <3>1. k \in 0..(count - 2) /\ at[k + 1] = p
      BY <1>2, <2>2
    <3>2. k + 1 \in 0..(count - 1) /\ k + 1 > i /\ (k + 1) - 1 = k
      BY <2>2, <3>1
    <3>3. QED
      BY <1>3, <3>1, <3>2
  <2>3. QED
    BY <2>1, <2>2
<1>6. \A j, k \in S \ {i} : Up(j) = Up(k) => j = k
  BY <1>3
<1>7. IsFiniteSet(S) /\ Cardinality(S) \in Nat
  BY HoldingFinite DEF S
<1>8. IsFiniteSet(S \ {i}) /\ Cardinality(S \ {i}) = IF i \in S THEN Cardinality(S) - 1 ELSE Cardinality(S)
  BY <1>7, FS_RemoveElement
<1>9. ExistsBijection(S \ {i}, T)
  <2>1. f \in [S \ {i} -> T]
    BY <1>4
  <2>2. \A j, k \in S \ {i} : f[j] = f[k] => j = k
    BY <1>6
  <2>3. \A k \in T : \E j \in S \ {i} : f[j] = k
    BY <1>5
  <2> HIDE DEF f
  <2>4. QED
    BY <2>1, <2>2, <2>3, Fun_IsBij, Fun_ExistsBij
<1>10. Cardinality(T) = Cardinality(S \ {i})
  BY <1>8, <1>9, FS_Bijection
<1>11. i \in S <=> at[i] = p
  BY <1>3
<1>12. QED
  BY <1>7, <1>8, <1>10, <1>11 DEF S, T

\* A slot of that name, the first one, is counted and holds it.
LEMMA FirstHolds ==
  ASSUME TableInv, NEW p, Slots(p) # {}
  PROVE  /\ First(p) \in 0..(plugin_count - 1) /\ First(p) \in 0..(MaxPlugins - 1)
         /\ plugins[First(p)] = p
         /\ \A j \in Slots(p) : First(p) <= j
<1>1. Slots(p) \in SUBSET Nat
  BY DEF Slots
<1>2. PICK i \in Slots(p) : \A j \in Slots(p) : i <= j
  BY <1>1, LeastElement
<1>3. First(p) \in Slots(p) /\ \A j \in Slots(p) : First(p) <= j
  BY <1>2 DEF First
<1>4. First(p) \in 0..(plugin_count - 1) /\ First(p) < MaxPlugins /\ plugins[First(p)] = p
  BY <1>3 DEF Slots
<1>5. MaxPlugins \in Nat /\ plugin_count \in Nat
  BY PluginsAssumption DEF TableInv, PluginsAssumption
<1> HIDE DEF First
<1>6. First(p) \in 0..(MaxPlugins - 1)
  BY <1>4, <1>5
<1>7. QED
  BY <1>3, <1>4, <1>6

\* The counts behind Open are of the table and of registrations.
LEMMA OpenCounts ==
  ASSUME plugin_count \in Nat, frames \in Seq(Call), NEW p
  PROVE  /\ Slots(p) = Holding(plugins, plugin_count, p)
         /\ IsFiniteSet(Slots(p)) /\ Cardinality(Slots(p)) \in Nat
         /\ IsFiniteSet(Registering(p)) /\ Cardinality(Registering(p)) \in Nat
<1>1. Slots(p) = Holding(plugins, plugin_count, p)
  BY DEF Slots, Holding
<1>2. Registering(p) \in SUBSET (1..Len(frames)) /\ Len(frames) \in Nat
  BY LenProperties DEF Registering, Waiting
<1>3. IsFiniteSet(1..Len(frames))
  BY <1>2, FS_Interval
<1>4. IsFiniteSet(Registering(p))
  BY <1>2, <1>3, FS_Subset
<1>5. QED
  BY <1>1, <1>4, HoldingFinite, FS_CardinalityType

\* A library with a slot is open.
LEMMA SlotIsOpen ==
  ASSUME TableInv, frames \in Seq(Call), NEW p \in Libraries, Slots(p) # {}
  PROVE  refs[p] > 0
<1>1. plugin_count \in Nat
  BY PluginsAssumption DEF TableInv, PluginsAssumption
<1>2. Cardinality(Slots(p)) \in Nat /\ Cardinality(Slots(p)) # 0 /\ Cardinality(Registering(p)) \in Nat
  BY <1>1, OpenCounts, FS_EmptySet
<1>3. refs[p] = Cardinality(Slots(p)) + Cardinality(Registering(p))
  BY DEF TableInv, Open
<1>4. QED
  BY <1>2, <1>3

\* A call that waits for its callback is the innermost one.
LEMMA CallWaits ==
  ASSUME frames \in Seq(Call), NEW e \in Call, frames' = Append(frames, e)
  PROVE  /\ frames' \in Seq(Call) /\ Len(frames) \in Nat /\ Len(frames') = Len(frames) + 1
         /\ \A f \in 1..Len(frames) : frames'[f] = frames[f]
         /\ frames'[Len(frames) + 1] = e
         /\ \A op : Waiting(op)' = IF e.op = op THEN Waiting(op) \cup {Len(frames) + 1} ELSE Waiting(op)
<1> DEFINE n == Len(frames)
<1>1. n \in Nat
  BY LenProperties
<1>2. /\ frames' \in Seq(Call) /\ Len(frames') = n + 1
      /\ \A f \in 1..n : frames'[f] = frames[f]
      /\ frames'[n + 1] = e
  BY AppendProperties
<1>3. \A f : f \in 1..(n + 1) <=> f \in 1..n \/ f = n + 1
  BY <1>1
<1> HIDE DEF n
<1>4. ASSUME NEW op
      PROVE  Waiting(op)' = IF e.op = op THEN Waiting(op) \cup {n + 1} ELSE Waiting(op)
  <2>1. Waiting(op)' = {f \in 1..(n + 1) : frames'[f].op = op}
    BY <1>2 DEF Waiting
  <2>2. Waiting(op) = {f \in 1..n : frames[f].op = op}
    BY DEF Waiting, n
  <2>3. QED
    BY <1>2, <1>3, <2>1, <2>2
<1>5. QED
  BY <1>1, <1>2, <1>4 DEF n

\* A callback that returns was the innermost one.
LEMMA CallEnds ==
  ASSUME frames \in Seq(Call), frames # << >>,
         frames' = SubSeq(frames, 1, Len(frames) - 1)
  PROVE  /\ frames' \in Seq(Call) /\ Len(frames) \in Nat \ {0} /\ Len(frames') = Len(frames) - 1
         /\ frames[Len(frames)] \in Call
         /\ \A f \in 1..(Len(frames) - 1) : frames'[f] = frames[f]
         /\ \A op : Waiting(op)' = Waiting(op) \ {Len(frames)}
<1> DEFINE n == Len(frames)
<1>1. n \in Nat \ {0} /\ \A f \in 1..n : frames[f] \in Call
  BY LenProperties, EmptySeq
<1>2. /\ frames' \in Seq(Call) /\ Len(frames') = n - 1
      /\ \A f \in 1..(n - 1) : frames'[f] = frames[f]
  <2>1. \A f \in 1..(n - 1) : frames[f] \in Call
    BY <1>1
  <2> HIDE DEF n
  <2>2. /\ frames' \in Seq(Call)
        /\ Len(frames') = IF 1 <= n - 1 THEN (n - 1) - 1 + 1 ELSE 0
        /\ \A f \in 1..((n - 1) - 1 + 1) : frames'[f] = frames[1 + f - 1]
    BY <1>1, <2>1, SubSeqProperties DEF n
  <2>3. QED
    BY <1>1, <2>2
<1>3. \A f : f \in 1..(n - 1) <=> f \in 1..n /\ f # n
  BY <1>1
<1> HIDE DEF n
<1>4. ASSUME NEW op PROVE Waiting(op)' = Waiting(op) \ {n}
  <2>1. Waiting(op)' = {f \in 1..(n - 1) : frames'[f].op = op}
    BY <1>2 DEF Waiting
  <2>2. Waiting(op) = {f \in 1..n : frames[f].op = op}
    BY DEF Waiting, n
  <2>3. QED
    BY <1>2, <1>3, <2>1, <2>2
<1>5. QED
  BY <1>1, <1>2, <1>4 DEF n

\* No registration waits, so none is counted.
LEMMA NoRegistering ==
  /\ Waiting("register") = {} => \A p : Cardinality(Registering(p)) = 0
  /\ Waiting("register")' = {} => \A p : Cardinality(Registering(p)') = 0
<1>1. Waiting("register") = {} => \A p : Registering(p) = {}
  BY DEF Registering
<1>2. Waiting("register")' = {} => \A p : Registering(p)' = {}
  BY DEF Registering
<1>3. QED
  BY <1>1, <1>2, FS_EmptySet

\* Taking a slot out closes the library it holds and leaves the slots before.
LEMMA TakeOutWhole ==
  ASSUME TableInv, frames \in Seq(Call), ~strayed,
         NEW i \in 0..(plugin_count - 1), TakeOut(i),
         Waiting("register") = {}, Waiting("register")' = {}
  PROVE  /\ ~strayed' /\ TableInv'
         /\ plugin_count' = plugin_count - 1
         /\ \A j \in 0..(i - 1) : plugins'[j] = plugins[j]
         /\ refs'[plugins[i]] = refs[plugins[i]] - 1
         /\ \A q \in Libraries : q # plugins[i] => refs'[q] = refs[q]
<1> DEFINE M == MaxPlugins
           c == plugin_count
           p == plugins[i]
<1>1. /\ M \in Nat /\ c \in 1..M /\ c \in Nat /\ i \in Nat /\ i < M /\ c - 1 \in 0..M /\ c - 1 \in Nat
      /\ DOMAIN plugins = 0..(M - 1)
      /\ p \in Libraries /\ refs \in [Libraries -> Nat]
  BY PluginsAssumption DEF TableInv, PluginsAssumption
<1>2. i \in Slots(p)
  BY <1>1 DEF Slots
<1>3. refs[p] > 0 /\ refs[p] \in Nat
  BY <1>1, <1>2, SlotIsOpen
<1>4. /\ plugins' = Shifted(plugins, i, c) /\ plugin_count' = c - 1
      /\ refs' = [refs EXCEPT ![p] = @ - 1] /\ strayed' = strayed
  BY <1>1, <1>3 DEF TakeOut
<1>5. refs'[p] = refs[p] - 1 /\ \A q \in Libraries : q # p => refs'[q] = refs[q]
  BY <1>1, <1>4
<1>6. refs' \in [Libraries -> Nat]
  <2>1. refs[p] - 1 \in Nat
    BY <1>3
  <2>2. QED
    BY <1>1, <1>4, <2>1
<1>7. /\ DOMAIN plugins' = 0..(M - 1)
      /\ \A j \in 0..(M - 1) : plugins'[j] = plugins[j] \/ (j >= i /\ j + 1 \in 0..(M - 1) /\ plugins'[j] = plugins[j + 1])
      /\ \A j \in 0..(c - 2) : plugins'[j] = plugins[j] \/ plugins'[j] = plugins[j + 1]
      /\ \A j \in 0..(i - 1) : plugins'[j] = plugins[j]
  BY <1>1, <1>4 DEF Shifted
<1> HIDE DEF M, c, p
<1>8. plugins' \in [0..(M - 1) -> Libraries \cup {Vacant}]
  <2>1. plugins \in [0..(M - 1) -> Libraries \cup {Vacant}]
    BY DEF TableInv, M
  <2>2. \A j \in 0..(M - 1) : plugins'[j] \in Libraries \cup {Vacant}
    BY <1>7, <2>1
  <2>3. plugins' = [j \in 0..(M - 1) |-> plugins'[j]]
    BY <1>4, <1>7 DEF Shifted
  <2>4. QED
    BY <2>2, <2>3
<1>9. \A j \in 0..(plugin_count' - 1) : plugins'[j] \in Libraries
  <2>1. \A j \in 0..(c - 1) : plugins[j] \in Libraries
    BY DEF TableInv, c
  <2>2. \A j \in 0..(c - 2) : j \in 0..(c - 1) /\ j + 1 \in 0..(c - 1)
    BY <1>1
  <2>3. \A j \in 0..(c - 2) : plugins'[j] \in Libraries
    BY <1>7, <2>1, <2>2
  <2>4. QED
    BY <1>1, <1>4, <2>3
<1>10. ASSUME NEW q \in Libraries PROVE refs'[q] = Open(q)'
  <2>1. Cardinality(Holding(Shifted(plugins, i, c), c - 1, q)) =
          Cardinality(Holding(plugins, c, q)) - (IF plugins[i] = q THEN 1 ELSE 0)
    BY <1>1, HoldingShifted DEF M, c
  <2>2. refs[q] = Cardinality(Slots(q)) + Cardinality(Registering(q))
    BY DEF TableInv, Open
  <2>3. Slots(q) = Holding(plugins, c, q) /\ Cardinality(Slots(q)) \in Nat
    BY <1>1, OpenCounts DEF c
  <2>4. Slots(q)' = Holding(Shifted(plugins, i, c), c - 1, q)
    BY <1>4 DEF Slots, Holding
  <2>5. Cardinality(Registering(q)) = 0 /\ Cardinality(Registering(q)') = 0
    BY NoRegistering
  <2>6. Cardinality(Slots(q)') = Cardinality(Slots(q)) - (IF p = q THEN 1 ELSE 0)
    BY <2>1, <2>3, <2>4 DEF p
  <2>7. refs'[q] = refs[q] - (IF p = q THEN 1 ELSE 0)
    BY <1>1, <1>5
  <2>8. Open(q)' = Cardinality(Slots(q)') + Cardinality(Registering(q)')
    BY DEF Open
  <2>9. QED
    BY <2>2, <2>3, <2>5, <2>6, <2>7, <2>8
<1>11. TableInv'
  BY <1>1, <1>4, <1>6, <1>8, <1>9, <1>10 DEF TableInv, M
<1>12. QED
  BY <1>4, <1>5, <1>7, <1>11 DEF c, p

\* The calls that wait are of libraries, and an unload is of a counted slot.
LEMMA WaitingCalls ==
  ASSUME Whole
  PROVE  /\ Len(frames) \in Nat /\ plugin_count \in Nat
         /\ \A f \in 1..Len(frames) : /\ frames[f] \in Call
                                      /\ frames[f].library \in Libraries \ Mute
                                      /\ frames[f].slot \in Nat
         /\ \A op : Waiting(op) \in SUBSET (1..Len(frames))
         /\ \A f \in Waiting("unload") : frames[f].slot \in 0..(plugin_count - 1)
         /\ \A q \in Libraries : refs[q] \in Nat
<1>1. frames \in Seq(Call) /\ TableInv /\ UnloadInv
  BY DEF Whole
<1>2. Len(frames) \in Nat /\ \A f \in 1..Len(frames) : frames[f] \in Call
  BY <1>1, ElementOfSeq, LenProperties
<1>3. \A e \in Call : e.library \in Libraries \ Mute /\ e.slot \in Nat
  BY PluginsAssumption DEF PluginsAssumption, Call
<1>4. plugin_count \in Nat /\ \A q \in Libraries : refs[q] \in Nat
  BY <1>1, PluginsAssumption DEF PluginsAssumption, TableInv
<1>5. \A op : Waiting(op) \in SUBSET (1..Len(frames))
  BY DEF Waiting
<1>6. \A f \in Waiting("unload") : frames[f].slot < plugin_count /\ frames[f].slot \in Nat
  BY <1>1, <1>2, <1>3, <1>5 DEF UnloadInv
<1>7. QED
  BY <1>2, <1>3, <1>4, <1>5, <1>6

\* What opens libraries and counts slots disturbs no call that waits.
LEMMA CallsKept ==
  ASSUME Whole,
         \A f \in 1..Len(frames) : frames'[f] = frames[f],
         Waiting("unload")' = Waiting("unload"),
         plugin_count' \in Nat, plugin_count' >= plugin_count,
         \A j \in 0..(plugin_count - 1) : plugins'[j] = plugins[j],
         \A q \in Libraries : refs'[q] \in Nat /\ refs'[q] >= refs[q]
  PROVE  /\ UnloadInv'
         /\ \A f \in 1..Len(frames) : refs'[frames'[f].library] > 0
         /\ \A g \in Waiting("unload") : \A f \in 1..(g - 1) :
              frames'[f].library = frames'[g].library => refs'[frames'[g].library] > 1
<1>1. UnloadInv /\ LoadedInv
  BY DEF Whole
<1>2. \A f \in Waiting("unload") : f \in 1..Len(frames) /\ frames'[f] = frames[f]
  BY WaitingCalls
<1>3. UnloadInv'
  <2>1. \A f \in Waiting("unload") : /\ frames'[f].slot < plugin_count'
                                     /\ plugins'[frames'[f].slot] = frames'[f].library
    BY <1>1, <1>2, WaitingCalls DEF UnloadInv
  <2>2. \A f, g \in Waiting("unload") : f < g => /\ frames'[f].slot < frames'[g].slot
                                                 /\ frames'[f].library # frames'[g].library
    BY <1>1, <1>2 DEF UnloadInv
  <2>3. QED
    BY <2>1, <2>2 DEF UnloadInv
<1>4. \A f \in 1..Len(frames) : refs'[frames'[f].library] > 0
  BY <1>1, WaitingCalls DEF LoadedInv
<1>5. ASSUME NEW g \in Waiting("unload"), NEW f \in 1..(g - 1),
             frames'[f].library = frames'[g].library
      PROVE  refs'[frames'[g].library] > 1
  <2>1. g \in 1..Len(frames) /\ f \in 1..Len(frames)
    BY <1>2, WaitingCalls
  <2>2. refs[frames[g].library] > 1 /\ frames'[g] = frames[g]
    BY <1>1, <1>5, <2>1 DEF LoadedInv
  <2>3. QED
    BY <2>1, <2>2, WaitingCalls
<1>6. QED
  BY <1>3, <1>4, <1>5

\* A registration writes the slot after the last and opens its library; it is
\* counted at once when there is no init to wait for.
LEMMA RegisterWhole ==
  ASSUME Whole, NEW p \in Libraries, plugin_register(p), Waiting("register") = {}
  PROVE  Whole'
<1> DEFINE M == MaxPlugins
           c == plugin_count
           n == Len(frames)
           e == [op |-> "register", library |-> p, slot |-> c]
<1>1. /\ M \in Nat /\ c \in 0..(M - 1) /\ c \in Nat /\ c < M
      /\ plugins \in [0..(M - 1) -> Libraries \cup {Vacant}]
      /\ refs \in [Libraries -> Nat] /\ \A q \in Libraries : refs[q] = Open(q)
      /\ \A j \in 0..(c - 1) : plugins[j] \in Libraries
      /\ frames \in Seq(Call) /\ n \in Nat
  BY PluginsAssumption, LenProperties DEF Whole, TableInv, PluginsAssumption, plugin_register
<1>2. /\ plugins' = [plugins EXCEPT ![c] = p] /\ refs' = [refs EXCEPT ![p] = @ + 1] /\ strayed' = strayed
  BY DEF plugin_register
<1>3. /\ plugins' \in [0..(M - 1) -> Libraries \cup {Vacant}]
      /\ plugins'[c] = p /\ \A j \in 0..(c - 1) : plugins'[j] = plugins[j]
  BY <1>1, <1>2
<1>4. /\ refs' \in [Libraries -> Nat] /\ \A q \in Libraries : refs'[q] \in Nat
      /\ refs'[p] = refs[p] + 1 /\ \A q \in Libraries : q # p => refs'[q] = refs[q]
  BY <1>1, <1>2
<1>5. \A q \in Libraries : refs'[q] \in Nat /\ refs'[q] >= refs[q]
  BY <1>1, <1>4
<1>6. \A q \in Libraries :
        /\ refs[q] = Cardinality(Holding(plugins', c, q))
        /\ Cardinality(Holding(plugins', c, q)) \in Nat
  <2>1. ASSUME NEW q \in Libraries PROVE Holding(plugins', c, q) = Slots(q)
    BY <1>1, <1>3 DEF Slots, Holding
  <2>2. \A q \in Libraries : Cardinality(Slots(q)) \in Nat /\ Cardinality(Registering(q)) = 0
    BY <1>1, OpenCounts, NoRegistering
  <2>3. \A q \in Libraries : refs[q] = Cardinality(Slots(q)) + Cardinality(Registering(q))
    BY <1>1 DEF Open
  <2>4. QED
    BY <2>1, <2>2, <2>3
<1>7. ASSUME p \in Mute PROVE Whole'
  <2>1. frames' = frames /\ plugin_count' = c + 1
    BY <1>7 DEF plugin_register
  <2>2. \A op : Waiting(op)' = Waiting(op)
    BY <2>1 DEF Waiting
  <2>3. ASSUME NEW q \in Libraries PROVE refs'[q] = Open(q)'
    <3>1. Slots(q)' = Holding(plugins', c + 1, q)
      BY <2>1 DEF Slots, Holding
    <3>2. Cardinality(Holding(plugins', c + 1, q)) =
            Cardinality(Holding(plugins', c, q)) + (IF plugins'[c] = q THEN 1 ELSE 0)
      BY <1>1, HoldingGrows
    <3>3. Cardinality(Registering(q)') = 0
      BY <2>2, NoRegistering
    <3>4. Open(q)' = Cardinality(Slots(q)') + Cardinality(Registering(q)')
      BY DEF Open
    <3>5. QED
      BY <1>3, <1>4, <1>6, <3>1, <3>2, <3>3, <3>4
  <2>4. \A j \in 0..(plugin_count' - 1) : plugins'[j] \in Libraries
    BY <1>1, <1>3, <2>1
  <2>5. TableInv'
    BY <1>1, <1>3, <1>4, <2>1, <2>3, <2>4 DEF TableInv
  <2>6. RegisterInv'
    BY <2>2 DEF RegisterInv
  <2>7. /\ UnloadInv'
        /\ \A f \in 1..n : refs'[frames'[f].library] > 0
        /\ \A g \in Waiting("unload") : \A f \in 1..(g - 1) :
             frames'[f].library = frames'[g].library => refs'[frames'[g].library] > 1
    <3>1. plugin_count' \in Nat /\ plugin_count' >= plugin_count
      BY <1>1, <2>1
    <3>2. QED
      BY <1>3, <1>4, <1>5, <2>1, <2>2, <3>1, CallsKept
  <2>8. LoadedInv'
    BY <2>1, <2>2, <2>7 DEF LoadedInv
  <2>9. QED
    BY <1>1, <1>2, <2>1, <2>5, <2>6, <2>7, <2>8 DEF Whole
<1>8. ASSUME p \notin Mute PROVE Whole'
  <2>1. frames' = Append(frames, e) /\ plugin_count' = c
    BY <1>8 DEF plugin_register
  <2>2. e \in Call /\ e.op = "register" /\ e.slot = c /\ e.library = p
    BY <1>1, <1>8 DEF Call
  <2> HIDE DEF e
  <2>3. /\ frames' \in Seq(Call) /\ Len(frames') = n + 1
        /\ \A f \in 1..n : frames'[f] = frames[f]
        /\ frames'[n + 1] = e
        /\ Waiting("register")' = {n + 1}
        /\ Waiting("unload")' = Waiting("unload")
    <3>1. /\ frames' \in Seq(Call) /\ Len(frames') = n + 1
          /\ \A f \in 1..n : frames'[f] = frames[f]
          /\ frames'[n + 1] = e
          /\ \A op : Waiting(op)' = IF e.op = op THEN Waiting(op) \cup {n + 1} ELSE Waiting(op)
      BY <1>1, <2>1, <2>2, CallWaits
    <3>2. QED
      BY <2>2, <3>1
  <2>4. ASSUME NEW q \in Libraries PROVE refs'[q] = Open(q)'
    <3>1. Slots(q)' = Holding(plugins', c, q)
      BY <2>1 DEF Slots, Holding
    <3>2. Registering(q)' = IF q = p THEN {n + 1} ELSE {}
      BY <2>2, <2>3 DEF Registering
    <3>3. Cardinality(Registering(q)') = IF q = p THEN 1 ELSE 0
      BY <3>2, FS_EmptySet, FS_Singleton
    <3>4. Open(q)' = Cardinality(Slots(q)') + Cardinality(Registering(q)')
      BY DEF Open
    <3>5. QED
      BY <1>4, <1>6, <3>1, <3>3, <3>4
  <2>5. TableInv'
    BY <1>1, <1>3, <1>4, <2>1, <2>4 DEF TableInv, Whole
  <2>6. RegisterInv'
    <3>1. \A g \in 1..(n + 1) : ~(n + 1 < g)
      BY <1>1
    <3>2. QED
      BY <1>3, <2>1, <2>2, <2>3, <3>1 DEF RegisterInv
  <2>7. /\ UnloadInv'
        /\ \A f \in 1..n : refs'[frames'[f].library] > 0
        /\ \A g \in Waiting("unload") : \A f \in 1..(g - 1) :
             frames'[f].library = frames'[g].library => refs'[frames'[g].library] > 1
    <3>1. plugin_count' \in Nat /\ plugin_count' >= plugin_count
      BY <1>1, <2>1
    <3>2. QED
      BY <1>3, <1>4, <1>5, <2>3, <3>1, CallsKept
  <2>8. LoadedInv'
    <3>1. refs'[p] > 0
      BY <1>1, <1>4
    <3>2. \A f \in 1..(n + 1) : f \in 1..n \/ f = n + 1
      BY <1>1
    <3>3. \A f \in 1..(n + 1) : refs'[frames'[f].library] > 0
      BY <2>2, <2>3, <2>7, <3>1, <3>2
    <3>4. QED
      BY <2>3, <2>7, <3>3 DEF LoadedInv
  <2>9. QED
    BY <1>2, <2>3, <2>5, <2>6, <2>7, <2>8 DEF Whole
<1>9. QED
  BY <1>7, <1>8

\* What changes no slot and no count leaves every library open as often.
LEMMA TableKept ==
  ASSUME Whole, UNCHANGED <<plugins, plugin_count, refs>>,
         \A q \in Libraries : Registering(q)' = Registering(q)
  PROVE  TableInv'
<1>1. TableInv
  BY DEF Whole
<1>2. ASSUME NEW q \in Libraries PROVE Open(q)' = Open(q)
  <2>1. Slots(q)' = Slots(q)
    BY DEF Slots
  <2>2. Open(q)' = Cardinality(Slots(q)') + Cardinality(Registering(q)')
    BY DEF Open
  <2>3. QED
    BY <2>1, <2>2 DEF Open
<1>3. QED
  BY <1>1, <1>2 DEF TableInv

\* A call of init or of cleanup comes to the calls that wait: an unload's slot
\* is further on than any that waits to be taken out, and its library, when it
\* has a call that waits, is open once more.
LEMMA CallWhole ==
  ASSUME Whole, NEW e \in Call, frames' = Append(frames, e),
         UNCHANGED <<plugins, plugin_count, refs, strayed>>,
         refs[e.library] > 0,
         \/ e.op = "load"
         \/ /\ e.op = "unload" /\ Waiting("register") = {}
            /\ e.slot < plugin_count /\ plugins[e.slot] = e.library
            /\ \A f \in Waiting("unload") : /\ frames[f].slot < e.slot
                                            /\ frames[f].library # e.library
            /\ Running(e.library) => refs[e.library] > 1
  PROVE  Whole'
<1> DEFINE n == Len(frames)
<1>1. /\ frames' \in Seq(Call) /\ n \in Nat /\ Len(frames') = n + 1
      /\ \A f \in 1..n : frames'[f] = frames[f]
      /\ frames'[n + 1] = e
      /\ Waiting("register")' = Waiting("register")
      /\ Waiting("unload")' = IF e.op = "unload" THEN Waiting("unload") \cup {n + 1} ELSE Waiting("unload")
  <2>1. frames \in Seq(Call)
    BY DEF Whole
  <2>2. e.op # "register"
    OBVIOUS
  <2>3. QED
    BY <2>1, <2>2, CallWaits
<1>2. /\ \A f \in 1..(n + 1) : f \in 1..n \/ f = n + 1
      /\ \A op : Waiting(op) \in SUBSET (1..n)
      /\ \A f \in 1..n : f < n + 1 /\ ~(n + 1 < f)
      /\ (n + 1) - 1 = n
  BY <1>1, WaitingCalls
<1> HIDE DEF n
<1>3. TableInv'
  <2>1. \A q \in Libraries : Registering(q)' = Registering(q)
    BY <1>1, <1>2 DEF Registering
  <2>2. QED
    BY <2>1, TableKept
<1>4. RegisterInv'
  <2>1. RegisterInv
    BY DEF Whole
  <2>2. ASSUME NEW f \in Waiting("register")
        PROVE  /\ frames'[f].slot = plugin_count' /\ plugins'[plugin_count'] = frames'[f].library
               /\ \A g \in 1..(n + 1) : f < g => frames'[g].op = "load"
    <3>1. e.op = "load" /\ f \in 1..n
      BY <1>2, <2>2
    <3>2. /\ frames[f].slot = plugin_count /\ plugins[plugin_count] = frames[f].library
          /\ \A g \in 1..n : f < g => frames[g].op = "load"
      BY <2>1, <2>2 DEF RegisterInv, n
    <3>3. QED
      BY <1>1, <1>2, <3>1, <3>2
  <2>3. QED
    BY <1>1, <2>2 DEF RegisterInv
<1>5. /\ UnloadInv /\ LoadedInv
      /\ \A f \in Waiting("unload") : f \in 1..n /\ frames'[f] = frames[f]
  BY <1>1, <1>2 DEF Whole
<1>6. UnloadInv'
  <2> DEFINE Holds(f) == frames'[f].slot < plugin_count /\ plugins[frames'[f].slot] = frames'[f].library
             Apart(f, g) == /\ frames'[f].slot < frames'[g].slot
                            /\ frames'[f].library # frames'[g].library
  <2>1. \A f \in Waiting("unload") : Holds(f)
    BY <1>5 DEF UnloadInv
  <2>2. ASSUME NEW f \in Waiting("unload"), NEW g \in Waiting("unload"), f < g
        PROVE  Apart(f, g)
    <3>1. frames[f].slot < frames[g].slot /\ frames[f].library # frames[g].library
      BY <1>5, <2>2 DEF UnloadInv
    <3>2. frames'[f] = frames[f] /\ frames'[g] = frames[g]
      BY <1>5
    <3>3. QED
      BY <3>1, <3>2
  <2>3. ASSUME e.op = "unload"
        PROVE  Holds(n + 1) /\ \A f \in Waiting("unload") : Apart(f, n + 1) /\ ~(n + 1 < f)
    BY <1>1, <1>2, <1>5, <2>3
  <2>4. UnloadInv' <=> \A f \in Waiting("unload")' :
                         Holds(f) /\ \A g \in Waiting("unload")' : f < g => Apart(f, g)
    BY DEF UnloadInv
  <2>5. ~(n + 1 < n + 1)
    BY <1>1
  <2>6. \A f \in Waiting("unload")' : f \in Waiting("unload") \/ (f = n + 1 /\ e.op = "unload")
    BY <1>1
  <2> HIDE DEF Holds, Apart
  <2>7. \A f \in Waiting("unload")' : Holds(f)
    BY <2>1, <2>3, <2>6
  <2>8. \A f, g \in Waiting("unload")' : f < g => Apart(f, g)
    BY <2>2, <2>3, <2>5, <2>6
  <2>9. QED
    BY <2>4, <2>7, <2>8
<1>7. LoadedInv'
  <2>1. \A f \in 1..(n + 1) : refs'[frames'[f].library] > 0
    BY <1>1, <1>2, <1>5 DEF LoadedInv, n
  <2>2. ASSUME NEW g \in Waiting("unload"), NEW f \in 1..(g - 1),
               frames'[f].library = frames'[g].library
        PROVE  refs'[frames'[g].library] > 1
    <3>1. f \in 1..n
      BY <1>1, <1>5
    <3>2. QED
      BY <1>1, <1>5, <2>2, <3>1 DEF LoadedInv
  <2>3. ASSUME e.op = "unload", NEW f \in 1..n, frames'[f].library = frames'[n + 1].library
        PROVE  refs'[frames'[n + 1].library] > 1
    <3>1. frames[f].library = e.library /\ frames'[n + 1] = e
      BY <1>1, <2>3
    <3>2. Running(e.library)
      BY <3>1 DEF Running, n
    <3>3. QED
      BY <2>3, <3>1, <3>2
  <2>4. \A g \in Waiting("unload")' : g \in Waiting("unload") \/ (g = n + 1 /\ e.op = "unload")
    BY <1>1
  <2>5. QED
    BY <1>1, <1>2, <2>1, <2>2, <2>3, <2>4 DEF LoadedInv
<1>8. QED
  BY <1>1, <1>3, <1>4, <1>6, <1>7 DEF Whole

\* plugin_load only calls init.
LEMMA LoadWhole ==
  ASSUME Whole, NEW p \in Libraries, plugin_load(p)
  PROVE  Whole'
<1> DEFINE e == [op |-> "load", library |-> p, slot |-> First(p)]
<1>1. /\ Slots(p) # {} /\ p \notin Mute /\ frames' = Append(frames, e)
      /\ UNCHANGED <<plugins, plugin_count, refs, strayed>>
  BY DEF plugin_load
<1>2. TableInv /\ frames \in Seq(Call)
  BY DEF Whole
<1>3. First(p) \in 0..(MaxPlugins - 1) /\ refs[p] > 0
  BY <1>1, <1>2, FirstHolds, SlotIsOpen
<1>4. e \in Call /\ e.op = "load" /\ e.library = p
  BY <1>1, <1>3 DEF Call
<1> HIDE DEF e
<1>5. QED
  BY <1>1, <1>3, <1>4, CallWhole

\* An unload that meddles with no call that waits is of a slot further on than
\* theirs, and of a library that stays open while its code runs.
LEMMA UnloadApart ==
  ASSUME Whole, NEW p \in Libraries, Slots(p) # {}, ~Meddles(First(p))
  PROVE  /\ Waiting("register") = {}
         /\ \A f \in Waiting("unload") : /\ frames[f].slot < First(p)
                                         /\ frames[f].library # p
         /\ Running(p) => refs[p] > 1
         /\ refs[p] > 0
<1>1. TableInv /\ frames \in Seq(Call) /\ UnloadInv
  BY DEF Whole
<1>2. /\ First(p) \in 0..(plugin_count - 1) /\ plugins[First(p)] = p
      /\ \A j \in Slots(p) : First(p) <= j
  BY <1>1, FirstHolds
<1>3. refs[p] > 0 /\ refs[p] \in Nat
  BY <1>1, SlotIsOpen, WaitingCalls
<1>4. /\ Waiting("register") = {}
      /\ \A f \in Waiting("unload") : ~(First(p) <= frames[f].slot)
      /\ ~(Running(p) /\ refs[p] = 1)
  BY <1>2, Zenon DEF Meddles
<1>5. Running(p) => refs[p] > 1
  BY <1>3, <1>4
<1>6. ASSUME NEW f \in Waiting("unload")
      PROVE  frames[f].slot < First(p) /\ frames[f].library # p
  <2>1. frames[f].slot \in 0..(plugin_count - 1) /\ ~(First(p) <= frames[f].slot)
    BY <1>4, WaitingCalls
  <2>2. frames[f].slot < First(p)
    BY <1>2, <2>1
  <2>3. ASSUME frames[f].library = p PROVE FALSE
    <3>1. plugins[frames[f].slot] = p
      BY <1>1, <2>3 DEF UnloadInv
    <3>2. frames[f].slot < MaxPlugins
      BY <1>1, <2>1, PluginsAssumption DEF TableInv, PluginsAssumption
    <3>3. frames[f].slot \in Slots(p)
      BY <2>1, <3>1, <3>2 DEF Slots
    <3>4. QED
      BY <1>2, <2>1, <3>3
  <2>4. QED
    BY <2>2, <2>3
<1>7. QED
  BY <1>3, <1>4, <1>5, <1>6

\* An unload that calls cleanup.
LEMMA UnloadCallWhole ==
  ASSUME Whole, NEW p \in Libraries, p \notin Mute, plugin_unload(p), ~Meddles(First(p))
  PROVE  Whole'
<1> DEFINE e == [op |-> "unload", library |-> p, slot |-> First(p)]
<1>1. /\ Slots(p) # {} /\ frames' = Append(frames, e)
      /\ UNCHANGED <<plugins, plugin_count, refs, strayed>>
  BY DEF plugin_unload
<1>2. /\ First(p) \in 0..(plugin_count - 1) /\ First(p) \in 0..(MaxPlugins - 1)
      /\ plugins[First(p)] = p
  BY <1>1, FirstHolds DEF Whole
<1>3. First(p) < plugin_count
  BY <1>2, WaitingCalls
<1>4. e \in Call /\ e.op = "unload" /\ e.library = p /\ e.slot = First(p)
  BY <1>1, <1>2 DEF Call
<1> HIDE DEF e
<1>5. /\ Waiting("register") = {}
      /\ \A f \in Waiting("unload") : /\ frames[f].slot < First(p)
                                      /\ frames[f].library # p
      /\ Running(p) => refs[p] > 1
      /\ refs[p] > 0
  BY <1>1, UnloadApart
<1>6. QED
  BY <1>1, <1>2, <1>3, <1>4, <1>5, CallWhole

\* The slots the unloads wait for stay where they are when one behind them is
\* taken out.
LEMMA UnloadsKept ==
  ASSUME Whole, NEW i \in 0..(plugin_count - 1), plugin_count' = plugin_count - 1,
         \A j \in 0..(i - 1) : plugins'[j] = plugins[j],
         \A f \in Waiting("unload")' : /\ f \in Waiting("unload") /\ frames'[f] = frames[f]
                                       /\ frames[f].slot < i
  PROVE  UnloadInv'
<1>1. UnloadInv
  BY DEF Whole
<1>2. i \in Nat /\ i < plugin_count /\ plugin_count \in Nat
  BY WaitingCalls
<1>3. ASSUME NEW f \in Waiting("unload")'
      PROVE  /\ frames'[f].slot < plugin_count' /\ plugins'[frames'[f].slot] = frames'[f].library
             /\ \A g \in Waiting("unload")' : f < g => /\ frames'[f].slot < frames'[g].slot
                                                       /\ frames'[f].library # frames'[g].library
  <2>1. f \in Waiting("unload") /\ frames'[f] = frames[f] /\ frames[f].slot < i
    OBVIOUS
  <2>2. frames[f].slot \in 0..(plugin_count - 1) /\ plugins[frames[f].slot] = frames[f].library
    BY <1>1, <2>1, WaitingCalls DEF UnloadInv
  <2>3. frames[f].slot \in 0..(i - 1) /\ frames[f].slot < plugin_count'
    BY <1>2, <2>1, <2>2
  <2>4. ASSUME NEW g \in Waiting("unload")', f < g
        PROVE  frames'[f].slot < frames'[g].slot /\ frames'[f].library # frames'[g].library
    <3>1. g \in Waiting("unload") /\ frames'[g] = frames[g]
      BY <2>4
    <3>2. frames[f].slot < frames[g].slot /\ frames[f].library # frames[g].library
      BY <1>1, <2>1, <2>4, <3>1 DEF UnloadInv
    <3>3. QED
      BY <2>1, <3>1, <3>2
  <2>5. QED
    BY <2>1, <2>2, <2>3, <2>4
<1>4. QED
  BY <1>3 DEF UnloadInv

\* An unload without a cleanup takes its slot out at once.
LEMMA UnloadMuteWhole ==
  ASSUME Whole, NEW p \in Libraries, p \in Mute, plugin_unload(p), ~Meddles(First(p))
  PROVE  Whole'
<1> DEFINE i == First(p)
<1>1. Slots(p) # {} /\ TakeOut(i) /\ frames' = frames
  BY DEF plugin_unload
<1>2. /\ TableInv /\ frames \in Seq(Call) /\ ~strayed
      /\ i \in 0..(plugin_count - 1) /\ plugins[i] = p
  BY <1>1, FirstHolds DEF Whole
<1>3. \A op : Waiting(op)' = Waiting(op)
  BY <1>1 DEF Waiting
<1>4. /\ Waiting("register") = {}
      /\ \A f \in Waiting("unload") : frames[f].slot < i
  BY <1>1, UnloadApart
<1> HIDE DEF i
<1>5. /\ ~strayed' /\ TableInv' /\ plugin_count' = plugin_count - 1
      /\ \A j \in 0..(i - 1) : plugins'[j] = plugins[j]
      /\ \A q \in Libraries : q # p => refs'[q] = refs[q]
  BY <1>1, <1>2, <1>3, <1>4, TakeOutWhole
<1>6. RegisterInv'
  BY <1>3, <1>4 DEF RegisterInv
<1>7. UnloadInv'
  BY <1>1, <1>2, <1>3, <1>4, <1>5, UnloadsKept
<1>8. LoadedInv'
  <2>1. LoadedInv
    BY DEF Whole
  <2>2. \A f \in 1..Len(frames) : refs'[frames[f].library] = refs[frames[f].library]
    BY <1>5, WaitingCalls
  <2>3. \A g \in Waiting("unload") : g \in 1..Len(frames)
    BY WaitingCalls
  <2>4. QED
    BY <1>1, <1>3, <2>1, <2>2, <2>3 DEF LoadedInv
<1>9. QED
  BY <1>1, <1>2, <1>5, <1>6, <1>7, <1>8 DEF Whole

\* The init of a registration returns: its slot is counted.  That of a load
\* returns: nothing changes.
LEMMA InitReturnsWhole ==
  ASSUME Whole, callback_returns, frames[Len(frames)].op # "unload"
  PROVE  Whole'
<1> DEFINE n == Len(frames)
           c == plugin_count
           p == frames[n].library
<1>1. TableInv /\ RegisterInv /\ UnloadInv /\ LoadedInv /\ ~strayed /\ frames \in Seq(Call)
  BY DEF Whole
<1>2. /\ frames # << >> /\ frames' = SubSeq(frames, 1, n - 1)
      /\ UNCHANGED <<plugins, refs, strayed>>
      /\ \/ frames[n].op = "register" /\ plugin_count' = c + 1
         \/ frames[n].op = "load" /\ plugin_count' = c
  BY DEF callback_returns
<1>3. /\ frames' \in Seq(Call) /\ n \in Nat \ {0} /\ Len(frames') = n - 1 /\ frames[n] \in Call
      /\ \A f \in 1..(n - 1) : frames'[f] = frames[f]
      /\ \A op : Waiting(op)' = Waiting(op) \ {n}
  BY <1>1, <1>2, CallEnds
<1>4. /\ \A op : Waiting(op) \in SUBSET (1..n)
      /\ \A f \in 1..n : f # n => f \in 1..(n - 1) /\ f < n
      /\ \A f \in 1..(n - 1) : f \in 1..n /\ f < n
      /\ \A f \in Waiting("register") : frames[f].op = "register"
      /\ n \in 1..n
  BY <1>3, WaitingCalls DEF Waiting
<1> HIDE DEF n
<1>5. \A f \in Waiting("register") : f # n => frames[n].op = "load"
  BY <1>1, <1>4 DEF RegisterInv, n
<1>6. c \in Nat /\ MaxPlugins \in Nat /\ c <= MaxPlugins
  BY <1>1, PluginsAssumption DEF TableInv, PluginsAssumption
<1>7. TableInv'
  <2>1. CASE frames[n].op = "load"
    <3>1. \A q \in Libraries : Registering(q)' = Registering(q)
      <4>1. n \notin Waiting("register")
        BY <1>4, <2>1
      <4>2. Waiting("register")' = Waiting("register")
        BY <1>3, <4>1
      <4>3. \A f \in Waiting("register") : frames'[f] = frames[f]
        BY <1>3, <1>4, <4>1
      <4>4. QED
        BY <4>2, <4>3 DEF Registering
    <3>2. QED
      BY <1>2, <2>1, <3>1, TableKept
  <2>2. CASE frames[n].op = "register"
    <3>1. n \in Waiting("register")
      BY <1>4, <2>2 DEF Waiting, n
    <3>2. Waiting("register") = {n}
      BY <1>5, <2>2, <3>1
    <3>3. frames[n].slot = c /\ plugins[c] = p /\ frames[n].slot \in 0..(MaxPlugins - 1)
      BY <1>1, <1>3, <3>1 DEF RegisterInv, Call
    <3>4. c + 1 \in 0..MaxPlugins /\ c < MaxPlugins /\ plugin_count' = c + 1
      BY <1>2, <1>6, <2>2, <3>3
    <3>5. p \in Libraries
      BY <1>3 DEF Call
    <3>6. ASSUME NEW q \in Libraries PROVE refs'[q] = Open(q)'
      <4>1. Slots(q) = Holding(plugins, c, q) /\ Cardinality(Slots(q)) \in Nat
        BY <1>1, <1>6, OpenCounts
      <4>2. Slots(q)' = Holding(plugins, c + 1, q)
        BY <1>2, <3>4 DEF Slots, Holding
      <4>3. Cardinality(Holding(plugins, c + 1, q)) =
              Cardinality(Holding(plugins, c, q)) + (IF plugins[c] = q THEN 1 ELSE 0)
        BY <1>6, <3>4, HoldingGrows
      <4>4. Registering(q) = IF p = q THEN {n} ELSE {}
        BY <3>2 DEF Registering
      <4>5. Cardinality(Registering(q)) = IF p = q THEN 1 ELSE 0
        BY <4>4, FS_EmptySet, FS_Singleton
      <4>6. Cardinality(Registering(q)') = 0
        <5>1. Waiting("register")' = {}
          BY <1>3, <3>2
        <5>2. QED
          BY <5>1, NoRegistering
      <4>7. refs'[q] = Cardinality(Slots(q)) + Cardinality(Registering(q))
        BY <1>1, <1>2 DEF TableInv, Open
      <4>8. Open(q)' = Cardinality(Slots(q)') + Cardinality(Registering(q)')
        BY DEF Open
      <4>9. QED
        BY <3>3, <4>1, <4>2, <4>3, <4>5, <4>6, <4>7, <4>8
    <3>7. \A j \in 0..c : plugins[j] \in Libraries
      <4>1. \A j \in 0..c : j \in 0..(c - 1) \/ j = c
        BY <1>6
      <4>2. QED
        BY <1>1, <3>3, <3>5, <4>1 DEF TableInv
    <3>8. (c + 1) - 1 = c
      BY <1>6
    <3>9. QED
      BY <1>1, <1>2, <3>4, <3>6, <3>7, <3>8 DEF TableInv
  <2>3. QED
    BY <1>2, <2>1, <2>2
<1>8. RegisterInv'
  <2>1. \A f \in Waiting("register")' : f \in Waiting("register") /\ f \in 1..(n - 1) /\ frames[n].op = "load"
    BY <1>3, <1>4, <1>5
  <2>2. ASSUME NEW f \in Waiting("register")'
        PROVE  /\ frames'[f].slot = plugin_count' /\ plugins'[plugin_count'] = frames'[f].library
               /\ \A g \in 1..(n - 1) : f < g => frames'[g].op = "load"
    <3>1. plugin_count' = c /\ frames'[f] = frames[f]
      BY <1>2, <1>3, <2>1
    <3>2. frames[f].slot = c /\ plugins[c] = frames[f].library
      BY <1>1, <2>1 DEF RegisterInv
    <3>3. \A g \in 1..n : f < g => frames[g].op = "load"
      BY <1>1, <2>1 DEF RegisterInv, n
    <3>4. QED
      BY <1>2, <1>3, <1>4, <3>1, <3>2, <3>3
  <2>3. QED
    BY <1>3, <2>2 DEF RegisterInv
<1>9. n \notin Waiting("unload")
  BY DEF Waiting, n
<1>10. Waiting("unload")' = Waiting("unload")
  BY <1>3, <1>9
<1>11. UnloadInv'
  <2>1. ASSUME NEW f \in Waiting("unload")
        PROVE  /\ frames'[f].slot < plugin_count' /\ plugins'[frames'[f].slot] = frames'[f].library
               /\ \A g \in Waiting("unload") : f < g => /\ frames'[f].slot < frames'[g].slot
                                                        /\ frames'[f].library # frames'[g].library
    <3>1. \A g \in Waiting("unload") : frames'[g] = frames[g]
      BY <1>3, <1>4, <1>9
    <3>2. frames[f].slot \in 0..(c - 1) /\ plugins[frames[f].slot] = frames[f].library
      BY <1>1, WaitingCalls DEF UnloadInv
    <3>3. frames[f].slot < plugin_count'
      BY <1>2, <1>6, <3>2
    <3>4. ASSUME NEW g \in Waiting("unload"), f < g
          PROVE  frames'[f].slot < frames'[g].slot /\ frames'[f].library # frames'[g].library
      <4>1. frames[f].slot < frames[g].slot /\ frames[f].library # frames[g].library
        BY <1>1, <3>4 DEF UnloadInv
      <4>2. QED
        BY <3>1, <4>1
    <3>5. QED
      BY <1>2, <3>1, <3>2, <3>3, <3>4
  <2>2. QED
    BY <1>10, <2>1 DEF UnloadInv
<1>12. LoadedInv'
  <2>1. \A f \in 1..(n - 1) : refs'[frames'[f].library] > 0
    BY <1>1, <1>2, <1>3, <1>4 DEF LoadedInv, n
  <2>2. ASSUME NEW g \in Waiting("unload"), NEW f \in 1..(g - 1),
               frames'[f].library = frames'[g].library
        PROVE  refs'[frames'[g].library] > 1
    <3>1. g \in 1..(n - 1) /\ f \in 1..(n - 1)
      BY <1>3, <1>4, <1>9
    <3>2. frames[f].library = frames[g].library /\ frames'[g] = frames[g]
      BY <1>3, <2>2, <3>1
    <3>3. QED
      BY <1>1, <1>2, <3>2 DEF LoadedInv
  <2>3. QED
    BY <1>3, <1>10, <2>1, <2>2 DEF LoadedInv
<1>13. QED
  BY <1>1, <1>2, <1>3, <1>7, <1>8, <1>11, <1>12 DEF Whole

\* The cleanup of an unload returns: the slot it is of is taken out.
LEMMA CleanupReturnsWhole ==
  ASSUME Whole, callback_returns, frames[Len(frames)].op = "unload"
  PROVE  Whole'
<1> DEFINE n == Len(frames)
           i == frames[n].slot
           p == frames[n].library
<1>1. TableInv /\ RegisterInv /\ UnloadInv /\ LoadedInv /\ ~strayed /\ frames \in Seq(Call)
  BY DEF Whole
<1>2. frames # << >> /\ frames' = SubSeq(frames, 1, n - 1) /\ TakeOut(i)
  BY DEF callback_returns
<1>3. /\ frames' \in Seq(Call) /\ n \in Nat \ {0} /\ Len(frames') = n - 1 /\ frames[n] \in Call
      /\ \A f \in 1..(n - 1) : frames'[f] = frames[f]
      /\ \A op : Waiting(op)' = Waiting(op) \ {n}
  BY <1>1, <1>2, CallEnds
<1>4. /\ \A op : Waiting(op) \in SUBSET (1..n)
      /\ \A f \in 1..n : f # n => f \in 1..(n - 1) /\ f < n
      /\ \A f \in 1..(n - 1) : f \in 1..n /\ f < n
      /\ n \in 1..n
  BY <1>3, WaitingCalls
<1>5. n \in Waiting("unload") /\ n \notin Waiting("register")
  BY <1>4 DEF Waiting
<1>6. i \in 0..(plugin_count - 1) /\ plugins[i] = p /\ p \in Libraries
  BY <1>1, <1>3, <1>5, WaitingCalls DEF UnloadInv, Call
<1>7. Waiting("register") = {} /\ Waiting("register")' = {}
  <2>1. \A f \in Waiting("register") : f \in 1..n /\ f # n
    BY <1>4, <1>5
  <2>2. \A f \in Waiting("register") : frames[n].op = "load"
    BY <1>1, <1>4, <2>1 DEF RegisterInv
  <2>3. QED
    BY <1>3, <2>2
<1> HIDE DEF i, p
<1>8. /\ ~strayed' /\ TableInv' /\ plugin_count' = plugin_count - 1
      /\ \A j \in 0..(i - 1) : plugins'[j] = plugins[j]
      /\ refs'[p] = refs[p] - 1
      /\ \A q \in Libraries : q # p => refs'[q] = refs[q]
  BY <1>1, <1>2, <1>6, <1>7, TakeOutWhole
<1> HIDE DEF n
<1>9. RegisterInv'
  BY <1>7 DEF RegisterInv
<1>10. \A f \in Waiting("unload")' :
         /\ f \in Waiting("unload") /\ f \in 1..(n - 1) /\ f < n /\ frames'[f] = frames[f]
         /\ frames[f].slot < i /\ frames[f].library # p
  <2>1. ASSUME NEW f \in Waiting("unload")'
        PROVE  f \in Waiting("unload") /\ f \in 1..(n - 1) /\ f < n /\ frames'[f] = frames[f]
    BY <1>3, <1>4
  <2>2. ASSUME NEW f \in Waiting("unload"), f < n
        PROVE  frames[f].slot < i /\ frames[f].library # p
    BY <1>1, <1>5, <2>2 DEF UnloadInv, i, p
  <2>3. QED
    BY <2>1, <2>2
<1>11. UnloadInv'
  BY <1>6, <1>8, <1>10, UnloadsKept
<1>12. LoadedInv'
  <2>1. \A f \in 1..(n - 1) : frames[f].library \in Libraries /\ refs[frames[f].library] > 0
    BY <1>1, <1>4, WaitingCalls DEF LoadedInv, n
  <2>2. \A f \in 1..(n - 1) : frames[f].library = p => refs[p] > 1
    BY <1>1, <1>5 DEF LoadedInv, p
  <2>3. refs[p] \in Nat
    BY <1>6, WaitingCalls
  <2>4. ASSUME NEW f \in 1..(n - 1) PROVE refs'[frames'[f].library] > 0
    <3>1. CASE frames[f].library = p
      BY <1>3, <1>8, <2>2, <2>3, <3>1
    <3>2. CASE frames[f].library # p
      BY <1>3, <1>8, <2>1, <3>2
    <3>3. QED
      BY <3>1, <3>2
  <2>5. ASSUME NEW g \in Waiting("unload")', NEW f \in 1..(g - 1),
               frames'[f].library = frames'[g].library
        PROVE  refs'[frames'[g].library] > 1
    <3>1. g \in Waiting("unload") /\ g \in 1..(n - 1) /\ frames'[g] = frames[g] /\ frames[g].library # p
      BY <1>10
    <3>2. f \in 1..(n - 1) /\ frames'[f] = frames[f]
      BY <1>3, <3>1
    <3>3. refs[frames[g].library] > 1
      BY <1>1, <2>5, <3>1, <3>2 DEF LoadedInv
    <3>4. QED
      BY <1>8, <2>1, <3>1, <3>3
  <2>6. QED
    BY <1>3, <2>4, <2>5 DEF LoadedInv
<1>13. QED
  BY <1>3, <1>8, <1>9, <1>11, <1>12 DEF Whole

\* The table is empty and no call waits.
LEMMA PluginsInitInv == PluginsInit => PluginsInv
<1> SUFFICES ASSUME PluginsInit PROVE PluginsInv
  OBVIOUS
<1>1. /\ plugins = [i \in 0..(MaxPlugins - 1) |-> Vacant] /\ plugin_count = 0
      /\ frames = << >> /\ refs = [p \in Libraries |-> 0] /\ meddled = FALSE /\ strayed = FALSE
  BY DEF PluginsInit
<1>2. frames \in Seq(Call) /\ Len(frames) = 0 /\ \A op : Waiting(op) = {}
  BY <1>1 DEF Waiting
<1>3. \A p \in Libraries : refs[p] = Open(p)
  <2>1. ASSUME NEW p \in Libraries PROVE refs[p] = Open(p)
    <3>1. Slots(p) = {} /\ Registering(p) = {}
      BY <1>1, <1>2 DEF Slots, Registering
    <3>2. QED
      BY <1>1, <3>1, FS_EmptySet DEF Open
  <2>2. QED
    BY <2>1
<1>4. TableInv
  BY <1>1, <1>3, PluginsAssumption DEF PluginsAssumption, TableInv
<1>5. RegisterInv /\ UnloadInv /\ LoadedInv
  BY <1>2 DEF RegisterInv, UnloadInv, LoadedInv
<1>6. QED
  BY <1>1, <1>2, <1>4, <1>5 DEF PluginsInv, Whole

\* No step of the table or of a plugin that does not meddle breaks it.
LEMMA PluginsNextInv == PluginsInv /\ [PluginsNext]_pluginVars => PluginsInv'
<1> SUFFICES ASSUME PluginsInv, [PluginsNext]_pluginVars PROVE PluginsInv'
  OBVIOUS
<1>1. ASSUME NEW p \in Libraries, plugin_register(p) PROVE PluginsInv'
  <2>1. meddled' = (meddled \/ Waiting("register") # {})
    BY <1>1 DEF plugin_register
  <2>2. ~meddled' => ~meddled /\ Waiting("register") = {}
    BY <2>1
  <2>3. QED
    BY <1>1, <2>1, <2>2, RegisterWhole DEF PluginsInv
<1>2. ASSUME NEW p \in Libraries, plugin_load(p) PROVE PluginsInv'
  <2>1. meddled' = meddled
    BY <1>2 DEF plugin_load
  <2>2. QED
    BY <1>2, <2>1, LoadWhole DEF PluginsInv
<1>3. ASSUME NEW p \in Libraries, plugin_unload(p) PROVE PluginsInv'
  <2>1. meddled' = (meddled \/ Meddles(First(p)))
    BY <1>3 DEF plugin_unload
  <2>2. ~meddled' => ~meddled /\ ~Meddles(First(p))
    BY <2>1
  <2>3. meddled' \in BOOLEAN
    BY <2>1
  <2>4. QED
    BY <1>3, <2>2, <2>3, UnloadMuteWhole, UnloadCallWhole DEF PluginsInv
<1>4. ASSUME NEW p \in Libraries, overrun(p) PROVE PluginsInv'
  <2>1. meddled' = meddled /\ plugin_count > MaxPlugins
    BY <1>4 DEF overrun
  <2>2. ~Whole
    BY <2>1, PluginsAssumption DEF Whole, TableInv, PluginsAssumption
  <2>3. QED
    BY <2>1, <2>2 DEF PluginsInv
<1>5. CASE callback_returns
  <2>1. meddled' = meddled
    BY <1>5 DEF callback_returns
  <2>2. QED
    BY <1>5, <2>1, InitReturnsWhole, CleanupReturnsWhole DEF PluginsInv
<1>6. CASE unmapped
  <2>1. meddled' = meddled /\ ~Loaded
    BY <1>6 DEF unmapped
  <2>2. ~Whole
    BY <2>1 DEF Whole, LoadedInv, Loaded
  <2>3. QED
    BY <2>1, <2>2 DEF PluginsInv
<1>7. CASE UNCHANGED pluginVars
  <2>1. UNCHANGED <<plugins, plugin_count, frames, refs, meddled, strayed>>
    BY <1>7 DEF pluginVars
  <2>2. QED
    BY <2>1 DEF PluginsInv, Whole, TableInv, RegisterInv, UnloadInv, LoadedInv, Open, Slots, Registering, Waiting
<1>8. QED
  BY <1>1, <1>2, <1>3, <1>4, <1>5, <1>6, <1>7 DEF PluginsNext

\* A step of any of the services is one of the plugins or leaves them.
LEMMA ServicesPluginsStep == [ServicesNext]_servicesVars => [PluginsNext]_pluginVars
  BY DEF ServicesNext, servicesVars

\* However many plugins register, load and unload one another from their
\* callbacks: as long as none of it changes the table under a call that waits,
\* the table and the libraries open agree and no unloaded code runs.
THEOREM PluginsSafe == ServicesSpec => []TableWhole
<1>1. ServicesInit => PluginsInv
  BY PluginsInitInv DEF ServicesInit
<1>2. PluginsInv /\ [ServicesNext]_servicesVars => PluginsInv'
  BY PluginsNextInv, ServicesPluginsStep
<1>3. PluginsInv => TableWhole
  BY DEF PluginsInv, Whole, TableInv, LoadedInv, TableWhole, Open, Registering
<1>4. QED
  BY <1>1, <1>2, <1>3, PTL DEF ServicesSpec
=============================================================================
