------------------------------ MODULE Services ------------------------------
(***************************************************************************)
(* The services around the loader that keep state of their own: plugins,   *)
(* scripts, tables of names, address resolution.  They share nothing, and  *)
(* each is run alone: scene says which.                                    *)
(***************************************************************************)
EXTENDS Plugins, Lua, NameTables, Arp

VARIABLE scene

ServicesInit ==
  /\ scene \in {"plugins", "lua", "tables", "arp"}
  /\ PluginsInit /\ LuaInit /\ NameTablesInit /\ ArpInit
  \* what a scene does not use has one value
  /\ scene # "tables" => kind = "env"
  /\ scene # "arp" => \A ip \in Ips : hosts[ip] = CHOOSE mac \in Macs : TRUE

ServicesNext ==
  /\ UNCHANGED scene
  /\ \/ scene = "plugins" /\ PluginsNext /\ UNCHANGED <<luaVars, tableVars, arpVars>>
     \/ scene = "lua" /\ LuaNext /\ UNCHANGED <<pluginVars, tableVars, arpVars>>
     \/ scene = "tables" /\ NameTablesNext /\ UNCHANGED <<pluginVars, luaVars, arpVars>>
     \/ scene = "arp" /\ ArpNext /\ UNCHANGED <<pluginVars, luaVars, tableVars>>

servicesVars == <<scene, pluginVars, luaVars, tableVars, arpVars>>

ServicesSpec == ServicesInit /\ [][ServicesNext]_servicesVars
=============================================================================
