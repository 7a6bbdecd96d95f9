------------------------------- MODULE Servers -------------------------------
(* What the node processes of a data center handle besides users, sessions and
   platforms: plugins, the settings of a host, text messages and push
   notifications. They meet in no table or file, so a behaviour asks for work
   of one of them.                                                            *)
EXTENDS Plugins, Configuration, Messages, Notifications

vars == <<pluginVars, settingsVars, messageVars, pushVars>>

Wants(budget) == \E op \in DOMAIN budget : budget[op] > 0

\* Where nothing is asked of plugins, one is there.
Init ==
    /\ PluginInit /\ SettingsInit /\ MessageInit /\ PushInit
    /\ ~Wants(asked) => row.there
    /\ Cardinality({part \in 1 .. 4 : Wants(<<asked, wanted, messagesLeft, pushesLeft>>[part])}) = 1

Next ==
    \/ PluginNext /\ UNCHANGED <<settingsVars, messageVars, pushVars>>
    \/ SettingsNext /\ UNCHANGED <<pluginVars, messageVars, pushVars>>
    \/ MessageNext /\ UNCHANGED <<pluginVars, settingsVars, pushVars>>
    \/ PushNext /\ UNCHANGED <<pluginVars, settingsVars, messageVars>>

Spec == Init /\ [][Next]_vars
=============================================================================
