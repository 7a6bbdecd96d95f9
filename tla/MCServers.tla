------------------------------ MODULE MCServers ------------------------------
(* Small data centers for TLC.                                               *)
EXTENDS Servers, TLC

CONSTANTS p1, p2, h1, h2, t1, t2, t3, w1, n1, l1, l2, l3, m1, m2, a1, a2, a3

\* A budget of the given operations, and none of the others.
Mix(ops, some) == some @@ [op \in ops |-> 0]

\* Two processes on two hosts. What is asked for: two changes of the
\* configuration; a new version, before or after a change; a deletion and a new
\* upload; a change or an upload that fails; changes that meet each other; a process that
\* starts again during each of them.
MCHostOf == p1 :> h1 @@ p2 :> h2
MCPluginBudgets == {Mix(PluginOps, some) : some \in {
    [update |-> 0],
    "update" :> 2,
    "update" :> 1 @@ "restart" :> 1,
    "upload" :> 1 @@ "update" :> 1 @@ "restart" :> 1,
    "delete" :> 1 @@ "upload" :> 1 @@ "restart" :> 1,
    "update" :> 1 @@ "fault" :> 1,
    "upload" :> 1 @@ "fault" :> 1 @@ "restart" :> 1}}

MCOwnerOf == l1 :> w1 @@ l2 :> n1 @@ l3 :> "tool"

\* A worker and a process without a cluster on one host. What is asked for:
\* two tools of an administrator while the worker alone loads, or one for both with
\* a load or a start that fails or a tool that is interrupted.
SettingsOps == {"update", "set", "rename", "redis", "fault", "alone"}
MCSettingsBudgets == {Mix(SettingsOps, some) : some \in {
    [update |-> 0],
    "update" :> 1 @@ "fault" :> 1,
    "update" :> 1 @@ "set" :> 1 @@ "alone" :> 1,
    "update" :> 1 @@ "rename" :> 1 @@ "alone" :> 1,
    "set" :> 2 @@ "alone" :> 1,
    "set" :> 1 @@ "redis" :> 1 @@ "alone" :> 1,
    "set" :> 1 @@ "fault" :> 1,
    "rename" :> 1 @@ "fault" :> 1}}

\* Two messages to one device. What is asked for: sessions that start and end
\* around them; something that fails.

MCMessageBudgets == {Mix(MessageOps, some) : some \in {
    [message |-> 0],
    "message" :> 2 @@ "session" :> 2 @@ "end" :> 2,
    "message" :> 2 @@ "session" :> 1 @@ "end" :> 1 @@ "fault" :> 2}}

\* Three users of one phone, which had another device id at first. What is asked
\* for: pushes while they activate one after the other and the phone gets new
\* tokens.
MCImeiOf == a1 :> "before" @@ a2 :> "now" @@ a3 :> "now"

MCPushBudgets == {Mix(PushOps, some) : some \in {
    [row |-> 0],
    "row" :> 3 @@ "push" :> 1 @@ "rotate" :> 1,
    "row" :> 2 @@ "login" :> 1 @@ "push" :> 2 @@ "rotate" :> 1,
    "row" :> 2 @@ "login" :> 1 @@ "push" :> 1 @@ "rotate" :> 2}}

\* The processes that handle plugins, messages and pushes are alike.
MCSymmetry == Permutations(PluginThreads)
=============================================================================
