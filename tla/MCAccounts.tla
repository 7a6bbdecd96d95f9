----------------------------- MODULE MCAccounts ------------------------------
(* Small organizations for TLC.                                              *)
EXTENDS Accounts

CONSTANTS u1, u2, d1, d2, k1, k2, k3, k4, r1, r2, g1, g2, a1, sd1, sd2, sd3, s1, s2

\* Two users share a device, and the first of them asks twice; the second has
\* a web client too.
MCOwner == k1 :> <<u1, d1>> @@ k2 :> <<u1, d1>> @@ k3 :> <<u2, d1>> @@ k4 :> <<u2, d2>>
MCName == g1 :> "All" @@ g2 :> "Staff"
MCAdDomain == g1 :> "" @@ g2 :> ""

\* What is asked for: links and approvals at once; a device that is deleted
\* and a handler that is cut off; a user who is deleted while he activates;
\* resets; a login with both factors; attempts up to the lock; a user or a
\* device that goes while he logs in; calls of the panel one after the other,
\* at once, and cut off.
MCBudgets == {
    Mix("activate" :> 0),
    Mix("activate" :> 2 @@ "link" :> 2 @@ "admin" :> 1),
    Mix("activate" :> 2 @@ "device" :> 1 @@ "fault" :> 1),
    Mix("activate" :> 1 @@ "link" :> 1 @@ "panel" :> 1 @@ "overlap" :> 1),
    Mix("activate" :> 1 @@ "validate" :> 1 @@ "passcode" :> 2 @@ "reset" :> 1 @@ "cancel" :> 1
        @@ "link" :> 1),
    Mix("activate" :> 1 @@ "validate" :> 1 @@ "passcode" :> 1 @@ "second" :> 2 @@ "unlock" :> 1),
    Mix("activate" :> 1 @@ "validate" :> 1 @@ "passcode" :> 3 @@ "unlock" :> 1 @@ "conf" :> 1),
    Mix("activate" :> 1 @@ "validate" :> 1 @@ "passcode" :> 2 @@ "panel" :> 1),
    Mix("activate" :> 1 @@ "validate" :> 1 @@ "passcode" :> 2 @@ "device" :> 1
        @@ "expire" :> 1),
    Mix("panel" :> 5),
    Mix("panel" :> 3 @@ "overlap" :> 1),
    Mix("panel" :> 2 @@ "overlap" :> 1 @@ "fault" :> 1)}

\* A device of each kind. What is asked for: approvals and sessions with a step
\* that fails; sessions that end, with a slow resizing and a deletion at the
\* same time; settings while folders are made; the deletion of general storage.
MCDeviceKind == sd1 :> "docker" @@ sd2 :> "desktop" @@ sd3 :> "tar"
StorageMix(some) ==
    some @@ [op \in {"start", "approve", "settings", "end", "delete", "general", "fault", "slow",
                     "overlap"} |-> 0]
MCStorageBudgets == {
    StorageMix("start" :> 0),
    StorageMix("start" :> 2 @@ "approve" :> 2 @@ "end" :> 1 @@ "fault" :> 1),
    StorageMix("start" :> 2 @@ "end" :> 1 @@ "delete" :> 1 @@ "slow" :> 1 @@ "overlap" :> 1),
    StorageMix("approve" :> 1 @@ "settings" :> 1 @@ "overlap" :> 1),
    StorageMix("start" :> 1 @@ "settings" :> 1 @@ "overlap" :> 1),
    StorageMix("start" :> 2 @@ "end" :> 1 @@ "general" :> 1)}

MCSymmetry == Permutations(Requests) \cup Permutations(Admins)
=============================================================================
