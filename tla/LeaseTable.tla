----------------------------- MODULE LeaseTable -----------------------------
(***************************************************************************)
(* What a TTL cache promises, with no records, sections or counters in it. *)
(* An upstream answer grants a LEASE on a value: from the tick `start' to  *)
(* the tick `end' the value may be handed out again.  A table of leases    *)
(* may                                                                     *)
(*   - grant a lease on a key, which starts at the current tick and lasts  *)
(*     at most Longest ticks, replacing the lease the key had;             *)
(*   - withdraw a lease, but only one with less than one Unit (a second)   *)
(*     left, because TTLs are whole seconds;                               *)
(*   - let time pass.                                                      *)
(* It may never prolong, shorten, alter or revive a lease it granted: a    *)
(* value, which tells when and by whom it was vouched for, is granted on a *)
(* key once.                                                               *)
(*                                                                         *)
(* The actions are predicates on a pair of states and quantify over no     *)
(* data, so that a detailed cache can be checked and proved against them   *)
(* whatever the values it stores.                                          *)
(***************************************************************************)
EXTENDS Integers

CONSTANTS
    Key,        \* what leases are granted on
    NoLease,    \* the mark of a key without a lease
    Longest,    \* the longest lease, in ticks
    Unit        \* ticks in one second

VARIABLES
    clock,      \* the monotonic clock, in ticks
    lease       \* lease[k]: NoLease or a record [value, start, end]

leaseVars == <<clock, lease>>

Init ==
    /\ clock = 0
    /\ lease = [k \in Key |-> NoLease]

(* A lease starts now and ends in the future, within the limit.            *)
Begin(k) ==
    /\ lease'[k] # NoLease
    /\ lease'[k].start = clock
    /\ lease'[k].end > clock
    /\ lease'[k].end <= clock + Longest
    /\ lease' = [lease EXCEPT ![k] = lease'[k]]
    /\ UNCHANGED clock

(* A new lease is on a new value.                                          *)
Grant(k) ==
    /\ Begin(k)
    /\ lease[k] # NoLease => lease'[k].value # lease[k].value

(* What no table does: the lease begins once more.  For those that state   *)
(* just where they fall short of one.                                      *)
Renew(k) ==
    /\ Begin(k)
    /\ lease[k] # NoLease /\ lease'[k].value = lease[k].value

(* Only a lease that cannot fill one more Unit is withdrawn.               *)
Withdraw(k) ==
    /\ lease[k] # NoLease
    /\ lease[k].end - clock < Unit
    /\ lease' = [lease EXCEPT ![k] = NoLease]
    /\ UNCHANGED clock

Advance ==
    /\ clock' > clock
    /\ UNCHANGED lease

Next ==
    \/ \E k \in Key : Grant(k) \/ Withdraw(k)
    \/ Advance

Spec == Init /\ [][Next]_leaseVars

=============================================================================
