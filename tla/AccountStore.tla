----------------------------- MODULE AccountStore -----------------------------
(***************************************************************************)
(* What a cache of src/src/lib/api/cache.ts promises: for each key it      *)
(* holds nothing, a value the server gave the account now signed in, no    *)
(* earlier than the last time the key was forgotten, or a value of which   *)
(* the caller that wrote it has to answer for.  How values get there       *)
(* (requests, who shares them, when they are dropped) is left open.        *)
(***************************************************************************)
EXTENDS Naturals

CONSTANTS Keys, Absent

VARIABLES
  account,  \* the accounts signed in so far
  server,   \* server[k]: how often the server's value of k has changed
  floor,    \* floor[k]: server[k] when k was last forgotten
  entry     \* entry[k]: Absent or [by, account, version]

vars == <<account, server, floor, entry>>

TypeOK ==
  /\ account \in Nat /\ server \in [Keys -> Nat] /\ floor \in [Keys -> Nat]
  /\ entry \in [Keys -> [by: {"read", "write"}, account: Nat, version: Nat] \cup {Absent}]

Init ==
  /\ account = 0
  /\ server = [k \in Keys |-> 0] /\ floor = server
  /\ entry = [k \in Keys |-> Absent]

Change(k) ==
  /\ server' = [server EXCEPT ![k] = @ + 1]
  /\ UNCHANGED <<account, floor, entry>>

Keep(k) ==
  /\ \E v \in floor[k]..server[k] :
       entry' = [entry EXCEPT ![k] = [by |-> "read", account |-> account, version |-> v]]
  /\ UNCHANGED <<account, server, floor>>

Write(k) ==
  /\ \E a \in 0..account, v \in 0..server[k] :
       entry' = [entry EXCEPT ![k] = [by |-> "write", account |-> a, version |-> v]]
  /\ UNCHANGED <<account, server, floor>>

Lapse(k) ==
  /\ entry' = [entry EXCEPT ![k] = Absent]
  /\ UNCHANGED <<account, server, floor>>

Forget(k) ==
  /\ entry' = [entry EXCEPT ![k] = Absent]
  /\ floor' = [floor EXCEPT ![k] = server[k]]
  /\ UNCHANGED <<account, server>>

ForgetAll ==
  /\ entry' = [k \in Keys |-> Absent]
  /\ floor' = server
  /\ UNCHANGED <<account, server>>

SignOut ==
  /\ account' = account + 1
  /\ entry' = [k \in Keys |-> Absent]
  /\ floor' = server
  /\ UNCHANGED server

Next == \/ \E k \in Keys : Change(k) \/ Keep(k) \/ Write(k) \/ Lapse(k) \/ Forget(k)
        \/ ForgetAll \/ SignOut

Spec == Init /\ [][Next]_vars
===============================================================================
