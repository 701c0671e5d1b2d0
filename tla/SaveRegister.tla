---------------------------- MODULE SaveRegister ----------------------------
(***************************************************************************)
(* What the save store promises its callers: each slot is a register, and  *)
(* a request takes effect at one instant between its arrival and its       *)
(* answer, or not at all.  A write takes effect only at an instant at      *)
(* which the precondition its caller sent is true of the register.         *)
(***************************************************************************)
CONSTANTS Procs, Slots, Meta, Hashes, NoHash, Absent, IfAbsent, Unconditional

VARIABLES
    reg,    \* [Slots -> Meta or Absent]
    req     \* [Procs -> the request being served, or NoRequest]

regVars == <<reg, req>>

NoRequest == [kind |-> "none"]
Writes == [kind : {"write"}, slot : Slots, meta : Meta,
           pre : Hashes \cup {IfAbsent, Unconditional}]
Removes == [kind : {"remove"}, slots : SUBSET Slots]

RegInit ==
    /\ reg \in [Slots -> Meta \cup {Absent}]
    /\ req = [p \in Procs |-> NoRequest]

HashIn(s) == IF reg[s] = Absent THEN NoHash ELSE reg[s].hash

Allowed(w) ==
    \/ w.pre = Unconditional
    \/ w.pre = IfAbsent /\ HashIn(w.slot) \in {NoHash, w.meta.hash}
    \/ w.pre = HashIn(w.slot)

Answered(p) == req' = [req EXCEPT ![p] = NoRequest]

Arrive(p) ==
    /\ req[p] = NoRequest
    /\ req'[p] \in Writes \cup Removes
    /\ req' = [req EXCEPT ![p] = req'[p]]
    /\ UNCHANGED reg

Write(p) ==
    /\ req[p] \in Writes
    /\ Allowed(req[p])
    /\ reg' = [reg EXCEPT ![req[p].slot] = req[p].meta]
    /\ Answered(p)

Remove(p) ==
    /\ req[p] \in Removes
    /\ reg' = [s \in Slots |-> IF s \in req[p].slots THEN Absent ELSE reg[s]]
    /\ Answered(p)

\* Refused, found unchanged, failed or abandoned: no effect.
NoEffect(p) ==
    /\ req[p] # NoRequest
    /\ Answered(p)
    /\ UNCHANGED reg

Lost ==
    /\ req' = [p \in Procs |-> NoRequest]
    /\ UNCHANGED reg

RegNext ==
    \/ \E p \in Procs : Arrive(p) \/ Write(p) \/ Remove(p) \/ NoEffect(p)
    \/ Lost

RegSpec == RegInit /\ [][RegNext]_regVars
=============================================================================
