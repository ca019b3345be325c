---------------------------- MODULE CommandLedger ----------------------------
(***************************************************************************)
(* What the protected command pipeline promises its callers, with the      *)
(* workers, the files and the transactions left out: a ledger of domain    *)
(* changes in which every key appears at most once, and an outcome per key *)
(* that, once reached, is never revised.                                   *)
(***************************************************************************)
EXTENDS Sequences

CONSTANT Command

VARIABLES ledger, outcome
vars == <<ledger, outcome>>

Init ==
    /\ ledger = <<>>
    /\ outcome = [c \in Command |-> "unknown"]

(* The envelope of a new key is accepted. *)
Accept(c) ==
    /\ outcome[c] = "unknown"
    /\ outcome' = [outcome EXCEPT ![c] = "open"]
    /\ UNCHANGED ledger

(* The domain change and the final outcome of the key appear together. *)
Apply(c) ==
    /\ outcome[c] = "open"
    /\ outcome' = [outcome EXCEPT ![c] = "applied"]
    /\ ledger' = Append(ledger, c)

(* The command is given up without a domain change. *)
Reject(c) ==
    /\ outcome[c] = "open"
    /\ outcome' = [outcome EXCEPT ![c] = "rejected"]
    /\ UNCHANGED ledger

Next == \E c \in Command : Accept(c) \/ Apply(c) \/ Reject(c)

Spec == Init /\ [][Next]_vars

=============================================================================
