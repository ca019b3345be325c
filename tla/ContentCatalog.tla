---------------------------- MODULE ContentCatalog ----------------------------
(***************************************************************************)
(* What the import and parse pipeline promises about every distinct file   *)
(* content: it is stored before it is parsed, it is parsed at most once,   *)
(* and nothing that happens later takes it back.                           *)
(***************************************************************************)
CONSTANT Content

VARIABLE catalog

Init == catalog = [k \in Content |-> "unknown"]

(* The first import of the content registers its snapshot. *)
Store(k) ==
    /\ catalog[k] = "unknown"
    /\ catalog' = [catalog EXCEPT ![k] = "stored"]

(* The one successful parse attempt registers its document. *)
Parse(k) ==
    /\ catalog[k] = "stored"
    /\ catalog' = [catalog EXCEPT ![k] = "parsed"]

Next == \E k \in Content : Store(k) \/ Parse(k)

Spec == Init /\ [][Next]_catalog

===============================================================================
