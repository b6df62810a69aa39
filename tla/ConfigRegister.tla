--------------------------- MODULE ConfigRegister ---------------------------
(***************************************************************************)
(* What UpdateConfigV2Scoped promises its callers: config.json is a        *)
(* register with compare-and-swap.  A caller looks at the document, and    *)
(* its update takes place at once, on exactly that revision, or not at     *)
(* all.  PeerConfig builds on this: there an update is one step.           *)
(*                                                                         *)
(* Config.Save does not take part in the protocol.  A save between two     *)
(* updates changes its own field; one that overlaps another write may      *)
(* leave any document, and nothing is promised from then on.               *)
(***************************************************************************)
EXTENDS Naturals

CONSTANTS Updater, Saver, MaxRevision

VARIABLES doc,      \* config.json
          expected, \* the document each updater has looked at
          broken    \* has a save overlapped another write?

vars == <<doc, expected, broken>>

\* The document is as some version of clipfan has left it, and nobody has
\* looked at an earlier one.
Init ==
    /\ (doc.state = "versioned" <=> doc.rev > 0)
    /\ expected = [p \in Updater \cup Saver |-> doc]
    /\ broken = FALSE

Look(p) ==
    /\ expected' = [expected EXCEPT ![p] = doc]
    /\ UNCHANGED <<doc, broken>>

\* The revision is the one p has looked at; nothing but p's own field and the
\* revision changes.
CompareAndSwap(p) ==
    /\ expected[p].state = doc.state /\ expected[p].rev = doc.rev
    /\ doc.rev < MaxRevision
    /\ doc' = [state |-> "versioned", rev |-> doc.rev + 1,
               fields |-> [doc.fields EXCEPT ![p] = @ + 1]]
    /\ UNCHANGED <<expected, broken>>

Save(s) ==
    /\ doc' = [doc EXCEPT !.fields[s] = @ + 1]
    /\ UNCHANGED <<expected, broken>>

Overlap == broken' = TRUE

Next ==
    \/ \E p \in Updater : Look(p) \/ CompareAndSwap(p)
    \/ \E s \in Saver : Save(s)
    \/ Overlap

Spec == Init /\ [][Next]_vars
=============================================================================
