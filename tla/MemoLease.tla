------------------------------ MODULE MemoLease ------------------------------
(***************************************************************************)
(* What the single-editor rule of the shared memos promises, said without  *)
(* requests, expiry or background tasks: the right to edit is only ever    *)
(* taken while nobody has it, and a text is only replaced by somebody who  *)
(* had read exactly that text, or when that text is in the archive.        *)
(* MemoLock implements this specification.                                 *)
(***************************************************************************)
EXTENDS Naturals

CONSTANTS Actors, Nobody

VARIABLES holder,   \* who has the right to edit, or Nobody
          text,     \* the text of the memo, 0 when there is no memo
          known,    \* known[a]: the text a read last
          archive   \* the set of archived texts

leaseVars == <<holder, text, known, archive>>

Init == /\ holder = Nobody /\ text = 0 /\ archive = {}
        /\ known = [a \in Actors |-> 0]

Create(a) == /\ text = 0 /\ text' # 0
             /\ known' = [known EXCEPT ![a] = text']
             /\ UNCHANGED <<holder, archive>>

Take(a) == /\ holder \in {Nobody, a} /\ holder' = a
           /\ \A b \in Actors \ {a} : known'[b] = known[b]
           /\ UNCHANGED <<text, archive>>

Drop == /\ holder' = Nobody
        /\ UNCHANGED <<text, known, archive>>

Read(a) == /\ known' = [known EXCEPT ![a] = text]
           /\ UNCHANGED <<holder, text, archive>>

\* The archive may shrink (old versions are trimmed) and gains at most the text.
Replace(a) == /\ text # 0 /\ text' # 0
              /\ known[a] = text \/ text \in archive'
              /\ known' = [known EXCEPT ![a] = text']
              /\ archive' \subseteq archive \cup {text}
              /\ UNCHANGED holder

Archive == /\ archive' \subseteq archive \cup {text}
           /\ UNCHANGED <<holder, text, known>>

Erase == /\ text' = 0 /\ archive' = {}
         /\ UNCHANGED <<holder, known>>

Next == \/ \E a \in Actors : Create(a) \/ Take(a) \/ Read(a) \/ Replace(a)
        \/ Drop \/ Archive \/ Erase

Spec == Init /\ [][Next]_leaseVars
==============================================================================
