----------------------------- MODULE MapContents -----------------------------
(***************************************************************************)
(* What a protobuf map field promises its callers: one key-value content   *)
(* per field, edited one key at a time (or cleared, merged, swapped), and  *)
(* const accessors, on any number of threads, that answer with exactly the *)
(* content.  Nothing here knows that the implementation keeps the content  *)
(* twice, as a hash map and as a repeated field of entries.                *)
(***************************************************************************)
CONSTANTS Field, Thread, Key, Value, Absent

VARIABLES content, answer

vars == <<content, answer>>

Contents == [Key -> Value \cup {Absent}]

Empty == [k \in Key |-> Absent]

\* The entries of src win over those of dst (MergeFrom).
Merged(dst, src) ==
  [k \in Key |-> IF src[k] = Absent THEN dst[k] ELSE src[k]]

Init ==
  /\ content = [f \in Field |-> Empty]
  /\ answer = [t \in Thread |-> Empty]

\* Insert, overwrite or erase one key.
Put(f, k, v) ==
  /\ content' = [content EXCEPT ![f][k] = v]
  /\ UNCHANGED answer

Clear(f) ==
  /\ content' = [content EXCEPT ![f] = Empty]
  /\ UNCHANGED answer

Merge(f, g) ==
  /\ content' = [content EXCEPT ![f] = Merged(content[f], content[g])]
  /\ UNCHANGED answer

Swap(f, g) ==
  /\ content' = [content EXCEPT ![f] = content[g], ![g] = content[f]]
  /\ UNCHANGED answer

Read(t, f) ==
  /\ answer' = [answer EXCEPT ![t] = content[f]]
  /\ UNCHANGED content

Next ==
  \/ \E f \in Field, k \in Key, v \in Value \cup {Absent} : Put(f, k, v)
  \/ \E f \in Field : Clear(f)
  \/ \E f, g \in Field : Merge(f, g) \/ Swap(f, g)
  \/ \E t \in Thread, f \in Field : Read(t, f)

Spec == Init /\ [][Next]_vars
==============================================================================
