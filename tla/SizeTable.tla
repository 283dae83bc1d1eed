----------------------------- MODULE SizeTable -----------------------------
(* What buf_size_map_t promises: a finite map from buffers to size classes. *)

CONSTANTS Keys, Classes, None, Failed

VARIABLES class_of,   \* Keys -> the class recorded for it, or None
          ret         \* what the last call returned

Init == class_of = [k \in Keys |-> None] /\ ret = None

\* An insertion that cannot be stored changes nothing.
Insert(k, c) ==
  \/ class_of' = [class_of EXCEPT ![k] = c] /\ ret' = "ok"
  \/ UNCHANGED class_of /\ ret' = Failed

Remove(k) ==
  /\ class_of' = [class_of EXCEPT ![k] = None]
  /\ ret' = IF class_of[k] = None THEN Failed ELSE class_of[k]

Next == \E k \in Keys : Remove(k) \/ \E c \in Classes : Insert(k, c)

Spec == Init /\ [][Next]_<<class_of, ret>>
=============================================================================
