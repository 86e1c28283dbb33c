----------------------------- MODULE MCUploads -----------------------------
(* Two uploads of one payload and an import of a longer one from a file, all under *)
(* one name.                                                                       *)
EXTENDS Uploads

CONSTANTS u1, u2, f1, k1

MCKey == [d \in {u1, u2, f1} |-> k1]
MCChunks == [d \in {u1, u2, f1} |-> IF d = f1 THEN 3 ELSE 2]
MCPayload == [d \in {u1, u2, f1} |-> IF d = f1 THEN "long" ELSE "short"]
=============================================================================
