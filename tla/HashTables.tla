----------------------------- MODULE HashTables -----------------------------
(* The size of a hash table (backend/h_hash_common.h), for the tables of   *)
(* joins and of searches alike.                                            *)
EXTENDS Integers

CONSTANT MinTable  \* 16, the smallest number of chains

HashTablesAssumption == MinTable \in Nat \ {0}
ASSUME HashTablesAssumption

\* getHashTableSize: twice the first doubling of MinTable above n.
TableSize(n) ==
  LET doubled[k \in 0 .. n] == IF k = 0 THEN MinTable ELSE 2 * doubled[k - 1]
  IN  IF n < MinTable THEN MinTable
      ELSE 2 * doubled[CHOOSE k \in 0 .. n :
                         doubled[k] > n /\ \A l \in 0 .. k - 1 : doubled[l] <= n]
=============================================================================
