------------------------------- MODULE Search -------------------------------
(***************************************************************************)
(* @index_of(src, val), @unique(src) and @member(val, src) on vectors of   *)
(* one type (pfnIndexOf, pfnUnique, pfnMember, backend/h_primitive.cc, and *)
(* lib_index_of_* and lib_member_*, backend/h_libs.cc).                    *)
(*                                                                         *)
(* Booleans are looked up by a flag per value, an ordered source of        *)
(* @index_of by bisection, a source of up to two rows of @member row by    *)
(* row, and everything else in a table in the hash heap: an array of       *)
(* chains of nodes, one for every different value.                         *)
(*                                                                         *)
(* Rows are numbered from 1.                                               *)
(***************************************************************************)
EXTENDS HashHeap, HashTables, Sequences

CONSTANTS
  Values,   \* what vectors of integers and of other types hold, integers for their order
  HashOf,   \* getHashValue
  NULL,
  MaxSrc,   \* bounds on the lengths of the operands
  MaxVal

SearchAssumption ==
  /\ Values \subseteq Int /\ HashOf \in [Values -> Nat]
  /\ NULL \notin Int /\ MaxSrc \in Nat /\ MaxVal \in Nat
  /\ Clear \notin [h_index : Nat, next : Words \cup {NULL}]
ASSUME SearchAssumption

VARIABLES
  op,        \* the builtin
  typ,       \* "bool", "int" (i32 or i64), or "other"
  src, val,  \* its operands
  pc,        \* where it is, "idle" between two builtins
  row,       \* loop variable
  t,         \* the cursor of insert_hash and find_hash
  low, high, \* the bounds of binarySearch for every row of val
  hashCur,   \* the top of the heap when the builtin began
  targ,      \* the row found for every row of val, 0 before, or whether one was
  rtn        \* the result

searched == <<op, typ, src, val>>
bounds == <<low, high>>
local == <<searched, pc, row, t, bounds, hashCur, targ, rtn>>

Vectors(S, n) == UNION {[1 .. k -> S] : k \in 0 .. n}
Booleans == {0, 1}
NotFound == Len(src) + 1

----------------------------------------------------------------------------

IsUnique == op = "unique"
Probes == op \in {"index_of", "unique"}

\* isOrdered: no two rows of a vector of integers ascend while two descend.
isOrdered ==
  /\ typ = "int"
  /\ \/ \A r \in 2 .. Len(src) : src[r - 1] <= src[r]
     \/ \A r \in 2 .. Len(src) : src[r - 1] >= src[r]

FirstRow(v) ==
  IF \E r \in DOMAIN src : src[r] = v
  THEN CHOOSE r \in DOMAIN src : src[r] = v /\ \A q \in 1 .. r - 1 : src[q] # v
  ELSE NotFound

\* lib_index_of_B: flag[1] starts as 0, which passes for a row already found.
FlagOf(v) == IF v = 1 THEN 1 ELSE FirstRow(v)

----------------------------------------------------------------------------
(* The table.                                                              *)

hashLen == TableSize(Len(src))
Bucket(v) == hashCur + (HashOf[v] % hashLen)
hN(a) == IF hHeap[a] = Clear THEN NULL ELSE hHeap[a].next
hD(a) == hHeap[a].h_index

\* A bucket is a node of which only the link is used.
Link(a) == [h_index |-> 0, next |-> a]
Linked(a, node) == IF hHeap[a] = Clear THEN Link(node) ELSE [hHeap[a] EXCEPT !.next = node]

----------------------------------------------------------------------------

Idle == pc = "idle"

SearchInit ==
  /\ op = "none" /\ typ = "other" /\ src = <<>> /\ val = <<>>
  /\ pc = "idle" /\ row = 0 /\ t = NULL /\ low = <<>> /\ high = <<>>
  /\ hashCur = 0 /\ targ = <<>> /\ rtn = <<>>

\* The algorithm of a builtin.
Algorithm(o, ty, s) ==
  IF o = "member"
  THEN IF ty = "bool" \/ Len(s) <= 2 THEN "scan" ELSE "create"
  ELSE "index_of"

Call(o, ty) ==
  LET S == IF ty = "bool" THEN Booleans ELSE Values IN
  /\ Idle
  /\ op' = o /\ typ' = ty
  /\ src' \in Vectors(S, MaxSrc)
  /\ IF o = "unique" THEN val' = src' ELSE val' \in Vectors(S, MaxVal)
  /\ pc' = Algorithm(o, ty, src')
  /\ hashCur' = hHeapCur
  /\ targ' = <<>> /\ rtn' = <<>>
  /\ UNCHANGED <<row, t, bounds, heap>>

\* lib_index_of_B, searchOrdered, or lib_index_template.
IndexOf ==
  /\ pc = "index_of"
  /\ \/ /\ typ = "bool"
        /\ pc' = "found" /\ targ' = [r \in DOMAIN val |-> FlagOf(val[r])]
        /\ UNCHANGED bounds
     \/ /\ isOrdered
        /\ pc' = "bisect" /\ targ' = [r \in DOMAIN val |-> 0]
        /\ low' = [r \in DOMAIN val |-> 0] /\ high' = [r \in DOMAIN val |-> Len(src)]
     \/ /\ typ # "bool" /\ ~ isOrdered
        /\ pc' = "create"
        /\ UNCHANGED <<targ, bounds>>
  /\ UNCHANGED <<searched, row, t, hashCur, rtn, heap>>

Undecided == {r \in DOMAIN val : targ[r] = 0}
Mid(r) == (low[r] + high[r]) \div 2
\* Of an empty source nothing that is read matters.
IsAt(r) == src # <<>> /\ src[Mid(r) + 1] = val[r]
Halves(r) == r \in Undecided /\ ~ IsAt(r) /\ low[r] # Mid(r)

\* Mutant: the interval is given up before its middle is looked at.
DecidedEarly(r) == IF low[r] = Mid(r) THEN NotFound ELSE IF IsAt(r) THEN Mid(r) + 1 ELSE 0
Decided(r) == IF IsAt(r) THEN Mid(r) + 1 ELSE IF low[r] = Mid(r) THEN NotFound ELSE 0

\* binarySearch_I, binarySearch_L, which take the source to ascend.  The rows of
\* val are independent: a step is one comparison of each.
Halve ==
  /\ pc = "bisect" /\ Undecided # {}
  /\ targ' = [r \in DOMAIN val |-> IF r \in Undecided THEN Decided(r) ELSE targ[r]]
  /\ low' = [r \in DOMAIN val |-> IF Halves(r) /\ src[Mid(r) + 1] <= val[r]
                                  THEN Mid(r) ELSE low[r]]
  /\ high' = [r \in DOMAIN val |-> IF Halves(r) /\ src[Mid(r) + 1] > val[r]
                                   THEN Mid(r) ELSE high[r]]
  /\ UNCHANGED <<searched, pc, row, t, hashCur, rtn, heap>>

Bisected ==
  /\ pc = "bisect" /\ Undecided = {}
  /\ pc' = "found"
  /\ low' = <<>> /\ high' = <<>>
  /\ UNCHANGED <<searched, row, t, hashCur, targ, rtn, heap>>

\* lib_member_B, lib_member_fast1 and lib_member_fast2.  Of an empty source
\* that is not boolean the first row is read all the same, whatever is there.
Scan ==
  /\ pc = "scan"
  /\ \E first \in (IF src = <<>> /\ typ # "bool" THEN Values ELSE {NULL}) :
       targ' = [r \in DOMAIN val |-> val[r] = first \/ \E q \in DOMAIN src : src[q] = val[r]]
  /\ pc' = "found"
  /\ UNCHANGED <<searched, row, t, bounds, hashCur, rtn, heap>>

\* createHash at the mark.
Create ==
  /\ pc = "create"
  /\ IF Fits(hashLen)
     THEN pc' = "insert" /\ hHeapCur' = hHeapCur + hashLen
     ELSE pc' = "Hash heap full" /\ UNCHANGED hHeapCur
  /\ row' = 1 /\ t' = NULL
  /\ UNCHANGED <<searched, bounds, hashCur, targ, rtn, hHeap>>

\* The cursor starts each row at its bucket.
At(v) == IF t = NULL THEN Bucket(v) ELSE t

\* Mutant: a new node replaces what follows its bucket.
InsertAtBucket(v) == [hHeap EXCEPT ![hHeapCur] = [h_index |-> row, next |-> NULL],
                                   ![Bucket(v)] = Linked(Bucket(v), hHeapCur)]

\* Mutant: the chain becomes a ring.
InsertInRing(v) == [hHeap EXCEPT ![hHeapCur] = [h_index |-> row, next |-> Bucket(v)],
                                 ![At(v)] = Linked(At(v), hHeapCur)]

\* newHashNode, linked to the last node of the chain.
InsertAtEnd(v) == [hHeap EXCEPT ![hHeapCur] = [h_index |-> row, next |-> NULL],
                                ![At(v)] = Linked(At(v), hHeapCur)]

\* insert_hash of a row, one node of the chain at a time.
InsertRow ==
  LET v == src[row]
      n == hN(At(v))
  IN  /\ pc = "insert" /\ row <= Len(src)
      /\ \/ /\ n = NULL /\ Fits(1)
            /\ hHeap' = InsertAtEnd(v) /\ hHeapCur' = hHeapCur + 1
            /\ row' = row + 1 /\ t' = NULL
            /\ UNCHANGED pc
         \/ /\ n = NULL /\ ~ Fits(1)
            /\ pc' = "Hash heap full"
            /\ UNCHANGED <<row, t, heap>>
         \/ /\ n # NULL /\ src[hD(n)] = v
            /\ row' = row + 1 /\ t' = NULL
            /\ UNCHANGED <<pc, heap>>
         \/ /\ n # NULL /\ src[hD(n)] # v
            /\ t' = n
            /\ UNCHANGED <<pc, row, heap>>
      /\ UNCHANGED <<searched, bounds, hashCur, targ, rtn>>

Inserted ==
  /\ pc = "insert" /\ row > Len(src)
  /\ pc' = "find" /\ row' = 1
  /\ UNCHANGED <<searched, t, bounds, hashCur, targ, rtn, heap>>

\* What the builtin keeps of the row found.
Hit(r) == IF Probes THEN r ELSE TRUE
\* Mutant: a value that is not there keeps the answer of find_hash.
MissUnchanged == IF Probes THEN 0 ELSE FALSE
Miss == IF Probes THEN NotFound ELSE FALSE

\* Mutant: the probe looks at the first node of a chain only.
FindFirstNode ==
  LET v == val[row]
      n == hN(At(v))
  IN  /\ pc = "find" /\ row <= Len(val)
      /\ t' = NULL /\ row' = row + 1
      /\ targ' = Append(targ, IF n = NULL \/ src[hD(n)] # v THEN Miss ELSE Hit(hD(n)))
      /\ UNCHANGED <<searched, pc, bounds, hashCur, rtn, heap>>

\* find_hash of a row of val.
FindRow ==
  LET v == val[row]
      n == hN(At(v))
  IN  /\ pc = "find" /\ row <= Len(val)
      /\ IF n # NULL /\ src[hD(n)] # v
         THEN t' = n /\ UNCHANGED <<row, targ>>
         ELSE /\ t' = NULL /\ row' = row + 1
              /\ targ' = Append(targ, IF n = NULL THEN Miss ELSE Hit(hD(n)))
      /\ UNCHANGED <<searched, pc, bounds, hashCur, rtn, heap>>

\* Mutant: the builtin returns without giving its table back.
ReleaseNothing ==
  /\ pc = "find" /\ row > Len(val)
  /\ pc' = "found" /\ row' = 0
  /\ UNCHANGED <<searched, t, bounds, hashCur, targ, rtn, heap>>

\* setHashHeap to the mark.
Release ==
  /\ pc = "find" /\ row > Len(val)
  /\ hHeap' = Released(hashCur) /\ hHeapCur' = hashCur
  /\ pc' = "found" /\ row' = 0
  /\ UNCHANGED <<searched, t, bounds, hashCur, targ, rtn>>

\* pfnUnique goes on to copy; the other builtins are done.
ReturnRows ==
  /\ pc = "found"
  /\ IF IsUnique THEN pc' = "copy" /\ row' = 1 /\ UNCHANGED rtn
     ELSE pc' = "returned" /\ row' = 0 /\ rtn' = targ
  /\ UNCHANGED <<searched, t, bounds, hashCur, targ, heap>>

\* pfnUnique keeps the rows that find themselves.
CopyRow ==
  /\ pc = "copy" /\ row <= Len(src)
  /\ rtn' = IF targ[row] = row THEN Append(rtn, row) ELSE rtn
  /\ row' = row + 1
  /\ UNCHANGED <<searched, pc, t, bounds, hashCur, targ, heap>>

Copied ==
  /\ pc = "copy" /\ row > Len(src)
  /\ pc' = "returned" /\ row' = 0
  /\ UNCHANGED <<searched, t, bounds, hashCur, targ, rtn, heap>>

\* The interpreter goes on; nothing of the builtin remains but its result.
Done ==
  /\ pc = "returned"
  /\ pc' = "idle"
  /\ op' = "none" /\ typ' = "other" /\ src' = <<>> /\ val' = <<>>
  /\ row' = 0 /\ t' = NULL /\ low' = <<>> /\ high' = <<>> /\ hashCur' = 0
  /\ targ' = <<>> /\ rtn' = <<>>
  /\ UNCHANGED heap

SearchNext ==
  \/ \E o \in {"index_of", "unique", "member"}, ty \in {"bool", "int", "other"} : Call(o, ty)
  \/ IndexOf \/ Halve \/ Bisected \/ Scan
  \/ Create \/ InsertRow \/ Inserted \/ FindRow \/ Release
  \/ ReturnRows \/ CopyRow \/ Copied \/ Done

----------------------------------------------------------------------------

\* The sources on which @index_of and @unique go wrong: booleans, where true
\* always passes for row 1, and integers that descend, which are searched as
\* if they ascended.
Misread ==
  \/ typ = "bool" /\ \E r \in DOMAIN val : val[r] = 1
  \/ isOrdered /\ \E r \in 2 .. Len(src) : src[r - 1] > src[r]

\* Type invariant of the searches.
SearchTypeOK ==
  /\ pc \in {"idle", "index_of", "bisect", "scan", "create", "insert", "find", "found", "copy",
             "returned", "Hash heap full"}
  /\ row \in 0 .. (IF Len(src) > Len(val) THEN Len(src) ELSE Len(val)) + 1
  /\ t \in Words \cup {NULL} /\ hashCur \in Words /\ hHeapCur \in Words
  /\ pc = "bisect" => \A r \in DOMAIN val : low[r] \in 0 .. high[r] /\ high[r] <= Len(src)
  /\ Len(targ) <= Len(val)
  /\ \A r \in DOMAIN targ :
       \/ targ[r] \in IF Probes THEN 1 .. NotFound ELSE BOOLEAN
       \/ pc = "bisect" /\ targ[r] = 0
  /\ hHeap \in [Words -> {Clear} \cup [h_index : 0 .. MaxSrc, next : Words \cup {NULL}]]

\* Every word from the top on is clear, so that the next table is empty.
FreeMemoryIsClear == \A a \in hHeapCur .. INIT_HASH_SIZE - 1 : hHeap[a] = Clear

\* Every link leads to a later word in use, so that every walk along a chain
\* ends.
ChainsEnd ==
  \A a \in 0 .. hHeapCur - 1 : hN(a) # NULL => hN(a) \in a + 1 .. hHeapCur - 1

\* A builtin that returned has given back what it took.
HeapIsRestored == pc = "returned" => hHeapCur = hashCur

\* @index_of finds a row with the value of each row of val, the first one
\* unless the source is ordered, and the row after the last for a value that
\* is not there (docs/mkdocs/docs/horseir/database.md:113-141).
IndexOfFinds ==
  pc = "returned" /\ op = "index_of" /\ ~ Misread =>
    \A r \in DOMAIN val :
      IF \E q \in DOMAIN src : src[q] = val[r]
      THEN /\ rtn[r] \in DOMAIN src /\ src[rtn[r]] = val[r]
           /\ isOrdered \/ rtn[r] = FirstRow(val[r])
      ELSE rtn[r] = NotFound

\* @unique lists every value of the source, each once.
UniqueListsValues ==
  pc = "returned" /\ op = "unique" /\ ~ Misread =>
    /\ {src[rtn[k]] : k \in DOMAIN rtn} = {src[q] : q \in DOMAIN src}
    /\ \A k, l \in DOMAIN rtn : k # l => src[rtn[k]] # src[rtn[l]]

\* @member tells which rows of val are in the source, one that has rows.
MemberTells ==
  pc = "returned" /\ op = "member" /\ (src # <<>> \/ typ = "bool") =>
    \A r \in DOMAIN val : rtn[r] = (\E q \in DOMAIN src : src[q] = val[r])
=============================================================================
