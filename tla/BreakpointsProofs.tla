-------------------------- MODULE BreakpointsProofs --------------------------
(***************************************************************************)
(* Proofs about Breakpoints, for any number of threads, addresses, and     *)
(* breakpoint structures, any program and any size of the hash table.      *)
(***************************************************************************)
EXTENDS Breakpoints, SequenceTheorems, TLAPS

-----------------------------------------------------------------------------
(* The operators on the table and the text.                                *)

\* Buckets exist for every address.
LEMMA HashRange ==
    ASSUME NEW a \in Addr \cup {0}
    PROVE  breakpoint_hash(a) \in Bucket
BY ConstantsAssumption DEF breakpoint_hash, Bucket

\* find_breakpoint returns NULL or a linked, live structure with the address.
LEMMA FindSound ==
    ASSUME NEW s \in Memory, SoundChains(s), NEW a \in Addr \cup {0},
           At(s, a) # {}
    PROVE  /\ First(At(s, a)) \in At(s, a)
           /\ find_breakpoint(s, a) \in Bp
           /\ s.heap[find_breakpoint(s, a)].live
           /\ s.heap[find_breakpoint(s, a)].address = a
<1> DEFINE h == breakpoint_hash(a)
<1>1. h \in Bucket
  BY HashRange
<1>2. PICK i \in At(s, a) : TRUE
  OBVIOUS
<1>3. Chain(s, a) \in Seq(Bp)
  BY <1>1 DEF Chain, Memory
<1>4. \A j \in At(s, a) : j = i
  BY <1>1, <1>2 DEF At, Chain, SoundChains
<1>5. i \in Nat
  BY <1>2, <1>3 DEF At
<1>6. First(At(s, a)) = i
  <2>1. \A j \in At(s, a) : i <= j
    BY <1>4, <1>5
  <2>2. First(At(s, a)) \in At(s, a)
    BY <1>2, <2>1, Zenon DEF First
  <2> QED
    BY <1>4, <2>2
<1>7. find_breakpoint(s, a) = Chain(s, a)[i]
  BY <1>6 DEF find_breakpoint
<1>8. Chain(s, a)[i] \in Bp /\ s.heap[Chain(s, a)[i]].address = a
  BY <1>2, <1>3 DEF At
<1>9. s.heap[Chain(s, a)[i]].live
  BY <1>1, <1>2 DEF At, Chain, SoundChains
<1> QED
  BY <1>2, <1>6, <1>7, <1>8, <1>9

\* The result of find_breakpoint is a pointer.
LEMMA FindType ==
    ASSUME NEW s \in Memory, SoundChains(s), NEW a \in Addr \cup {0}
    PROVE  find_breakpoint(s, a) \in Bp \cup {NULL}
BY FindSound DEF find_breakpoint

\* create_breakpoint keeps the table well formed.
LEMMA CreateSound ==
    ASSUME NEW s \in Memory, SoundChains(s), NEW a \in Addr,
           NEW new \in Alloc(s)
    PROVE  /\ create_breakpoint(s, a, new) \in Memory
           /\ SoundChains(create_breakpoint(s, a, new))
<1> DEFINE r == create_breakpoint(s, a, new)
           h == breakpoint_hash(a)
           c == s.breakpoints[h]
           bp == [live |-> TRUE, address |-> a, in_memory |-> FALSE,
                  saved |-> "insn", thread |-> NULL]
<1>1. CASE new = NULL \/ find_breakpoint(s, a) # NULL
  BY <1>1 DEF create_breakpoint
<1>2. CASE new # NULL /\ find_breakpoint(s, a) = NULL
  <2>1. new \in Bp /\ ~s.heap[new].live
    BY <1>2 DEF Alloc, Free
  <2>2. h \in Bucket /\ c \in Seq(Bp)
    BY HashRange DEF Memory
  <2>3. r = [s EXCEPT !.heap[new] = bp, !.breakpoints[h] = Append(c, new)]
    BY <1>2 DEF create_breakpoint
  <2>4. bp \in Breakpoint
    BY DEF Breakpoint, Byte
  <2>5. /\ r.heap = [s.heap EXCEPT ![new] = bp]
        /\ r.breakpoints = [s.breakpoints EXCEPT ![h] = Append(c, new)]
        /\ r.text = s.text
    BY <2>3 DEF Memory
  <2>6. r \in Memory
    <3>1. r.heap \in [Bp -> Breakpoint]
      BY <2>1, <2>4, <2>5 DEF Memory
    <3>2. Append(c, new) \in Seq(Bp)
      BY <2>1, <2>2
    <3>3. r.breakpoints \in [Bucket -> Seq(Bp)]
      BY <2>2, <2>5, <3>2 DEF Memory
    <3>4. r = [heap |-> r.heap, breakpoints |-> r.breakpoints, text |-> r.text]
      BY <2>3 DEF Memory
    <3> QED
      BY <2>5, <3>1, <3>3, <3>4 DEF Memory
  <2>7. At(s, a) = {}
    <3> SUFFICES ASSUME At(s, a) # {} PROVE FALSE
      OBVIOUS
    <3> QED
      BY <1>2, FindSound, ConstantsAssumption
  <2>8. ASSUME NEW g \in Bucket, NEW i \in DOMAIN s.breakpoints[g]
        PROVE  /\ s.breakpoints[g][i] \in Bp
               /\ s.breakpoints[g][i] # new
               /\ r.heap[s.breakpoints[g][i]] = s.heap[s.breakpoints[g][i]]
    <3>1. s.breakpoints[g] \in Seq(Bp)
      BY DEF Memory
    <3>2. s.breakpoints[g][i] \in Bp
      BY <3>1
    <3>3. s.heap[s.breakpoints[g][i]].live
      BY DEF SoundChains
    <3> QED
      BY <2>1, <2>5, <3>2, <3>3 DEF Memory
  <2>9. r.heap[new] = bp /\ bp.live /\ bp.address = a
    BY <2>1, <2>5 DEF Memory
  <2> HIDE DEF r, bp
  <2>10. ASSUME NEW g \in Bucket, g # h
         PROVE  r.breakpoints[g] = s.breakpoints[g]
    BY <2>5, <2>10 DEF Memory
  <2>11. /\ r.breakpoints[h] = Append(c, new)
         /\ DOMAIN Append(c, new) = 1 .. Len(c) + 1
         /\ DOMAIN c = 1 .. Len(c)
         /\ Len(c) \in Nat
         /\ \A i \in DOMAIN c : Append(c, new)[i] = c[i]
         /\ Append(c, new)[Len(c) + 1] = new
    BY <2>1, <2>2, <2>5 DEF Memory
  <2>12. \A i \in DOMAIN c : s.heap[c[i]].address # a
    BY <2>7 DEF At, Chain
  <2>13. ASSUME NEW g \in Bucket, NEW i \in DOMAIN r.breakpoints[g]
         PROVE  /\ r.heap[r.breakpoints[g][i]].live
                /\ breakpoint_hash(r.heap[r.breakpoints[g][i]].address) = g
                /\ \A j \in DOMAIN r.breakpoints[g] :
                      r.heap[r.breakpoints[g][j]].address =
                          r.heap[r.breakpoints[g][i]].address => i = j
    <3>1. CASE g # h
      BY <2>8, <2>10, <3>1 DEF SoundChains
    <3>2. CASE g = h
      <4>1. \A j \in DOMAIN c : r.heap[r.breakpoints[h][j]] = s.heap[c[j]]
        BY <2>2, <2>8, <2>11
      <4>2. r.heap[r.breakpoints[h][Len(c) + 1]] = bp
        BY <2>9, <2>11
      <4>3. DOMAIN r.breakpoints[h] = DOMAIN c \cup {Len(c) + 1}
        BY <2>11
      <4>4. CASE i \in DOMAIN c
        <5>1. /\ s.heap[c[i]].live
              /\ breakpoint_hash(s.heap[c[i]].address) = h
              /\ \A j \in DOMAIN c :
                    s.heap[c[j]].address = s.heap[c[i]].address => i = j
          BY <2>2, <4>4 DEF SoundChains
        <5>2. r.heap[r.breakpoints[g][i]] = s.heap[c[i]]
          BY <3>2, <4>1, <4>4
        <5>3. \A j \in DOMAIN r.breakpoints[g] :
                r.heap[r.breakpoints[g][j]].address = s.heap[c[i]].address
                    => i = j
          <6> SUFFICES ASSUME NEW j \in DOMAIN c \cup {Len(c) + 1},
                              r.heap[r.breakpoints[h][j]].address =
                                  s.heap[c[i]].address
                       PROVE  i = j
            BY <3>2, <4>3
          <6>1. CASE j \in DOMAIN c
            BY <4>1, <5>1, <6>1
          <6>2. CASE j = Len(c) + 1
            BY <2>9, <2>12, <4>2, <4>4, <6>2
          <6> QED
            BY <6>1, <6>2
        <5> QED
          BY <3>2, <5>1, <5>2, <5>3
      <4>5. CASE i = Len(c) + 1
        <5>1. r.heap[r.breakpoints[g][i]] = bp
          BY <3>2, <4>2, <4>5
        <5>2. \A j \in DOMAIN r.breakpoints[g] :
                r.heap[r.breakpoints[g][j]].address = a => i = j
          BY <2>12, <3>2, <4>1, <4>3, <4>5
        <5> QED
          BY <2>9, <3>2, <5>1, <5>2
      <4> QED
        BY <3>2, <4>3, <4>4, <4>5
    <3> QED
      BY <3>1, <3>2
  <2> QED
    BY <2>6, <2>13 DEF SoundChains, r
<1> QED
  BY <1>1, <1>2

\* Chains that are sound stay so when neither links, addresses nor the
\* allocation of structures change.
LEMMA FrameSound ==
    ASSUME NEW s \in Memory, SoundChains(s), NEW r \in Memory,
           r.breakpoints = s.breakpoints,
           \A b \in Bp : /\ r.heap[b].live = s.heap[b].live
                          /\ r.heap[b].address = s.heap[b].address
    PROVE  SoundChains(r)
<1> DEFINE c(h) == s.breakpoints[h]
<1>1. ASSUME NEW h \in Bucket, NEW i \in DOMAIN c(h)
      PROVE  /\ r.heap[c(h)[i]].live
             /\ breakpoint_hash(r.heap[c(h)[i]].address) = h
             /\ \A j \in DOMAIN c(h) :
                   r.heap[c(h)[j]].address = r.heap[c(h)[i]].address => i = j
  <2>1. \A j \in DOMAIN c(h) : c(h)[j] \in Bp
    BY DEF Memory
  <2>2. \A j \in DOMAIN c(h) : /\ r.heap[c(h)[j]].live = s.heap[c(h)[j]].live
                                /\ r.heap[c(h)[j]].address = s.heap[c(h)[j]].address
    BY <2>1, Zenon
  <2>3. /\ s.heap[c(h)[i]].live
        /\ breakpoint_hash(s.heap[c(h)[i]].address) = h
        /\ \A j \in DOMAIN c(h) :
              s.heap[c(h)[j]].address = s.heap[c(h)[i]].address => i = j
    BY Zenon DEF SoundChains
  <2> HIDE DEF c
  <2> QED
    BY <2>2, <2>3
<1>2. \A h \in Bucket : r.breakpoints[h] = c(h)
  OBVIOUS
<1> HIDE DEF c
<1> QED
  BY <1>1, <1>2 DEF SoundChains

\* install_breakpoint keeps the table well formed.
LEMMA InstallSound ==
    ASSUME NEW s \in Memory, SoundChains(s), NEW b \in Bp
    PROVE  /\ install_breakpoint(s, b) \in Memory
           /\ SoundChains(install_breakpoint(s, b))
<1> DEFINE a == s.heap[b].address
           r == install_breakpoint(s, b)
           bp == [s.heap[b] EXCEPT !.saved = s.text[a], !.in_memory = TRUE]
<1>1. CASE s.heap[b].in_memory \/ a \notin Mapped
  BY <1>1 DEF install_breakpoint
<1>2. CASE ~(s.heap[b].in_memory \/ a \notin Mapped)
  <2>1. s.heap[b] \in Breakpoint /\ a \in Addr
    BY DEF Memory, Breakpoint
  <2>2. s.text[a] \in Byte
    BY <2>1 DEF Memory, Byte
  <2>3. bp \in Breakpoint /\ bp.live = s.heap[b].live /\ bp.address = a
    BY <2>1, <2>2 DEF Breakpoint
  <2>4. /\ r.heap = [s.heap EXCEPT ![b] = bp]
        /\ r.breakpoints = s.breakpoints
        /\ r.text = [s.text EXCEPT ![a] = "int3"]
        /\ r = [heap |-> r.heap, breakpoints |-> r.breakpoints,
                text |-> r.text]
    BY <1>2 DEF install_breakpoint, Memory
  <2> HIDE DEF bp, r
  <2>5. r \in Memory
    BY <2>1, <2>3, <2>4 DEF Memory, Byte
  <2>6. \A d \in Bp : /\ r.heap[d].live = s.heap[d].live
                       /\ r.heap[d].address = s.heap[d].address
    BY <2>3, <2>4 DEF Memory
  <2>7. SoundChains(r)
    BY <2>4, <2>5, <2>6, FrameSound
  <2> QED
    BY <2>5, <2>7 DEF r
<1> QED
  BY <1>1, <1>2

\* So does taking a breakpoint out of the text to step over it.
LEMMA RemoveForContinueSound ==
    ASSUME NEW s \in Memory, SoundChains(s), NEW b \in Bp
    PROVE  /\ remove_breakpoint_for_continue(s, b) \in Memory
           /\ SoundChains(remove_breakpoint_for_continue(s, b))
           /\ remove_breakpoint_for_continue(s, b).heap = s.heap
           /\ remove_breakpoint_for_continue(s, b).breakpoints = s.breakpoints
<1>1. s.heap[b] \in Breakpoint
  BY DEF Memory
<1>2. s.heap[b].address \in Addr /\ s.heap[b].saved \in Byte
  BY <1>1 DEF Breakpoint
<1>3. /\ remove_breakpoint_for_continue(s, b) \in Memory
      /\ remove_breakpoint_for_continue(s, b).heap = s.heap
      /\ remove_breakpoint_for_continue(s, b).breakpoints = s.breakpoints
  BY <1>2 DEF remove_breakpoint_for_continue, Memory
<1> QED
  BY <1>3, FrameSound

\* Clearing in_memory keeps the table well formed.
LEMMA FlagSound ==
    ASSUME NEW q \in Memory, SoundChains(q), NEW b \in Bp
    PROVE  /\ [q EXCEPT !.heap[b].in_memory = FALSE] \in Memory
           /\ SoundChains([q EXCEPT !.heap[b].in_memory = FALSE])
           /\ [q EXCEPT !.heap[b].in_memory = FALSE].breakpoints = q.breakpoints
           /\ \A d \in Bp : [q EXCEPT !.heap[b].in_memory = FALSE].heap[d].address
                               = q.heap[d].address
<1> DEFINE r == [q EXCEPT !.heap[b].in_memory = FALSE]
           bp == [q.heap[b] EXCEPT !.in_memory = FALSE]
<1>0. r = [q EXCEPT !.heap[b].in_memory = FALSE]
  OBVIOUS
<1> HIDE DEF r
<1>1. q.heap[b] \in Breakpoint
  BY DEF Memory
<1>2. bp \in Breakpoint /\ bp.live = q.heap[b].live
                        /\ bp.address = q.heap[b].address
  BY <1>1 DEF Breakpoint
<1>3. /\ r.heap = [q.heap EXCEPT ![b] = bp]
      /\ r.breakpoints = q.breakpoints
      /\ r.text = q.text
      /\ r = [heap |-> r.heap, breakpoints |-> r.breakpoints, text |-> r.text]
  BY <1>0 DEF Memory
<1> HIDE DEF bp
<1>4. r \in Memory
  BY <1>2, <1>3 DEF Memory
<1>5. \A d \in Bp : /\ r.heap[d].live = q.heap[d].live
                     /\ r.heap[d].address = q.heap[d].address
  BY <1>2, <1>3 DEF Memory
<1>6. SoundChains(r)
  BY <1>3, <1>4, <1>5, FrameSound
<1> QED
  BY <1>3, <1>4, <1>5, <1>6 DEF r

\* So does setting the thread of a breakpoint.
LEMMA OwnerSound ==
    ASSUME NEW q \in Memory, SoundChains(q), NEW b \in Bp, NEW t \in Thread
    PROVE  /\ [q EXCEPT !.heap[b].thread = t] \in Memory
           /\ SoundChains([q EXCEPT !.heap[b].thread = t])
           /\ [q EXCEPT !.heap[b].thread = t].breakpoints = q.breakpoints
           /\ \A d \in Bp : [q EXCEPT !.heap[b].thread = t].heap[d].address
                               = q.heap[d].address
<1> DEFINE r == [q EXCEPT !.heap[b].thread = t]
           bp == [q.heap[b] EXCEPT !.thread = t]
<1>0. r = [q EXCEPT !.heap[b].thread = t]
  OBVIOUS
<1> HIDE DEF r
<1>1. q.heap[b] \in Breakpoint
  BY DEF Memory
<1>2. bp \in Breakpoint /\ bp.live = q.heap[b].live
                        /\ bp.address = q.heap[b].address
  BY <1>1 DEF Breakpoint
<1>3. /\ r.heap = [q.heap EXCEPT ![b] = bp]
      /\ r.breakpoints = q.breakpoints
      /\ r.text = q.text
      /\ r = [heap |-> r.heap, breakpoints |-> r.breakpoints, text |-> r.text]
  BY <1>0 DEF Memory
<1> HIDE DEF bp
<1>4. r \in Memory
  BY <1>2, <1>3 DEF Memory
<1>5. \A d \in Bp : /\ r.heap[d].live = q.heap[d].live
                     /\ r.heap[d].address = q.heap[d].address
  BY <1>2, <1>3 DEF Memory
<1>6. SoundChains(r)
  BY <1>3, <1>4, <1>5, FrameSound
<1> QED
  BY <1>3, <1>4, <1>5, <1>6 DEF r

\* And remove_breakpoint.
LEMMA RemoveSound ==
    ASSUME NEW s \in Memory, SoundChains(s), NEW b \in Bp
    PROVE  /\ remove_breakpoint(s, b) \in Memory
           /\ SoundChains(remove_breakpoint(s, b))
           /\ remove_breakpoint(s, b).breakpoints = s.breakpoints
           /\ \A d \in Bp : remove_breakpoint(s, b).heap[d].address =
                               s.heap[d].address
BY RemoveForContinueSound, FlagSound DEF remove_breakpoint

\* And the re-installation of the breakpoint that was stepped over.
LEMMA ReinstallSound ==
    ASSUME NEW s \in Memory, SoundChains(s), NEW a \in Addr \cup {0}
    PROVE  reinstall(s, a) \in Memory /\ SoundChains(reinstall(s, a))
BY FindType, FlagSound, InstallSound DEF reinstall

\* A sequence without one of its elements.
LEMMA WithoutOne ==
    ASSUME NEW c \in Seq(Bp), NEW i \in DOMAIN c
    PROVE  /\ Without(c, i) \in Seq(Bp)
           /\ DOMAIN Without(c, i) = 1 .. Len(c) - 1
           /\ \A k \in DOMAIN Without(c, i) :
                 Without(c, i)[k] = c[IF k < i THEN k ELSE k + 1]
<1> DEFINE d == Without(c, i)
<1>1. i \in 1 .. Len(c) /\ Len(c) \in Nat
  OBVIOUS
<1> DEFINE l == SubSeq(c, 1, i - 1)
           u == SubSeq(c, i + 1, Len(c))
<1>2. l \in Seq(Bp) /\ Len(l) = i - 1 /\ \A k \in 1 .. i - 1 : l[k] = c[k]
  BY <1>1
<1>3. u \in Seq(Bp) /\ Len(u) = Len(c) - i
        /\ \A k \in 1 .. Len(c) - i : u[k] = c[i + k]
  BY <1>1
<1> HIDE DEF l, u
<1>4. d = l \o u
  BY DEF l, u, Without
<1> HIDE DEF d
<1>5. /\ d \in Seq(Bp) /\ Len(d) = Len(l) + Len(u)
      /\ \A k \in 1 .. Len(l) + Len(u) :
            d[k] = IF k <= Len(l) THEN l[k] ELSE u[k - Len(l)]
  <2>1. l \in Seq(Bp) /\ u \in Seq(Bp)
    BY <1>2, <1>3
  <2>2. /\ l \o u \in Seq(Bp) /\ Len(l \o u) = Len(l) + Len(u)
        /\ \A k \in 1 .. Len(l) + Len(u) :
              (l \o u)[k] = IF k <= Len(l) THEN l[k] ELSE u[k - Len(l)]
    BY <2>1, ConcatProperties, Zenon
  <2> QED
    BY <1>4, <2>2, Zenon
<1>6. Len(l) = i - 1 /\ Len(l) + Len(u) = Len(c) - 1
  BY <1>1, <1>2, <1>3
<1>7. DOMAIN d = 1 .. Len(c) - 1
  BY <1>5, <1>6
<1>8. ASSUME NEW k \in 1 .. Len(c) - 1
      PROVE  d[k] = c[IF k < i THEN k ELSE k + 1]
  <2>1. CASE k < i
    BY <1>1, <1>2, <1>5, <1>6, <2>1
  <2>2. CASE ~(k < i)
    <3>1. d[k] = u[k - (i - 1)]
      <4>1. k \in 1 .. Len(l) + Len(u) /\ ~(k <= Len(l))
        BY <1>1, <1>6, <2>2
      <4>2. d[k] = u[k - Len(l)]
        BY <1>5, <4>1, Zenon
      <4> QED
        BY <1>6, <4>2
    <3>2. k - (i - 1) \in 1 .. Len(c) - i
      BY <1>1, <2>2
    <3>3. u[k - (i - 1)] = c[i + (k - (i - 1))]
      BY <1>3, <3>2
    <3>4. i + (k - (i - 1)) = k + 1
      BY <1>1
    <3> QED
      BY <2>2, <3>1, <3>3, <3>4
  <2> QED
    BY <2>1, <2>2
<1> QED
  BY <1>5, <1>7, <1>8 DEF d

\* delete_breakpoint keeps the table well formed, whichever structure it
\* unlinks.
LEMMA DeleteSound ==
    ASSUME NEW s \in Memory, SoundChains(s), NEW b \in Bp
    PROVE  /\ delete_breakpoint(s, b) \in Memory
           /\ SoundChains(delete_breakpoint(s, b))
<1> DEFINE r  == remove_breakpoint(s, b)
           a  == s.heap[b].address
           h  == breakpoint_hash(a)
           c  == Chain(r, a)
           i  == First(At(r, a))
           nc == IF i = 1 THEN <<>>
                 ELSE Without(c, i)
           e  == delete_breakpoint(s, b)
<1>1. r \in Memory /\ SoundChains(r)
  BY RemoveSound
<1>2. a \in Addr /\ h \in Bucket
  <2>1. s.heap[b] \in Breakpoint
    BY DEF Memory
  <2> QED
    BY <2>1, HashRange DEF Breakpoint
<1>3. CASE At(r, a) = {}
  <2>1. e = r
    BY <1>3 DEF delete_breakpoint
  <2> QED
    BY <1>1, <2>1
<1>4. CASE At(r, a) # {}
  <2>1. e = [r EXCEPT !.heap[c[i]] = Unallocated, !.breakpoints[h] = nc]
    BY <1>4 DEF delete_breakpoint
  <2> HIDE DEF r, a, e
  <2>2. c = r.breakpoints[h] /\ c \in Seq(Bp)
    BY <1>1, <1>2 DEF Chain, Memory
  <2>3. i \in DOMAIN c
    <3>1. i \in At(r, a)
      BY <1>1, <1>2, <1>4, FindSound
    <3> QED
      BY <3>1 DEF At
  <2> HIDE DEF c, i, h
  <2>4. c[i] \in Bp /\ DOMAIN c = 1 .. Len(c) /\ Len(c) \in Nat
    BY <2>2, <2>3
  <2>5. \A j, k \in DOMAIN c :
          r.heap[c[j]].address = r.heap[c[k]].address => j = k
    BY <1>1, <1>2, <2>2 DEF SoundChains
  <2>6. /\ nc \in Seq(Bp)
        /\ \A k \in DOMAIN nc : /\ (IF k < i THEN k ELSE k + 1) \in DOMAIN c
                                 /\ nc[k] = c[IF k < i THEN k ELSE k + 1]
                                 /\ k \in Int
    <3>1. CASE i = 1
      <4>1. nc = <<>> /\ DOMAIN nc = {}
        BY <3>1
      <4> QED
        BY <4>1, EmptySeq
    <3>2. CASE i # 1
      <4>1. nc = Without(c, i)
        BY <3>2
      <4> HIDE DEF nc
      <4>2. /\ nc \in Seq(Bp)
            /\ DOMAIN nc = 1 .. Len(c) - 1
            /\ \A k \in DOMAIN nc : nc[k] = c[IF k < i THEN k ELSE k + 1]
        BY <2>2, <2>3, <4>1, WithoutOne
      <4> QED
        BY <2>3, <2>4, <4>2
    <3> QED
      BY <3>1, <3>2
  <2> HIDE DEF nc
  <2>7. Unallocated \in Breakpoint
    BY ConstantsAssumption DEF Unallocated, Breakpoint, Byte
  <2>8. /\ e.heap = [r.heap EXCEPT ![c[i]] = Unallocated]
        /\ e.breakpoints = [r.breakpoints EXCEPT ![h] = nc]
        /\ e.text = r.text
        /\ e = [heap |-> e.heap, breakpoints |-> e.breakpoints,
                text |-> e.text]
    BY <1>1, <2>1 DEF Memory
  <2>9. e \in Memory
    <3>1. e.heap \in [Bp -> Breakpoint]
      BY <1>1, <2>4, <2>7, <2>8 DEF Memory
    <3>2. e.breakpoints \in [Bucket -> Seq(Bp)]
      BY <1>1, <1>2, <2>6, <2>8 DEF Memory
    <3> QED
      BY <1>1, <2>8, <3>1, <3>2 DEF Memory
  <2>10. \A d \in Bp : d # c[i] => e.heap[d] = r.heap[d]
    BY <1>1, <2>8 DEF Memory
  <2>11. ASSUME NEW g \in Bucket, NEW k \in DOMAIN e.breakpoints[g]
         PROVE  /\ e.heap[e.breakpoints[g][k]].live
                /\ breakpoint_hash(e.heap[e.breakpoints[g][k]].address) = g
                /\ \A j \in DOMAIN e.breakpoints[g] :
                      e.heap[e.breakpoints[g][j]].address =
                          e.heap[e.breakpoints[g][k]].address => k = j
    <3>1. CASE g # h
      <4>1. e.breakpoints[g] = r.breakpoints[g]
        BY <1>1, <2>8, <3>1 DEF Memory
      <4>2. ASSUME NEW j \in DOMAIN r.breakpoints[g]
            PROVE  e.heap[r.breakpoints[g][j]] = r.heap[r.breakpoints[g][j]]
        <5>1. r.breakpoints[g][j] \in Bp
          BY <1>1 DEF Memory
        <5>2. breakpoint_hash(r.heap[r.breakpoints[g][j]].address) = g
          BY <1>1 DEF SoundChains
        <5>3. breakpoint_hash(r.heap[c[i]].address) = h
          BY <1>1, <1>2, <2>2, <2>3 DEF SoundChains
        <5> QED
          BY <2>10, <3>1, <5>1, <5>2, <5>3
      <4>3. /\ r.heap[r.breakpoints[g][k]].live
            /\ breakpoint_hash(r.heap[r.breakpoints[g][k]].address) = g
            /\ \A j \in DOMAIN r.breakpoints[g] :
                  r.heap[r.breakpoints[g][j]].address =
                      r.heap[r.breakpoints[g][k]].address => k = j
        BY <1>1, <4>1 DEF SoundChains
      <4> QED
        BY <4>1, <4>2, <4>3
    <3>2. CASE g = h
      <4> DEFINE f(n) == IF n < i THEN n ELSE n + 1
      <4>1. e.breakpoints[g] = nc
        BY <1>1, <1>2, <2>8, <3>2 DEF Memory
      <4>2. ASSUME NEW n \in DOMAIN nc
            PROVE  /\ f(n) \in DOMAIN c /\ nc[n] = c[f(n)] /\ f(n) # i
                   /\ e.heap[nc[n]] = r.heap[c[f(n)]]
        <5>1. f(n) \in DOMAIN c /\ nc[n] = c[f(n)] /\ n \in Int
          BY <2>6
        <5>2. f(n) # i
          BY <2>3, <2>4, <5>1
        <5>3. c[f(n)] \in Bp
          BY <2>2, <5>1
        <5>4. c[f(n)] # c[i]
          BY <2>3, <2>5, <5>1, <5>2
        <5> QED
          BY <2>10, <5>1, <5>2, <5>3, <5>4
      <4>3. /\ r.heap[c[f(k)]].live
            /\ breakpoint_hash(r.heap[c[f(k)]].address) = h
        BY <1>1, <1>2, <2>2, <4>1, <4>2 DEF SoundChains
      <4>4. ASSUME NEW j \in DOMAIN nc,
                   e.heap[nc[j]].address = e.heap[nc[k]].address
            PROVE  k = j
        <5>1. f(j) = f(k)
          BY <2>5, <4>1, <4>2, <4>4
        <5>2. j \in Int /\ k \in Int /\ i \in Int
          BY <2>3, <2>4, <2>6, <4>1
        <5> QED
          BY <5>1, <5>2
      <4>5. e.heap[nc[k]] = r.heap[c[f(k)]]
        BY <4>1, <4>2
      <4> HIDE DEF f
      <4> QED
        BY <3>2, <4>1, <4>3, <4>4, <4>5
    <3> QED
      BY <3>1, <3>2
  <2>12. SoundChains(e)
    BY <2>11 DEF SoundChains
  <2> QED
    BY <2>9, <2>12 DEF e
<1> QED
  BY <1>3, <1>4

\* An address a breakpoint was created at is found, and the text is as it was.
LEMMA CreateFound ==
    ASSUME NEW s \in Memory, SoundChains(s), NEW a \in Addr,
           NEW new \in Alloc(s), new # NULL
    PROVE  /\ find_breakpoint(create_breakpoint(s, a, new), a) # NULL
           /\ create_breakpoint(s, a, new).text = s.text
<1> DEFINE r == create_breakpoint(s, a, new)
           h == breakpoint_hash(a)
<1>1. CASE find_breakpoint(s, a) # NULL
  BY <1>1 DEF create_breakpoint
<1>2. CASE find_breakpoint(s, a) = NULL
  <2>1. h \in Bucket
    BY HashRange
  <2>2. new \in Bp
    BY DEF Alloc, Free
  <2>3. r = [s EXCEPT !.heap[new] = [live |-> TRUE, address |-> a,
                                     in_memory |-> FALSE, saved |-> "insn",
                                     thread |-> NULL],
                      !.breakpoints[h] = Append(@, new)]
    BY <1>2 DEF create_breakpoint
  <2>4. r \in Memory /\ SoundChains(r)
    BY CreateSound
  <2> HIDE DEF r, h
  <2>5. /\ r.heap[new].address = a
        /\ r.breakpoints[h] = Append(s.breakpoints[h], new)
        /\ r.text = s.text
    BY <2>1, <2>2, <2>3 DEF Memory
  <2>6. s.breakpoints[h] \in Seq(Bp)
    BY <2>1 DEF Memory
  <2>7. LET n == Len(s.breakpoints[h]) + 1
        IN  n \in DOMAIN r.breakpoints[h] /\ r.breakpoints[h][n] = new
    BY <2>2, <2>5, <2>6
  <2>8. Len(s.breakpoints[h]) + 1 \in At(r, a)
    BY <2>5, <2>7 DEF At, Chain, h
  <2>9. find_breakpoint(r, a) \in Bp
    BY <2>4, <2>8, FindSound
  <2> QED
    BY <2>5, <2>9, ConstantsAssumption DEF r
<1> QED
  BY <1>1, <1>2

-----------------------------------------------------------------------------
(* The steps of the system.                                                *)

\* The invariant: types, and a well formed table.
Inv == TypeOK /\ TableSound

\* What it says of the variables every handler run ends by setting in Finish.
FinishedInv ==
    /\ m \in Memory
    /\ SoundChains(m)
    /\ single_step \in [Thread -> BOOLEAN]
    /\ single_step_bp \in [Thread -> Bp \cup {NULL}]
    /\ pc \in [Thread -> Insn]
    /\ next \in [Thread -> Insn]
    /\ pending \in [Thread -> {"none", "trap", "signal"}]
    /\ control \in Thread \cup {NULL}
    /\ mode \in {"run", "enter", "stopped", "step", "killed", "undefined",
                 "aborted"}
    /\ events \in Seq(Event)
    /\ user \subseteq UserAddr
    /\ installed \subseteq UserAddr

\* The successor of an instruction is an address, or 0.
LEMMA SuccessorType ==
    ASSUME TypeOK, NEW t \in Thread, NEW s
    PROVE  get_ctf_successor(s, t) \in Addr \cup {0}
BY ConstantsAssumption DEF TypeOK, get_ctf_successor

\* The end of a handler run preserves the invariant, from any memory s the
\* decoding of the signal may have left.
LEMMA FinishSound ==
    ASSUME TypeOK, NEW t \in Thread, NEW s \in Memory, SoundChains(s),
           NEW sbp \in Bp \cup {NULL}, NEW failed \in BOOLEAN,
           NEW evts \in Seq(Event), NEW wait \in BOOLEAN, NEW new,
           new \in Bp \cup {NULL},
           \/ new \in Alloc(s)
           \/ find_breakpoint(s, get_ctf_successor(s, t)) # NULL,
           Finish(t, s, sbp, failed, evts, wait, new)
    PROVE  FinishedInv'
<1> DEFINE succ  == get_ctf_successor(s, t)
           place == /\ single_step[t]
                    /\ succ # 0
                    /\ find_breakpoint(s, succ) = NULL
<1>1. succ \in Addr \cup {0}
  BY SuccessorType
<1>2. m' \in Memory /\ SoundChains(m')
  <2>1. CASE place /\ new # NULL
    <3>1. m' = install_breakpoint([create_breakpoint(s, succ, new)
                                     EXCEPT !.heap[new].thread = t], new)
      BY <2>1 DEF Finish
    <3>2. new \in Alloc(s) /\ new \in Bp /\ succ \in Addr
      BY <1>1, <2>1
    <3> HIDE DEF succ
    <3>3. /\ create_breakpoint(s, succ, new) \in Memory
          /\ SoundChains(create_breakpoint(s, succ, new))
      BY <3>2, CreateSound
    <3> DEFINE q == create_breakpoint(s, succ, new)
               o == [q EXCEPT !.heap[new].thread = t]
    <3> HIDE DEF q
    <3>4. o \in Memory /\ SoundChains(o)
      BY <3>2, <3>3, OwnerSound DEF q
    <3>5. m' = install_breakpoint(o, new)
      BY <3>1 DEF q
    <3> HIDE DEF o
    <3> QED
      BY <3>2, <3>4, <3>5, InstallSound
  <2>2. CASE ~(place /\ new # NULL)
    <3>1. m' = s
      BY <2>2 DEF Finish
    <3> QED
      BY <3>1
  <2> QED
    BY <2>1, <2>2
<1>3. single_step_bp' \in [Thread -> Bp \cup {NULL}]
  BY DEF Finish, TypeOK
<1>4. events' \in Seq(Event)
  <2>1. [type |-> "error", thr |-> t, addr |-> pc[t]] \in Event
    BY ConstantsAssumption DEF TypeOK, Event
  <2>2. Append(evts, [type |-> "error", thr |-> t, addr |-> pc[t]])
            \in Seq(Event)
    BY <2>1
  <2>3. events' \in {evts, Append(evts, [type |-> "error", thr |-> t,
                                         addr |-> pc[t]])}
    BY DEF Finish
  <2> QED
    BY <2>2, <2>3
<1>5. pending' \in [Thread -> {"none", "trap", "signal"}]
  BY DEF Finish, TypeOK
<1>6. mode' \in {"stopped", "step", "enter", "run"} /\ control' \in Thread \cup {NULL}
  BY DEF Finish, Leave
<1>7. UNCHANGED <<single_step, pc, next, user, installed>>
  BY DEF Finish
<1> QED
  BY <1>2, <1>3, <1>4, <1>5, <1>6, <1>7 DEF FinishedInv, TypeOK

\* The process starts with the invariant.
LEMMA InitInv == Init => Inv
<1> SUFFICES ASSUME Init PROVE Inv
  OBVIOUS
<1> DEFINE h == breakpoint_hash(ExitAddr)
<1>1. h \in Bucket
  BY HashRange, ConstantsAssumption
<1> DEFINE x == [Unallocated EXCEPT !.live = TRUE, !.in_memory = TRUE]
<1>2. /\ m.heap = [b \in Bp |-> IF b = exit_bp THEN x ELSE Unallocated]
      /\ m.breakpoints = [g \in Bucket |-> IF g = h THEN <<exit_bp>> ELSE <<>>]
      /\ m.text = [a \in Addr |-> IF a = ExitAddr THEN "int3" ELSE "insn"]
      /\ m = [heap |-> m.heap, breakpoints |-> m.breakpoints, text |-> m.text]
  BY DEF Init
<1>3. /\ x \in Breakpoint /\ x.live /\ x.address = ExitAddr
      /\ Unallocated \in Breakpoint
  BY ConstantsAssumption DEF Unallocated, Breakpoint, Byte
<1> HIDE DEF h, x
<1>4. \A g \in Bucket : /\ g = h => m.breakpoints[g] = <<exit_bp>>
                        /\ g # h => m.breakpoints[g] = <<>>
  BY <1>2
<1>5. m \in Memory
  <2>1. m.heap \in [Bp -> Breakpoint]
    BY <1>2, <1>3
  <2>2. m.breakpoints \in [Bucket -> Seq(Bp)]
    <3>1. <<exit_bp>> \in Seq(Bp) /\ <<>> \in Seq(Bp)
      BY ConstantsAssumption
    <3>2. \A g \in Bucket : m.breakpoints[g] \in Seq(Bp)
      BY <1>4, <3>1, Zenon
    <3> DEFINE f == [g \in Bucket |-> IF g = h THEN <<exit_bp>> ELSE <<>>]
    <3>3. m.breakpoints = f /\ f = [g \in Bucket |-> f[g]]
      BY <1>2, Zenon
    <3> HIDE DEF f
    <3> QED
      BY <3>2, <3>3
  <2>3. m.text \in [Addr -> Byte]
    BY <1>2 DEF Byte
  <2> QED
    BY <1>2, <2>1, <2>2, <2>3 DEF Memory
<1>6. TableSound
  <2>1. ASSUME NEW g \in Bucket, NEW i \in DOMAIN m.breakpoints[g]
        PROVE  g = h /\ i = 1 /\ m.breakpoints[g][i] = exit_bp
    <3>1. g = h
      <4> SUFFICES ASSUME g # h PROVE FALSE
        OBVIOUS
      <4>1. m.breakpoints[g] = <<>>
        BY <1>4
      <4>2. i \in DOMAIN <<>>
        BY <4>1, Zenon
      <4> QED
        BY <4>2
    <3>2. m.breakpoints[g] = <<exit_bp>>
      BY <1>4, <3>1
    <3>3. i \in DOMAIN <<exit_bp>>
      BY <3>2, Zenon
    <3> QED
      BY <3>1, <3>2, <3>3
  <2>2. m.heap[exit_bp] = x
    BY <1>2, ConstantsAssumption
  <2> QED
    BY <1>3, <2>1, <2>2 DEF TableSound, SoundChains, h
<1>7. next \in [Thread -> Insn]
  BY ConstantsAssumption DEF Init
<1>8. events \in Seq(Event)
  <2>1. events = <<>> /\ <<>> \in Seq(Event)
    BY DEF Init
  <2> QED
    BY <2>1, Zenon
<1> QED
  BY <1>5, <1>6, <1>7, <1>8, ConstantsAssumption DEF Init, Inv, TypeOK

\* Every step of a thread preserves the invariant.
LEMMA StepInv ==
    ASSUME Inv, NEW t \in Thread, Step(t)
    PROVE  Inv'
<1>1. TypeOK /\ SoundChains(m) /\ m \in Memory
  BY DEF Inv, TypeOK, TableSound
<1>2. pc[t] \in Insn /\ pc[t] \in Addr /\ next[t] \in Insn
  BY <1>1, ConstantsAssumption DEF TypeOK
<1>3. \A s : Alloc(s) \subseteq Bp \cup {NULL}
  BY DEF Alloc, Free
<1>4. \A ty \in {"breakpoint", "single_step", "exit", "unknown"} :
        <<[type |-> ty, thr |-> t, addr |-> pc[t]]>> \in Seq(Event)
  <2>1. ASSUME NEW ty \in {"breakpoint", "single_step", "exit", "unknown"}
        PROVE  [type |-> ty, thr |-> t, addr |-> pc[t]] \in Event
    BY <1>2 DEF Event
  <2> QED
    BY <2>1
<1>5. << >> \in Seq(Event)
  OBVIOUS
<1>6. find_breakpoint(m, pc[t]) \in Bp \cup {NULL}
  BY <1>1, <1>2, FindType
<1>7. ASSUME FinishedInv', continue_bp' \in Bp \cup {NULL},
             last_bp_address' \in Addr \cup {0}
      PROVE  Inv'
  BY <1>7 DEF FinishedInv, Inv, TypeOK, TableSound
<1>8. ASSUME Run(t) PROVE Inv'
  <2>1. UNCHANGED <<m, continue_bp, last_bp_address, single_step,
                    single_step_bp, pending, control, mode, events, user,
                    installed>>
    BY <1>8 DEF Run
  <2>2. pc' \in [Thread -> Insn]
    BY <1>1, <1>2, <1>8 DEF Run, TypeOK
  <2>3. next' \in [Thread -> Insn]
    BY <1>1, <1>2, <1>8, ConstantsAssumption DEF Run, TypeOK
  <2> QED
    BY <2>1, <2>2, <2>3 DEF Inv, TypeOK, TableSound
<1>9. ASSUME RunTorn(t) \/ UnknownTrap(t) PROVE Inv'
  BY <1>9 DEF RunTorn, UnknownTrap, Inv, TypeOK, TableSound, threadVars
<1>10. ASSUME Deliver(t) PROVE Inv'
  BY <1>10 DEF Deliver, Inv, TypeOK, TableSound
<1>11. ASSUME HandleSignal(t) PROVE Inv'
  <2>1. PICK new \in Alloc(m) :
           Finish(t, m, single_step_bp[t], FALSE,
                  <<[type |-> "unknown", thr |-> t, addr |-> pc[t]]>>, TRUE, new)
    BY <1>11 DEF HandleSignal
  <2>2. FinishedInv'
    <3> DEFINE sbp == single_step_bp[t]
               evts == <<[type |-> "unknown", thr |-> t, addr |-> pc[t]]>>
    <3>1. sbp \in Bp \cup {NULL} /\ evts \in Seq(Event)
            /\ new \in Bp \cup {NULL}
      BY <1>1, <1>3, <1>4 DEF TypeOK
    <3>2. Finish(t, m, sbp, FALSE, evts, TRUE, new)
      BY <2>1
    <3> HIDE DEF sbp, evts
    <3> QED
      BY <1>1, <3>1, <3>2, FinishSound
  <2> QED
    BY <1>7, <1>11, <2>2 DEF HandleSignal, Inv, TypeOK
<1>12. ASSUME SingleStepHit(t) PROVE Inv'
  <2> DEFINE evts == <<[type |-> "single_step", thr |-> t, addr |-> pc[t]]>>
             b == find_breakpoint(m, pc[t])
  <2>1. PICK s \in {delete_breakpoint(m, b)} : \E new \in Alloc(s) :
           Finish(t, s, NULL, FALSE, evts, TRUE, new)
    BY <1>12 DEF SingleStepHit
  <2>2. PICK new \in Alloc(s) : Finish(t, s, NULL, FALSE, evts, TRUE, new)
    BY <2>1
  <2>3. b \in Bp
    BY <1>6, <1>12 DEF SingleStepHit
  <2> HIDE DEF b
  <2>4. s \in Memory /\ SoundChains(s)
    BY <1>1, <2>1, <2>3, DeleteSound
  <2>5. evts \in Seq(Event) /\ new \in Bp \cup {NULL}
    BY <1>3, <1>4
  <2> HIDE DEF evts
  <2>6. FinishedInv'
    BY <1>1, <2>2, <2>4, <2>5, FinishSound
  <2> QED
    BY <1>7, <1>12, <2>6 DEF SingleStepHit, Inv, TypeOK
<1>13. ASSUME ContinueHit(t) PROVE Inv'
  <2> DEFINE evts == IF single_step[t]
                     THEN <<[type |-> "single_step", thr |-> t,
                             addr |-> pc[t]]>>
                     ELSE <<>>
             b == find_breakpoint(m, pc[t])
             out == remove_breakpoint_for_continue(m, b)
             wait == single_step[t]
             sbp == single_step_bp[t]
  <2>1. PICK s \in {delete_breakpoint(out, b)} :
           \E back \in {reinstall(s, last_bp_address)} :
           \E new \in Alloc(back) :
              /\ last_bp_address' \in {0, last_bp_address}
              /\ Finish(t, back, sbp, FALSE, evts, wait, new)
    BY <1>13 DEF ContinueHit
  <2>2. PICK back \in {reinstall(s, last_bp_address)} :
           \E new \in Alloc(back) :
              /\ last_bp_address' \in {0, last_bp_address}
              /\ Finish(t, back, sbp, FALSE, evts, wait, new)
    BY <2>1
  <2>3. PICK new \in Alloc(back) :
              /\ last_bp_address' \in {0, last_bp_address}
              /\ Finish(t, back, sbp, FALSE, evts, wait, new)
    BY <2>2
  <2>4. b \in Bp
    BY <1>6, <1>13 DEF ContinueHit
  <2> HIDE DEF b
  <2>5. out \in Memory /\ SoundChains(out)
    BY <1>1, <2>4, RemoveForContinueSound
  <2> HIDE DEF out
  <2>6. s \in Memory /\ SoundChains(s)
    BY <2>1, <2>4, <2>5, DeleteSound
  <2>7. last_bp_address \in Addr \cup {0}
    BY <1>1 DEF TypeOK
  <2>8. back \in Memory /\ SoundChains(back)
    BY <2>2, <2>6, <2>7, ReinstallSound
  <2>9. evts \in Seq(Event) /\ new \in Bp \cup {NULL} /\ wait \in BOOLEAN
          /\ sbp \in Bp \cup {NULL}
    BY <1>1, <1>3, <1>4, <1>5 DEF TypeOK
  <2> HIDE DEF evts, wait, sbp
  <2>10. FinishedInv'
    BY <1>1, <2>3, <2>8, <2>9, FinishSound
  <2>11. continue_bp' = NULL /\ last_bp_address' \in Addr \cup {0}
    BY <1>13, <2>3, <2>7 DEF ContinueHit
  <2> QED
    BY <1>7, <2>10, <2>11
<1>14. ASSUME BreakpointHit(t) PROVE Inv'
  <2> DEFINE b == find_breakpoint(m, pc[t])
             foreign == hits_foreign(b, t) /\ ~is_event_breakpoint(b)
             report == [type |-> IF is_event_breakpoint(b) THEN "exit"
                                 ELSE "breakpoint",
                        thr |-> t, addr |-> pc[t]]
             evts == IF foreign THEN <<>> ELSE <<report>>
             sbp == single_step_bp[t]
             Failed(s, new) == Finish(t, s, sbp, TRUE, <<>>, TRUE, new)
             Hit(s, succ, new) ==
                Finish(t, create_breakpoint(s, succ, new), sbp, foreign, evts,
                       ~foreign, new)
  <2>1. PICK s \in {remove_breakpoint_for_continue(m, b)} :
        \E succ \in {get_ctf_successor(s, t)}, new \in Alloc(s) :
           \/ /\ UNCHANGED <<continue_bp, last_bp_address>>
              /\ Failed(s, new)
           \/ /\ continue_bp' = NULL
              /\ UNCHANGED last_bp_address
              /\ Failed(s, new)
           \/ /\ succ # 0
              /\ new # NULL
              /\ continue_bp' = created(s, succ, new)
              /\ last_bp_address' = pc[t]
              /\ Hit(s, succ, new)
    BY <1>14 DEF BreakpointHit
  <2>2. PICK succ \in {get_ctf_successor(s, t)}, new \in Alloc(s) :
           \/ /\ UNCHANGED <<continue_bp, last_bp_address>>
              /\ Failed(s, new)
           \/ /\ continue_bp' = NULL
              /\ UNCHANGED last_bp_address
              /\ Failed(s, new)
           \/ /\ succ # 0
              /\ new # NULL
              /\ continue_bp' = created(s, succ, new)
              /\ last_bp_address' = pc[t]
              /\ Hit(s, succ, new)
    BY <2>1
  <2>3. b \in Bp
    BY <1>6, <1>14 DEF BreakpointHit
  <2>4. /\ evts \in Seq(Event) /\ new \in Bp \cup {NULL}
        /\ foreign \in BOOLEAN /\ sbp \in Bp \cup {NULL}
        /\ (~foreign) \in BOOLEAN
    <3>1. foreign \in BOOLEAN /\ (~foreign) \in BOOLEAN
      BY DEF hits_foreign, is_event_breakpoint
    <3>2. <<report>> \in Seq(Event)
      <4> DEFINE ty == IF is_event_breakpoint(b) THEN "exit" ELSE "breakpoint"
      <4>1. ty \in {"breakpoint", "single_step", "exit", "unknown"}
        OBVIOUS
      <4> HIDE DEF ty
      <4>2. <<[type |-> ty, thr |-> t, addr |-> pc[t]]>> \in Seq(Event)
        BY <1>4, <4>1
      <4> QED
        BY <4>2 DEF ty
    <3> HIDE DEF foreign, report
    <3>3. evts \in Seq(Event)
      BY <1>5, <3>2, Zenon
    <3>4. new \in Bp \cup {NULL} /\ sbp \in Bp \cup {NULL}
      BY <1>1, <1>3 DEF TypeOK
    <3> QED
      BY <3>1, <3>3, <3>4
  <2> HIDE DEF b, foreign, evts, sbp
  <2>5. s \in Memory /\ SoundChains(s)
    BY <1>1, <2>1, <2>3, RemoveForContinueSound
  <2>6. succ \in Addr \cup {0} /\ succ = get_ctf_successor(s, t)
    BY <1>1, <2>2, SuccessorType
  <2>7. ASSUME Failed(s, new) PROVE FinishedInv'
    BY <1>1, <1>5, <2>2, <2>4, <2>5, <2>7, FinishSound
  <2>8. ASSUME succ # 0, new # NULL, Hit(s, succ, new)
        PROVE  FinishedInv' /\ created(s, succ, new) \in Bp \cup {NULL}
    <3> DEFINE q == create_breakpoint(s, succ, new)
    <3>1. succ \in Addr
      BY <2>6, <2>8
    <3>2. q \in Memory /\ SoundChains(q)
      BY <2>2, <2>5, <3>1, CreateSound
    <3>3. find_breakpoint(q, succ) # NULL /\ q.text = s.text
      BY <2>2, <2>5, <2>8, <3>1, CreateFound
    <3>4. created(s, succ, new) \in Bp \cup {NULL}
      BY <2>4, <2>5, <2>6, FindType DEF created
    <3>5. Finish(t, q, sbp, foreign, evts, ~foreign, new)
      BY <2>8
    <3> HIDE DEF q
    <3>6. get_ctf_successor(q, t) = succ
      BY <2>6, <3>3 DEF get_ctf_successor
    <3>7. FinishedInv'
      BY <1>1, <2>4, <3>2, <3>3, <3>5, <3>6, FinishSound
    <3> QED
      BY <3>4, <3>7
  <2> HIDE DEF Failed, Hit
  <2>9. FinishedInv'
    BY <2>2, <2>7, <2>8
  <2>10. continue_bp' \in Bp \cup {NULL} /\ last_bp_address' \in Addr \cup {0}
    BY <1>1, <1>2, <2>2, <2>8 DEF TypeOK
  <2> QED
    BY <1>7, <2>9, <2>10
<1> QED
  BY <1>8, <1>9, <1>10, <1>11, <1>12, <1>13, <1>14 DEF Step

\* Every request preserves the invariant.
LEMMA RequestInv ==
    ASSUME Inv, Request
    PROVE  Inv'
<1>1. TypeOK /\ SoundChains(m) /\ m \in Memory
  BY DEF Inv, TypeOK, TableSound
<1>2. ASSUME NEW a \in UserAddr
      PROVE  /\ a \in Addr
             /\ find_breakpoint(m, a) \in Bp \cup {NULL}
  BY <1>1, FindType, ConstantsAssumption
<1>3. ASSUME NEW a \in UserAddr, CreateRequest(a) PROVE Inv'
  <2>1. PICK new \in Alloc(m) : m' = create_breakpoint(m, a, new)
    BY <1>3 DEF CreateRequest
  <2>2. m' \in Memory /\ SoundChains(m')
    BY <1>1, <1>2, <2>1, CreateSound
  <2> QED
    BY <1>3, <2>2 DEF CreateRequest, Inv, TypeOK, TableSound, threadVars
<1>4. ASSUME NEW a \in UserAddr, MissingRequest(a) PROVE Inv'
  BY <1>4 DEF MissingRequest, Inv, TypeOK, TableSound, threadVars
<1>5. ASSUME NEW a \in UserAddr, InstallRequest(a) PROVE Inv'
  <2> DEFINE b == find_breakpoint(m, a)
  <2>1. b \in Bp /\ m' = install_breakpoint(m, b)
    BY <1>2, <1>5 DEF InstallRequest
  <2> HIDE DEF b
  <2>2. m' \in Memory /\ SoundChains(m')
    BY <1>1, <2>1, InstallSound
  <2> QED
    BY <1>5, <2>2 DEF InstallRequest, Inv, TypeOK, TableSound, threadVars
<1>6. ASSUME NEW a \in UserAddr, RemoveRequest(a) PROVE Inv'
  <2> DEFINE b == find_breakpoint(m, a)
  <2>1. b \in Bp /\ m' = remove_breakpoint(m, b)
    BY <1>2, <1>6 DEF RemoveRequest
  <2> HIDE DEF b
  <2>2. m' \in Memory /\ SoundChains(m')
    BY <1>1, <2>1, RemoveSound
  <2> QED
    BY <1>6, <2>2 DEF RemoveRequest, Inv, TypeOK, TableSound, threadVars
<1>7. ASSUME NEW a \in UserAddr, DeleteRequest(a) PROVE Inv'
  <2> DEFINE b == find_breakpoint(m, a)
  <2>1. b \in Bp /\ m' = delete_breakpoint(m, b)
    BY <1>2, <1>7 DEF DeleteRequest
  <2> HIDE DEF b
  <2>2. m' \in Memory /\ SoundChains(m')
    BY <1>1, <2>1, DeleteSound
  <2> QED
    BY <1>7, <2>2 DEF DeleteRequest, Inv, TypeOK, TableSound, threadVars
<1>8. ASSUME NEW t \in Steppers, NEW setting \in BOOLEAN,
             SingleStepRequest(t, setting)
      PROVE  Inv'
  <2> DEFINE b == single_step_bp[t]
  <2>1. t \in Thread /\ b \in Bp \cup {NULL}
    BY <1>1, ConstantsAssumption DEF TypeOK
  <2>2. m' = m \/ (b # NULL /\ m' = delete_breakpoint(m, b))
    BY <1>8 DEF SingleStepRequest
  <2>3. single_step' \in [Thread -> BOOLEAN]
    BY <1>1, <1>8 DEF SingleStepRequest, TypeOK
  <2>4. single_step_bp' \in [Thread -> Bp \cup {NULL}]
    BY <1>1, <1>8 DEF SingleStepRequest, TypeOK
  <2>5. mode' \in {mode, "undefined"}
    BY <1>8 DEF SingleStepRequest
  <2>6. UNCHANGED <<continue_bp, last_bp_address, pc, next, pending, control,
                    events, user, installed>>
    BY <1>8 DEF SingleStepRequest
  <2> HIDE DEF b
  <2>7. m' \in Memory /\ SoundChains(m')
    BY <1>1, <2>1, <2>2, DeleteSound
  <2> QED
    BY <2>3, <2>4, <2>5, <2>6, <2>7 DEF Inv, TypeOK, TableSound
<1>9. ASSUME ContinueRequest PROVE Inv'
  <2>1. continue_bp \in Bp \cup {NULL}
    BY <1>1 DEF TypeOK
  <2>2. m' = m \/ (continue_bp # NULL /\ m' = install_breakpoint(m, continue_bp))
    BY <1>9 DEF ContinueRequest
  <2>3. m' \in Memory /\ SoundChains(m')
    BY <1>1, <2>1, <2>2, InstallSound
  <2>4. /\ mode' \in {"undefined", "step", "enter", "run"}
        /\ control' \in Thread \cup {NULL}
    BY <1>1, <1>9 DEF ContinueRequest, Leave, TypeOK
  <2>5. events' \in Seq(Event)
    <3>1. events' = <<>> /\ <<>> \in Seq(Event)
      BY <1>9 DEF ContinueRequest
    <3> QED
      BY <3>1, Zenon
  <2>6. UNCHANGED <<continue_bp, last_bp_address, threadVars, user, installed>>
    BY <1>9 DEF ContinueRequest
  <2> QED
    BY <2>3, <2>4, <2>5, <2>6 DEF Inv, TypeOK, TableSound, threadVars
<1> QED
  BY <1>3, <1>4, <1>5, <1>6, <1>7, <1>8, <1>9 DEF Request

\* The invariant holds in every reachable state.
THEOREM Invariance == Spec => []Inv
<1>1. Init => Inv
  BY InitInv
<1>2. Inv /\ [Next]_vars => Inv'
  <2>1. ASSUME Inv, Next PROVE Inv'
    BY <2>1, StepInv, RequestInv DEF Next
  <2>2. ASSUME Inv, UNCHANGED vars PROVE Inv'
    BY <2>2 DEF Inv, TypeOK, TableSound, vars, threadVars
  <2> QED
    BY <2>1, <2>2
<1> QED
  BY <1>1, <1>2, PTL DEF Spec

\* Types are preserved: every pointer the handlers in udirt-msg.c keep is NULL
\* or a structure, and every thread is at an instruction of the program.
THEOREM TypeCorrect == Spec => []TypeOK
<1>1. Inv => TypeOK
  BY DEF Inv
<1> QED
  BY <1>1, Invariance, PTL

\* For any program, any number of threads and any hash size, whatever the
\* debugger requests and the allocator reuses: no chain of the breakpoint
\* table reaches a freed structure, a structure is in the bucket its address
\* hashes to, and find_breakpoint has one structure to find for an address.
THEOREM TableAlwaysSound == Spec => []TableSound
<1>1. Inv => TableSound
  BY DEF Inv
<1> QED
  BY <1>1, Invariance, PTL

-----------------------------------------------------------------------------
(* StepsOwned.  A thread that is not stepped can still point to a single   *)
(* step breakpoint: single_step_handler forgets the pointer only when      *)
(* delete_breakpoint found the structure in the table.  Such a structure   *)
(* is lost: allocated, and linked nowhere, for good, so no trap finds it.  *)

\* Allocated, and in no chain of the table.
Lost(s, b) == s.heap[b].live /\ b \notin Linked(s)

\* What is lost in s is lost in r.
Keeps(s, r) == \A b \in Bp : Lost(s, b) => Lost(r, b)

-----------------------------------------------------------------------------
(* No operation on the table finds a lost structure, or frees it.          *)

\* An operation that changes neither links nor liveness keeps what is lost.
LEMMA FrameKeeps ==
    ASSUME NEW s, NEW r, r.breakpoints = s.breakpoints,
           \A b \in Bp : r.heap[b].live = s.heap[b].live
    PROVE  Keeps(s, r)
BY DEF Keeps, Lost, Linked

\* Operations compose.
LEMMA KeepsTransitive ==
    ASSUME NEW s, NEW r, NEW q, Keeps(s, r), Keeps(r, q)
    PROVE  Keeps(s, q)
BY DEF Keeps

\* install_breakpoint changes the text and two fields of the structure.
LEMMA InstallKeeps ==
    ASSUME NEW s \in Memory, NEW b \in Bp
    PROVE  Keeps(s, install_breakpoint(s, b))
<1> DEFINE r == install_breakpoint(s, b)
<1>1. r.breakpoints = s.breakpoints
  BY DEF install_breakpoint, Memory
<1>2. \A d \in Bp : r.heap[d].live = s.heap[d].live
  BY DEF install_breakpoint, Memory, Breakpoint
<1> HIDE DEF r
<1>3. Keeps(s, r)
  BY <1>1, <1>2, FrameKeeps
<1> QED
  BY <1>3 DEF r

\* Clearing in_memory leaves links and liveness alone.
LEMMA FlagKeeps ==
    ASSUME NEW q \in Memory, NEW b \in Bp
    PROVE  /\ Keeps(q, [q EXCEPT !.heap[b].in_memory = FALSE])
           /\ \A d \in Bp : [q EXCEPT !.heap[b].in_memory = FALSE].heap[d].live
                               = q.heap[d].live
<1> DEFINE r == [q EXCEPT !.heap[b].in_memory = FALSE]
<1>1. r.breakpoints = q.breakpoints
  BY DEF Memory
<1>2. \A d \in Bp : r.heap[d].live = q.heap[d].live
  BY DEF Memory, Breakpoint
<1> HIDE DEF r
<1>3. Keeps(q, r)
  BY <1>1, <1>2, FrameKeeps
<1> QED
  BY <1>2, <1>3 DEF r

\* So does setting the thread of a breakpoint.
LEMMA OwnerKeeps ==
    ASSUME NEW q \in Memory, NEW b \in Bp, NEW t \in Thread
    PROVE  /\ Keeps(q, [q EXCEPT !.heap[b].thread = t])
           /\ \A d \in Bp : [q EXCEPT !.heap[b].thread = t].heap[d].live
                               = q.heap[d].live
<1> DEFINE r == [q EXCEPT !.heap[b].thread = t]
<1>1. r.breakpoints = q.breakpoints
  BY DEF Memory
<1>2. \A d \in Bp : r.heap[d].live = q.heap[d].live
  BY DEF Memory, Breakpoint
<1> HIDE DEF r
<1>3. Keeps(q, r)
  BY <1>1, <1>2, FrameKeeps
<1> QED
  BY <1>2, <1>3 DEF r

\* Taking a breakpoint out of the text leaves the table alone.
LEMMA RemoveKeeps ==
    ASSUME NEW s \in Memory, SoundChains(s), NEW b \in Bp
    PROVE  /\ Keeps(s, remove_breakpoint_for_continue(s, b))
           /\ Keeps(s, remove_breakpoint(s, b))
           /\ \A d \in Bp : remove_breakpoint(s, b).heap[d].live =
                               s.heap[d].live
<1> DEFINE q == remove_breakpoint_for_continue(s, b)
<1>1. q \in Memory /\ q.heap = s.heap /\ q.breakpoints = s.breakpoints
  BY RemoveForContinueSound
<1> HIDE DEF q
<1>2. Keeps(s, q)
  BY <1>1, FrameKeeps
<1>3. remove_breakpoint(s, b) = [q EXCEPT !.heap[b].in_memory = FALSE]
  BY DEF remove_breakpoint, q
<1>4. /\ Keeps(q, remove_breakpoint(s, b))
      /\ \A d \in Bp : remove_breakpoint(s, b).heap[d].live = q.heap[d].live
  BY <1>1, <1>3, FlagKeeps
<1>5. Keeps(s, remove_breakpoint(s, b))
  BY <1>2, <1>4 DEF Keeps
<1>6. \A d \in Bp : remove_breakpoint(s, b).heap[d].live = s.heap[d].live
  BY <1>1, <1>4
<1> QED
  BY <1>2, <1>5, <1>6 DEF q

\* The re-installation of the breakpoint that was stepped over.
LEMMA ReinstallKeeps ==
    ASSUME NEW s \in Memory, SoundChains(s), NEW a \in Addr \cup {0}
    PROVE  Keeps(s, reinstall(s, a))
<1> DEFINE b == find_breakpoint(s, a)
           q == [s EXCEPT !.heap[b].in_memory = FALSE]
<1>1. CASE b # NULL /\ s.heap[b].in_memory
  <2>1. reinstall(s, a) = install_breakpoint(q, b)
    BY <1>1 DEF reinstall
  <2>2. b \in Bp
    BY <1>1, FindType
  <2> HIDE DEF b
  <2>3. q \in Memory /\ Keeps(s, q)
    BY <2>2, FlagSound, FlagKeeps
  <2> HIDE DEF q
  <2> QED
    BY <2>1, <2>2, <2>3, InstallKeeps, KeepsTransitive
<1>2. CASE ~(b # NULL /\ s.heap[b].in_memory)
  BY <1>2 DEF reinstall, Keeps
<1> QED
  BY <1>1, <1>2

\* create_breakpoint links only the structure it allocates, which was free.
LEMMA CreateKeeps ==
    ASSUME NEW s \in Memory, NEW a \in Addr, NEW new \in Alloc(s)
    PROVE  Keeps(s, create_breakpoint(s, a, new))
<1> DEFINE r == create_breakpoint(s, a, new)
           h == breakpoint_hash(a)
           c == s.breakpoints[h]
<1>1. CASE new = NULL \/ find_breakpoint(s, a) # NULL
  BY <1>1 DEF create_breakpoint, Keeps
<1>2. CASE new # NULL /\ find_breakpoint(s, a) = NULL
  <2>1. new \in Bp /\ ~s.heap[new].live
    BY <1>2 DEF Alloc, Free
  <2>2. h \in Bucket /\ c \in Seq(Bp)
    BY HashRange DEF Memory
  <2>3. /\ \A d \in Bp \ {new} : r.heap[d] = s.heap[d]
        /\ \A g \in Bucket \ {h} : r.breakpoints[g] = s.breakpoints[g]
        /\ r.breakpoints[h] = Append(c, new)
    BY <1>2, <2>1, <2>2 DEF create_breakpoint, Memory
  <2> HIDE DEF r, h
  <2>4. \A i \in DOMAIN r.breakpoints[h] :
           \/ r.breakpoints[h][i] = new
           \/ i \in DOMAIN c /\ r.breakpoints[h][i] = c[i]
    BY <2>1, <2>2, <2>3
  <2>5. ASSUME NEW b \in Bp, Lost(s, b)
        PROVE  Lost(r, b)
    <3>1. b # new
      BY <2>1, <2>5 DEF Lost
    <3>2. b \notin Linked(r)
      <4> SUFFICES ASSUME NEW g \in Bucket, NEW i \in DOMAIN r.breakpoints[g],
                          r.breakpoints[g][i] = b
                   PROVE  b \in Linked(s)
        BY <2>5 DEF Lost, Linked
      <4>1. \E j \in DOMAIN s.breakpoints[g] : s.breakpoints[g][j] = b
        BY <2>3, <2>4, <3>1
      <4> QED
        BY <4>1 DEF Linked
    <3> QED
      BY <2>3, <2>5, <3>1, <3>2 DEF Lost
  <2> QED
    BY <2>5 DEF Keeps, r
<1> QED
  BY <1>1, <1>2

\* delete_breakpoint frees a linked structure and only shortens a chain; a
\* structure it does not find is lost.
LEMMA DeleteKeeps ==
    ASSUME NEW s \in Memory, SoundChains(s), NEW b \in Bp
    PROVE  /\ Keeps(s, delete_breakpoint(s, b))
           /\ s.heap[b].live /\ ~deleted(s, b)
                 => Lost(delete_breakpoint(s, b), b)
<1> DEFINE r == remove_breakpoint(s, b)
           a == s.heap[b].address
           h == breakpoint_hash(a)
           c == Chain(r, a)
           i == First(At(r, a))
           nc == IF i = 1 THEN <<>> ELSE Without(c, i)
           e == delete_breakpoint(s, b)
<1>1. /\ r \in Memory /\ SoundChains(r) /\ Keeps(s, r)
      /\ r.breakpoints = s.breakpoints
      /\ \A d \in Bp : /\ r.heap[d].live = s.heap[d].live
                        /\ r.heap[d].address = s.heap[d].address
  BY RemoveSound, RemoveKeeps
<1>2. a \in Addr /\ h \in Bucket
  <2>1. s.heap[b] \in Breakpoint
    BY DEF Memory
  <2> QED
    BY <2>1, HashRange DEF Breakpoint
<1>3. At(r, a) = At(s, a)
  <2>1. Chain(r, a) = Chain(s, a) /\ Chain(s, a) \in Seq(Bp)
    BY <1>1, <1>2 DEF Chain, Memory
  <2> HIDE DEF r, a
  <2> QED
    BY <1>1, <2>1 DEF At
<1>4. CASE At(r, a) = {}
  <2>1. e = r
    BY <1>4 DEF delete_breakpoint
  <2>2. ASSUME s.heap[b].live PROVE Lost(r, b)
    <3> SUFFICES ASSUME NEW g \in Bucket, NEW j \in DOMAIN s.breakpoints[g],
                        s.breakpoints[g][j] = b
                 PROVE  FALSE
      BY <1>1, <2>2 DEF Lost, Linked
    <3>1. g = h
      BY DEF SoundChains
    <3>2. j \in At(s, a)
      BY <3>1 DEF At, Chain
    <3> QED
      BY <1>3, <1>4, <3>2
  <2> QED
    BY <1>1, <2>1, <2>2
<1>5. CASE At(r, a) # {}
  <2>1. e = [r EXCEPT !.heap[c[i]] = Unallocated, !.breakpoints[h] = nc]
    BY <1>5 DEF delete_breakpoint
  <2>2. deleted(s, b)
    BY <1>3, <1>5 DEF deleted
  <2> HIDE DEF r, a, e
  <2>3. c = r.breakpoints[h] /\ c \in Seq(Bp)
    BY <1>1, <1>2 DEF Chain, Memory
  <2>4. i \in DOMAIN c
    <3>1. i \in At(r, a)
      BY <1>1, <1>2, <1>5, FindSound
    <3> QED
      BY <3>1 DEF At
  <2> HIDE DEF c, i, h
  <2>5. \A k \in DOMAIN nc : \E j \in DOMAIN c : nc[k] = c[j]
    <3>1. CASE i = 1
      BY <3>1
    <3>2. CASE i # 1
      <4>1. nc = Without(c, i)
        BY <3>2
      <4> HIDE DEF nc
      <4>2. /\ DOMAIN nc = 1 .. Len(c) - 1
            /\ \A k \in DOMAIN nc : nc[k] = c[IF k < i THEN k ELSE k + 1]
        BY <2>3, <2>4, <4>1, WithoutOne
      <4>3. DOMAIN c = 1 .. Len(c) /\ Len(c) \in Nat
        BY <2>3
      <4>4. \A k \in DOMAIN nc : (IF k < i THEN k ELSE k + 1) \in DOMAIN c
        BY <2>4, <4>2, <4>3
      <4> QED
        BY <4>2, <4>4
    <3> QED
      BY <3>1, <3>2
  <2> HIDE DEF nc
  <2>6. c[i] \in Linked(r) /\ c[i] \in Bp
    BY <1>2, <2>3, <2>4 DEF Linked
  <2>7. /\ \A d \in Bp \ {c[i]} : e.heap[d] = r.heap[d]
        /\ \A g \in Bucket \ {h} : e.breakpoints[g] = r.breakpoints[g]
        /\ e.breakpoints[h] = nc
    BY <1>1, <1>2, <2>1 DEF Memory
  <2>8. Linked(e) \subseteq Linked(r)
    <3> SUFFICES ASSUME NEW d \in Bp, NEW g \in Bucket,
                        NEW k \in DOMAIN e.breakpoints[g],
                        e.breakpoints[g][k] = d
                 PROVE  d \in Linked(r)
      BY DEF Linked
    <3>1. \E j \in DOMAIN r.breakpoints[g] : r.breakpoints[g][j] = d
      BY <2>3, <2>5, <2>7
    <3> QED
      BY <3>1 DEF Linked
  <2>9. Keeps(r, e)
    BY <2>6, <2>7, <2>8 DEF Keeps, Lost
  <2> QED
    BY <1>1, <2>2, <2>9, KeepsTransitive DEF e
<1> QED
  BY <1>4, <1>5

-----------------------------------------------------------------------------
(* The steps of the system.                                                *)

\* The pointer of a thread that is not stepped is NULL or lost, unless the
\* library has already followed a pointer to a freed structure.
Owned ==
    \A t \in Thread : ~single_step[t] /\ single_step_bp[t] # NULL =>
        mode = "undefined" \/ Lost(m, single_step_bp[t])

\* What StepsOwned asks of one event of a trap t handles.
Honest(t, e) ==
    /\ e.type = "single_step" => single_step[t]
    /\ e.type = "breakpoint" =>
          m.heap[find_breakpoint(m, pc[t])].thread \in {NULL, t}

\* The end of a handler run keeps what was lost in the memory s the decoding
\* of the signal left.
LEMMA FinishKeeps ==
    ASSUME TypeOK, NEW t \in Thread, NEW s \in Memory, SoundChains(s),
           NEW sbp, NEW failed, NEW evts, NEW wait, NEW new,
           new \in Bp \cup {NULL},
           \/ new \in Alloc(s)
           \/ find_breakpoint(s, get_ctf_successor(s, t)) # NULL,
           Finish(t, s, sbp, failed, evts, wait, new)
    PROVE  Keeps(s, m')
<1> DEFINE succ  == get_ctf_successor(s, t)
           place == /\ single_step[t]
                    /\ succ # 0
                    /\ find_breakpoint(s, succ) = NULL
           q == create_breakpoint(s, succ, new)
           o == [q EXCEPT !.heap[new].thread = t]
<1>1. CASE place /\ new # NULL
  <2>1. m' = install_breakpoint(o, new)
    BY <1>1 DEF Finish
  <2>2. succ \in Addr
    BY <1>1, SuccessorType
  <2>3. new \in Alloc(s) /\ new \in Bp
    BY <1>1
  <2> HIDE DEF succ
  <2>4. q \in Memory /\ SoundChains(q) /\ Keeps(s, q)
    BY <2>2, <2>3, CreateSound, CreateKeeps
  <2> HIDE DEF q
  <2>5. o \in Memory /\ Keeps(q, o)
    BY <2>3, <2>4, OwnerSound, OwnerKeeps
  <2> HIDE DEF o
  <2>6. Keeps(o, m')
    BY <2>1, <2>3, <2>5, InstallKeeps
  <2> QED
    BY <2>4, <2>5, <2>6 DEF Keeps
<1>2. CASE ~(place /\ new # NULL)
  <2>1. m' = s
    BY <1>2 DEF Finish
  <2> QED
    BY <2>1 DEF Keeps
<1> QED
  BY <1>1, <1>2

\* The end of a handler run leaves t a new pointer only while t is stepped.
LEMMA FinishOwned ==
    ASSUME TypeOK, Owned, mode # "undefined", NEW t \in Thread,
           NEW s \in Memory, SoundChains(s), Keeps(m, s),
           NEW sbp \in {single_step_bp[t], NULL}, NEW failed, NEW evts,
           NEW wait, NEW new, new \in Bp \cup {NULL},
           \/ new \in Alloc(s)
           \/ find_breakpoint(s, get_ctf_successor(s, t)) # NULL,
           Finish(t, s, sbp, failed, evts, wait, new)
    PROVE  Owned'
<1>1. Keeps(s, m')
  BY FinishKeeps
<1>2. Keeps(m, m')
  BY <1>1 DEF Keeps
<1> SUFFICES ASSUME NEW u \in Thread, ~single_step'[u],
                    single_step_bp'[u] # NULL
             PROVE  Lost(m', single_step_bp'[u])
  BY DEF Owned, Lost, Linked
<1>3. ~single_step[u] /\ single_step_bp'[u] = single_step_bp[u]
  <2>1. single_step' = single_step
    BY DEF Finish
  <2>2. u # t => single_step_bp'[u] = single_step_bp[u]
    BY DEF Finish, TypeOK
  <2>3. u = t => single_step_bp'[u] = sbp
    BY <2>1 DEF Finish, TypeOK
  <2> QED
    BY <2>1, <2>2, <2>3
<1>4. Lost(m, single_step_bp[u]) /\ single_step_bp[u] \in Bp
  BY <1>3 DEF Owned, TypeOK
<1> QED
  BY <1>2, <1>3, <1>4 DEF Keeps

\* It adds an error at most to the events of the decoding.
LEMMA FinishHonest ==
    ASSUME NEW t \in Thread, NEW s, NEW sbp, NEW failed,
           NEW evts \in Seq(Event), NEW wait, NEW new,
           \A i \in DOMAIN evts : Honest(t, evts[i]),
           Finish(t, s, sbp, failed, evts, wait, new)
    PROVE  \A i \in DOMAIN events' : Honest(t, events'[i])
<1> DEFINE err == [type |-> "error", thr |-> t, addr |-> pc[t]]
<1>1. events' \in {evts, Append(evts, err)}
  BY DEF Finish
<1>2. Honest(t, err)
  BY DEF Honest
<1> HIDE DEF err
<1>3. /\ DOMAIN Append(evts, err) = 1 .. Len(evts) + 1
      /\ DOMAIN evts = 1 .. Len(evts) /\ Len(evts) \in Nat
      /\ \A i \in 1 .. Len(evts) : Append(evts, err)[i] = evts[i]
      /\ Append(evts, err)[Len(evts) + 1] = err
  OBVIOUS
<1>4. \A i \in DOMAIN Append(evts, err) : Honest(t, Append(evts, err)[i])
  <2> TAKE i \in DOMAIN Append(evts, err)
  <2>1. i \in DOMAIN evts \/ i = Len(evts) + 1
    BY <1>3
  <2> QED
    BY <1>2, <1>3, <2>1
<1> QED
  BY <1>1, <1>4

\* A thread's own single step breakpoint traps only while it is stepped: the
\* trap found the structure in the table.
LEMMA FoundStepped ==
    ASSUME Inv, Owned, mode # "undefined", NEW t \in Thread,
           find_breakpoint(m, pc[t]) # NULL,
           find_breakpoint(m, pc[t]) = single_step_bp[t]
    PROVE  single_step[t]
<1> DEFINE a == pc[t]
           i == First(At(m, a))
<1>1. m \in Memory /\ SoundChains(m) /\ a \in Addr
  BY ConstantsAssumption DEF Inv, TypeOK, TableSound
<1>2. At(m, a) # {} /\ find_breakpoint(m, a) = Chain(m, a)[i]
  BY DEF find_breakpoint
<1>3. i \in At(m, a)
  BY <1>1, <1>2, FindSound
<1>4. breakpoint_hash(a) \in Bucket /\ find_breakpoint(m, a) \in Bp
  BY <1>1, <1>2, HashRange, FindSound
<1>5. find_breakpoint(m, a) \in Linked(m)
  BY <1>2, <1>3, <1>4 DEF Linked, At, Chain
<1> QED
  BY <1>5 DEF Owned, Lost

\* Every run of the signal handler keeps Owned, and reports what is so.
LEMMA HandlerOwned ==
    ASSUME Inv, Owned, NEW t \in Thread,
           \/ HandleSignal(t) \/ SingleStepHit(t)
           \/ ContinueHit(t) \/ BreakpointHit(t)
    PROVE  Owned' /\ \A i \in DOMAIN events' : Honest(t, events'[i])
<1>1. TypeOK /\ SoundChains(m) /\ m \in Memory
  BY DEF Inv, TypeOK, TableSound
<1>2. pc[t] \in Addr /\ single_step_bp[t] \in Bp \cup {NULL}
  BY <1>1, ConstantsAssumption DEF TypeOK
<1>3. \A s : Alloc(s) \subseteq Bp \cup {NULL}
  BY DEF Alloc, Free
<1>4. mode # "undefined"
  BY DEF HandleSignal, SingleStepHit, ContinueHit, BreakpointHit, Handles
<1>5. find_breakpoint(m, pc[t]) \in Bp \cup {NULL}
  BY <1>1, <1>2, FindType
<1>6. ASSUME NEW ty \in {"breakpoint", "single_step", "exit", "unknown"},
             ty = "single_step" => single_step[t],
             ty = "breakpoint" =>
                m.heap[find_breakpoint(m, pc[t])].thread \in {NULL, t}
      PROVE  LET evts == <<[type |-> ty, thr |-> t, addr |-> pc[t]]>>
             IN  evts \in Seq(Event) /\ \A i \in DOMAIN evts : Honest(t, evts[i])
  <2> DEFINE e == [type |-> ty, thr |-> t, addr |-> pc[t]]
  <2>1. e \in Event /\ Honest(t, e)
    BY <1>2, <1>6 DEF Event, Honest
  <2> HIDE DEF e
  <2>2. <<e>> \in Seq(Event) /\ \A i \in DOMAIN <<e>> : i = 1 /\ <<e>>[i] = e
    BY <2>1
  <2>3. \A i \in DOMAIN <<e>> : Honest(t, <<e>>[i])
    BY <2>1, <2>2, Zenon
  <2> QED
    BY <2>2, <2>3, Zenon DEF e
<1>7. << >> \in Seq(Event) /\ \A i \in DOMAIN << >> : Honest(t, << >>[i])
  OBVIOUS
<1>8. ASSUME HandleSignal(t)
      PROVE  Owned' /\ \A i \in DOMAIN events' : Honest(t, events'[i])
  <2> DEFINE evts == <<[type |-> "unknown", thr |-> t, addr |-> pc[t]]>>
             sbp == single_step_bp[t]
  <2>1. PICK new \in Alloc(m) : Finish(t, m, sbp, FALSE, evts, TRUE, new)
    BY <1>8 DEF HandleSignal
  <2>2. evts \in Seq(Event) /\ \A i \in DOMAIN evts : Honest(t, evts[i])
    BY <1>6
  <2>3. sbp \in {single_step_bp[t], NULL} /\ new \in Bp \cup {NULL}
    BY <1>3
  <2>4. Keeps(m, m)
    BY DEF Keeps
  <2> HIDE DEF evts, sbp
  <2> QED
    BY <1>1, <1>4, <2>1, <2>2, <2>3, <2>4, FinishOwned, FinishHonest
<1>9. ASSUME SingleStepHit(t)
      PROVE  Owned' /\ \A i \in DOMAIN events' : Honest(t, events'[i])
  <2> DEFINE evts == <<[type |-> "single_step", thr |-> t, addr |-> pc[t]]>>
             b == find_breakpoint(m, pc[t])
  <2>1. PICK s \in {delete_breakpoint(m, b)} : \E new \in Alloc(s) :
           Finish(t, s, NULL, FALSE, evts, TRUE, new)
    BY <1>9 DEF SingleStepHit
  <2>2. PICK new \in Alloc(s) : Finish(t, s, NULL, FALSE, evts, TRUE, new)
    BY <2>1
  <2>3. b \in Bp
    BY <1>5, <1>9 DEF SingleStepHit
  <2>4. single_step[t]
    BY <1>4, <1>9, FoundStepped DEF SingleStepHit
  <2>5. evts \in Seq(Event) /\ \A i \in DOMAIN evts : Honest(t, evts[i])
    BY <1>6, <2>4
  <2> HIDE DEF b, evts
  <2>6. s \in Memory /\ SoundChains(s) /\ Keeps(m, s)
    BY <1>1, <2>1, <2>3, DeleteSound, DeleteKeeps
  <2>7. new \in Bp \cup {NULL} /\ NULL \in {single_step_bp[t], NULL}
    BY <1>3
  <2>8. Owned'
    BY <1>1, <1>4, <2>2, <2>6, <2>7, FinishOwned
  <2>9. \A i \in DOMAIN events' : Honest(t, events'[i])
    BY <2>2, <2>5, FinishHonest
  <2> QED
    BY <2>8, <2>9
<1>10. ASSUME ContinueHit(t)
       PROVE  Owned' /\ \A i \in DOMAIN events' : Honest(t, events'[i])
  <2> DEFINE evts == IF single_step[t]
                     THEN <<[type |-> "single_step", thr |-> t,
                             addr |-> pc[t]]>>
                     ELSE <<>>
             b == find_breakpoint(m, pc[t])
             out == remove_breakpoint_for_continue(m, b)
             sbp == single_step_bp[t]
             wait == single_step[t]
  <2>1. PICK s \in {delete_breakpoint(out, b)} :
           \E back \in {reinstall(s, last_bp_address)} :
           \E new \in Alloc(back) : Finish(t, back, sbp, FALSE, evts, wait, new)
    BY <1>10 DEF ContinueHit
  <2>2. PICK back \in {reinstall(s, last_bp_address)} :
           \E new \in Alloc(back) : Finish(t, back, sbp, FALSE, evts, wait, new)
    BY <2>1
  <2>3. PICK new \in Alloc(back) : Finish(t, back, sbp, FALSE, evts, wait, new)
    BY <2>2
  <2>4. b \in Bp
    BY <1>5, <1>10 DEF ContinueHit
  <2>5. evts \in Seq(Event) /\ \A i \in DOMAIN evts : Honest(t, evts[i])
    <3>1. CASE single_step[t]
      <4>1. evts = <<[type |-> "single_step", thr |-> t, addr |-> pc[t]]>>
        BY <3>1
      <4> HIDE DEF evts
      <4> QED
        BY <1>6, <3>1, <4>1
    <3>2. CASE ~single_step[t]
      <4>1. evts = <<>>
        BY <3>2
      <4> HIDE DEF evts
      <4> QED
        BY <1>7, <4>1, Zenon
    <3> QED
      BY <3>1, <3>2
  <2> HIDE DEF b, evts
  <2>6. out \in Memory /\ SoundChains(out) /\ Keeps(m, out)
    BY <1>1, <2>4, RemoveForContinueSound, RemoveKeeps
  <2> HIDE DEF out
  <2>7. s \in Memory /\ SoundChains(s) /\ Keeps(out, s)
    BY <2>1, <2>4, <2>6, DeleteSound, DeleteKeeps
  <2>8. last_bp_address \in Addr \cup {0}
    BY <1>1 DEF TypeOK
  <2>9. back \in Memory /\ SoundChains(back) /\ Keeps(s, back)
    BY <2>2, <2>7, <2>8, ReinstallSound, ReinstallKeeps
  <2>10. Keeps(m, back)
    BY <2>6, <2>7, <2>9 DEF Keeps
  <2>11. new \in Bp \cup {NULL} /\ sbp \in {single_step_bp[t], NULL}
    BY <1>3
  <2> HIDE DEF sbp, wait
  <2>12. Owned'
    BY <1>1, <1>4, <2>3, <2>9, <2>10, <2>11, FinishOwned
  <2>13. \A i \in DOMAIN events' : Honest(t, events'[i])
    BY <2>3, <2>5, FinishHonest
  <2> QED
    BY <2>12, <2>13
<1>11. ASSUME BreakpointHit(t)
       PROVE  Owned' /\ \A i \in DOMAIN events' : Honest(t, events'[i])
  <2> DEFINE b == find_breakpoint(m, pc[t])
             foreign == hits_foreign(b, t) /\ ~is_event_breakpoint(b)
             ty == IF is_event_breakpoint(b) THEN "exit" ELSE "breakpoint"
             evts == IF foreign THEN <<>>
                     ELSE <<[type |-> ty, thr |-> t, addr |-> pc[t]]>>
             sbp == single_step_bp[t]
             Failed(s, new) == Finish(t, s, sbp, TRUE, <<>>, TRUE, new)
             Hit(s, succ, new) ==
                Finish(t, create_breakpoint(s, succ, new), sbp, foreign, evts,
                       ~foreign, new)
  <2>1. PICK s \in {remove_breakpoint_for_continue(m, b)} :
        \E succ \in {get_ctf_successor(s, t)}, new \in Alloc(s) :
           \/ Failed(s, new)
           \/ succ # 0 /\ new # NULL /\ Hit(s, succ, new)
    BY <1>11 DEF BreakpointHit
  <2>2. PICK succ \in {get_ctf_successor(s, t)}, new \in Alloc(s) :
           \/ Failed(s, new)
           \/ succ # 0 /\ new # NULL /\ Hit(s, succ, new)
    BY <2>1
  <2>3. b \in Bp
    BY <1>5, <1>11 DEF BreakpointHit
  <2>4. evts \in Seq(Event) /\ \A i \in DOMAIN evts : Honest(t, evts[i])
    <3>1. CASE foreign
      <4>1. evts = <<>>
        BY <3>1
      <4> HIDE DEF evts
      <4> QED
        BY <1>7, <4>1, Zenon
    <3>2. CASE ~foreign
      <4>1. evts = <<[type |-> ty, thr |-> t, addr |-> pc[t]]>>
        BY <3>2
      <4>2. ty = "breakpoint" => m.heap[b].thread \in {NULL, t}
        BY <3>2 DEF hits_foreign
      <4>3. ty \in {"breakpoint", "exit"}
        OBVIOUS
      <4> HIDE DEF ty, evts
      <4> QED
        BY <1>6, <4>1, <4>2, <4>3
    <3> QED
      BY <3>1, <3>2
  <2> HIDE DEF b, evts, foreign
  <2>5. s \in Memory /\ SoundChains(s) /\ Keeps(m, s)
    BY <1>1, <2>1, <2>3, RemoveForContinueSound, RemoveKeeps
  <2>6. succ \in Addr \cup {0} /\ succ = get_ctf_successor(s, t)
    BY <1>1, <2>2, SuccessorType
  <2>7. new \in Bp \cup {NULL} /\ sbp \in {single_step_bp[t], NULL}
    BY <1>3
  <2> HIDE DEF sbp
  <2>8. ASSUME Failed(s, new)
        PROVE  Owned' /\ \A i \in DOMAIN events' : Honest(t, events'[i])
    <3>1. Owned'
      BY <1>1, <1>4, <2>2, <2>5, <2>7, <2>8, FinishOwned
    <3>2. \A i \in DOMAIN events' : Honest(t, events'[i])
      BY <1>7, <2>8, FinishHonest
    <3> QED
      BY <3>1, <3>2
  <2>9. ASSUME succ # 0, new # NULL, Hit(s, succ, new)
        PROVE  Owned' /\ \A i \in DOMAIN events' : Honest(t, events'[i])
    <3> DEFINE q == create_breakpoint(s, succ, new)
    <3>1. succ \in Addr
      BY <2>6, <2>9
    <3>2. q \in Memory /\ SoundChains(q) /\ Keeps(s, q)
      BY <2>2, <2>5, <3>1, CreateSound, CreateKeeps
    <3>3. find_breakpoint(q, succ) # NULL /\ q.text = s.text
      BY <2>2, <2>5, <2>9, <3>1, CreateFound
    <3>4. Finish(t, q, sbp, foreign, evts, ~foreign, new)
      BY <2>9
    <3> HIDE DEF q
    <3>5. get_ctf_successor(q, t) = succ
      BY <2>6, <3>3 DEF get_ctf_successor
    <3>6. Keeps(m, q)
      BY <2>5, <3>2 DEF Keeps
    <3>7. find_breakpoint(q, get_ctf_successor(q, t)) # NULL
      BY <3>3, <3>5
    <3>8. Owned'
      BY <1>1, <1>4, <2>7, <3>2, <3>4, <3>6, <3>7, FinishOwned
    <3>9. \A i \in DOMAIN events' : Honest(t, events'[i])
      BY <2>4, <3>4, FinishHonest
    <3> QED
      BY <3>8, <3>9
  <2> HIDE DEF Failed, Hit
  <2> QED
    BY <2>2, <2>8, <2>9
<1> QED
  BY <1>8, <1>9, <1>10, <1>11

\* So does a step that keeps what is lost and changes no thread's pointer.
LEMMA FrameOwned ==
    ASSUME TypeOK, Owned, Keeps(m, m'), mode # "undefined",
           UNCHANGED <<single_step, single_step_bp>>
    PROVE  Owned'
<1>1. ASSUME NEW t \in Thread, ~single_step[t], single_step_bp[t] # NULL
      PROVE  Lost(m', single_step_bp[t])
  BY <1>1 DEF Owned, TypeOK, Keeps
<1> QED
  BY <1>1 DEF Owned, Lost, Linked

\* Every request keeps Owned.
LEMMA RequestOwned ==
    ASSUME Inv, Owned, Request
    PROVE  Owned'
<1>1. TypeOK /\ SoundChains(m) /\ m \in Memory
  BY DEF Inv, TypeOK, TableSound
<1>2. mode = "stopped"
  BY DEF Request, CreateRequest, MissingRequest, InstallRequest, RemoveRequest,
         DeleteRequest, Named, SingleStepRequest, ContinueRequest
<1>3. CASE \E a \in UserAddr :
              \/ CreateRequest(a) \/ MissingRequest(a) \/ InstallRequest(a)
              \/ RemoveRequest(a) \/ DeleteRequest(a)
  <2>1. PICK a \in UserAddr :
              \/ CreateRequest(a) \/ MissingRequest(a) \/ InstallRequest(a)
              \/ RemoveRequest(a) \/ DeleteRequest(a)
    BY <1>3
  <2> DEFINE b == find_breakpoint(m, a)
  <2>2. a \in Addr /\ b \in Bp \cup {NULL}
    BY <1>1, FindType, ConstantsAssumption
  <2>3. \/ \E new \in Alloc(m) : m' = create_breakpoint(m, a, new)
        \/ m' = m
        \/ b # NULL /\ m' \in {install_breakpoint(m, b),
                               remove_breakpoint(m, b),
                               delete_breakpoint(m, b)}
    BY <2>1 DEF CreateRequest, MissingRequest, InstallRequest, RemoveRequest,
                DeleteRequest
  <2>4. UNCHANGED <<single_step, single_step_bp>>
    BY <2>1 DEF CreateRequest, MissingRequest, InstallRequest, RemoveRequest,
                DeleteRequest, threadVars
  <2> HIDE DEF b
  <2>5. Keeps(m, m')
    <3>1. Keeps(m, m)
      BY DEF Keeps
    <3> QED
      BY <1>1, <2>2, <2>3, <3>1, CreateKeeps, InstallKeeps, RemoveKeeps,
         DeleteKeeps
  <2> QED
    BY <1>1, <1>2, <2>4, <2>5, FrameOwned
<1>4. CASE \E t \in Steppers, setting \in BOOLEAN : SingleStepRequest(t, setting)
  <2>1. PICK t \in Steppers, setting \in BOOLEAN : SingleStepRequest(t, setting)
    BY <1>4
  <2> DEFINE b == single_step_bp[t]
  <2>2. t \in Thread /\ b \in Bp \cup {NULL}
    BY <1>1, ConstantsAssumption DEF TypeOK
  <2>3. single_step' = [single_step EXCEPT ![t] = setting]
    BY <2>1 DEF SingleStepRequest
  <2>4. CASE (setting \/ b = NULL) /\ UNCHANGED <<m, single_step_bp, mode>>
    <3> SUFFICES ASSUME NEW u \in Thread, ~single_step'[u],
                        single_step_bp[u] # NULL
                 PROVE  Lost(m, single_step_bp[u])
      BY <2>4 DEF Owned, Lost, Linked
    <3>1. ~single_step[u]
      BY <1>1, <2>2, <2>3, <2>4 DEF TypeOK
    <3> QED
      BY <1>2, <3>1 DEF Owned
  <2>5. CASE mode' = "undefined"
    BY <2>5 DEF Owned
  <2>6. CASE /\ ~setting /\ b # NULL /\ m.heap[b].live
             /\ m' = delete_breakpoint(m, b)
             /\ single_step_bp' = IF deleted(m, b)
                                  THEN [single_step_bp EXCEPT ![t] = NULL]
                                  ELSE single_step_bp
    <3> SUFFICES ASSUME NEW u \in Thread, ~single_step'[u],
                        single_step_bp'[u] # NULL
                 PROVE  Lost(m', single_step_bp'[u])
      BY DEF Owned, Lost, Linked
    <3> HIDE DEF b
    <3>1. Keeps(m, m') /\ (~deleted(m, b) => Lost(m', b))
      BY <1>1, <2>2, <2>6, DeleteKeeps
    <3>2. CASE u = t
      <4>1. ~deleted(m, b) /\ single_step_bp'[u] = b
        BY <1>1, <2>6, <3>2 DEF TypeOK, b
      <4> QED
        BY <3>1, <4>1
    <3>3. CASE u # t
      <4>1. single_step_bp'[u] = single_step_bp[u] /\ ~single_step[u]
        BY <1>1, <2>3, <2>6, <3>3 DEF TypeOK
      <4>2. Lost(m, single_step_bp[u]) /\ single_step_bp[u] \in Bp
        BY <1>1, <1>2, <4>1 DEF Owned, TypeOK
      <4> QED
        BY <3>1, <4>1, <4>2 DEF Keeps
    <3> QED
      BY <3>2, <3>3
  <2> QED
    BY <2>1, <2>4, <2>5, <2>6 DEF SingleStepRequest
<1>5. CASE ContinueRequest
  <2>1. continue_bp \in Bp \cup {NULL}
    BY <1>1 DEF TypeOK
  <2>2. m' = m \/ (continue_bp # NULL /\ m' = install_breakpoint(m, continue_bp))
    BY <1>5 DEF ContinueRequest
  <2>3. Keeps(m, m)
    BY DEF Keeps
  <2>4. Keeps(m, m')
    BY <1>1, <2>1, <2>2, <2>3, InstallKeeps
  <2>5. UNCHANGED <<single_step, single_step_bp>>
    BY <1>5 DEF ContinueRequest, threadVars
  <2> QED
    BY <1>1, <1>2, <2>4, <2>5, FrameOwned
<1> QED
  BY <1>3, <1>4, <1>5 DEF Request

\* Every step of a thread keeps Owned.
LEMMA StepOwned ==
    ASSUME Inv, Owned, NEW t \in Thread, Step(t)
    PROVE  Owned'
<1>1. CASE Run(t) \/ RunTorn(t) \/ Deliver(t) \/ UnknownTrap(t)
  <2>1. UNCHANGED <<m, single_step, single_step_bp>>
    BY <1>1 DEF Run, RunTorn, Deliver, UnknownTrap, threadVars
  <2>2. mode # "undefined"
    BY <1>1 DEF Run, RunTorn, Deliver, UnknownTrap, Executes, Handles
  <2>3. Keeps(m, m')
    BY <2>1 DEF Keeps
  <2> QED
    BY <2>1, <2>2, <2>3, FrameOwned DEF Inv
<1> QED
  BY <1>1, HandlerOwned DEF Step

\* A trap is handled by the thread that took it, in one of three ways.
LEMMA HandledBy ==
    ASSUME Inv, Next, NEW t \in Thread, Handled(t)
    PROVE  SingleStepHit(t) \/ ContinueHit(t) \/ BreakpointHit(t)
<1>1. pending \in [Thread -> {"none", "trap", "signal"}] /\ pending' # pending
  BY DEF Inv, TypeOK, Handled
<1>2. ~Request
  BY <1>1 DEF Request, CreateRequest, MissingRequest, InstallRequest,
              RemoveRequest, DeleteRequest, SingleStepRequest, ContinueRequest,
              threadVars
<1>3. PICK u \in Thread : Step(u)
  BY <1>2 DEF Next
<1>4. ~(Run(u) \/ RunTorn(u) \/ UnknownTrap(u))
  BY <1>1 DEF Run, RunTorn, UnknownTrap, threadVars
<1>5. ~Deliver(u)
  BY <1>1 DEF Deliver, Handled
<1>6. \/ HandleSignal(u) \/ SingleStepHit(u)
      \/ ContinueHit(u) \/ BreakpointHit(u)
  BY <1>3, <1>4, <1>5 DEF Step
<1>7. pending' = [pending EXCEPT ![u] = "none"]
  <2>1. \E s, sbp, failed, evts, wait, new :
           Finish(u, s, sbp, failed, evts, wait, new)
    BY <1>6, Zenon DEF HandleSignal, SingleStepHit, ContinueHit, BreakpointHit
  <2> QED
    BY <2>1 DEF Finish
<1>8. u = t
  BY <1>1, <1>7 DEF Handled
<1>9. ~HandleSignal(t)
  BY DEF HandleSignal, Handles, Handled
<1> QED
  BY <1>6, <1>8, <1>9

\* Owned is an invariant of the runtime, together with a sound table.
LEMMA OwnedInvariance == Spec => [](Inv /\ Owned)
<1>1. Init => Inv /\ Owned
  BY InitInv DEF Init, Owned
<1>2. Inv /\ Owned /\ [Next]_vars => (Inv /\ Owned)'
  <2>1. ASSUME Inv, Owned, Next PROVE Inv' /\ Owned'
    BY <2>1, StepInv, RequestInv, StepOwned, RequestOwned DEF Next
  <2>2. ASSUME Inv, Owned, UNCHANGED vars PROVE Inv' /\ Owned'
    <3>1. UNCHANGED <<m, single_step, single_step_bp, mode>>
      BY <2>2 DEF vars, threadVars
    <3>2. Owned'
      BY <2>2, <3>1 DEF Owned, Lost, Linked
    <3>3. Inv'
      BY <2>2 DEF Inv, TypeOK, TableSound, vars, threadVars
    <3> QED
      BY <3>2, <3>3
  <2> QED
    BY <2>1, <2>2
<1> QED
  BY <1>1, <1>2, PTL DEF Spec

\* For any program, any number of threads and whatever the allocator reuses:
\* decode_breakpoint reports the end of a single step only for a thread the
\* debugger steps, and a breakpoint event never for the breakpoint another
\* thread is stepped with.
THEOREM StepsAreOwned == Spec => StepsOwned
<1> DEFINE Q == \A t \in Thread : Handled(t) =>
          \A i \in DOMAIN events' :
             /\ events'[i].type = "single_step" => single_step[t]
             /\ events'[i].type = "breakpoint" =>
                   m.heap[find_breakpoint(m, pc[t])].thread \in {NULL, t}
<1>1. Inv /\ Owned /\ [Next]_vars => [Q]_vars
  <2> SUFFICES ASSUME Inv, Owned, Next, NEW t \in Thread, Handled(t),
                      NEW i \in DOMAIN events'
               PROVE  Honest(t, events'[i])
    BY DEF Honest
  <2>1. SingleStepHit(t) \/ ContinueHit(t) \/ BreakpointHit(t)
    BY HandledBy
  <2> QED
    BY <2>1, HandlerOwned
<1> QED
  BY <1>1, OwnedInvariance, PTL DEF Spec, StepsOwned

=============================================================================
