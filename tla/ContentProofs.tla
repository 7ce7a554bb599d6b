----------------------------- MODULE ContentProofs ----------------------------
(***************************************************************************)
(* What the files hold, for every bound: ContentsHold, the last of the     *)
(* invariants of MCFiles, on top of the invariants of FilesProofs.         *)
(*                                                                         *)
(* Patches, pages of a text, the tree of sessions, forks and memories have *)
(* a section each, with the part of the inductive invariant that is about  *)
(* whole sequences; the last section conjoins the parts.                   *)
(***************************************************************************)
EXTENDS FilesProofs

-----------------------------------------------------------------------------
(***************************************************************************)
(* Patches.  OnItsWay: as long as no hunk failed and none could have gone  *)
(* to a second place, those that are left, each at its place moved by the  *)
(* drift of the file and by the offset, lead from the text there is to the *)
(* text that is expected.                                                  *)
(***************************************************************************)
\* Sequences of one kind: how they are joined and part.
LEMMA CutFirst ==
  ASSUME NEW S, NEW p \in Seq(S), NEW q \in Seq(S)
  PROVE  SubSeq(p \o q, 1, Len(p)) = p
<1>1. Len(p) \in Nat /\ Len(q) \in Nat /\ p \o q \in Seq(S) /\ Len(p \o q) = Len(p) + Len(q)
      /\ \A i \in 1..(Len(p) + Len(q)) : (p \o q)[i] = IF i <= Len(p) THEN p[i] ELSE q[i - Len(p)]
  BY ConcatProperties
<1> DEFINE pq == p \o q
           part == SubSeq(pq, 1, Len(p))
<1>2. \A i \in 1..Len(p) : pq[i] \in S /\ pq[i] = p[i]
  BY <1>1
<1> HIDE DEF pq
<1>3. part \in Seq(S) /\ Len(part) = Len(p) /\ \A i \in 1..Len(p) : part[i] = pq[i]
  <2>1. /\ part \in Seq(S) /\ Len(part) = IF 1 <= Len(p) THEN Len(p) - 1 + 1 ELSE 0
        /\ \A i \in 1..(Len(p) - 1 + 1) : part[i] = pq[1 + i - 1]
    BY <1>1, <1>2, SubSeqProperties
  <2> QED
    BY <1>1, <2>1
<1> HIDE DEF part
<1>4. part = p
  BY <1>2, <1>3, SeqEqual
<1> QED
  BY <1>4 DEF part, pq

LEMMA CutSecond ==
  ASSUME NEW S, NEW p \in Seq(S), NEW q \in Seq(S)
  PROVE  SubSeq(p \o q, Len(p) + 1, Len(p \o q)) = q
<1>1. Len(p) \in Nat /\ Len(q) \in Nat /\ p \o q \in Seq(S) /\ Len(p \o q) = Len(p) + Len(q)
      /\ \A i \in 1..(Len(p) + Len(q)) : (p \o q)[i] = IF i <= Len(p) THEN p[i] ELSE q[i - Len(p)]
  BY ConcatProperties
<1> DEFINE pq == p \o q
           m == Len(p) + 1
           n == Len(p) + Len(q)
           part == SubSeq(pq, m, n)
<1>2. \A i \in m..n : pq[i] \in S /\ pq[i] = q[i - Len(p)]
  BY <1>1
<1> HIDE DEF pq
<1>3. part \in Seq(S) /\ Len(part) = Len(q) /\ \A i \in 1..Len(q) : part[i] = pq[m + i - 1]
  <2>1. m \in Int /\ n \in Int /\ n - m + 1 = Len(q) /\ (m <= n <=> Len(q) # 0)
    BY <1>1
  <2>2. /\ part \in Seq(S) /\ Len(part) = IF m <= n THEN n - m + 1 ELSE 0
        /\ \A i \in 1..(n - m + 1) : part[i] = pq[m + i - 1]
    <3> HIDE DEF m, n
    <3> QED
      BY <1>2, <2>1, SubSeqProperties
  <2> HIDE DEF m, n, part
  <2> QED
    BY <2>1, <2>2
<1>4. m = Len(p) + 1 /\ n = Len(p) + Len(q)
  OBVIOUS
<1> HIDE DEF part, m, n
<1>5. \A i \in 1..Len(part) : part[i] = q[i]
  <2> SUFFICES ASSUME NEW i \in 1..Len(part) PROVE part[i] = q[i]
    OBVIOUS
  <2>1. i \in 1..Len(q) /\ part[i] = pq[m + i - 1]
    BY <1>3
  <2>2. PICK j : j = m + i - 1
    OBVIOUS
  <2>3. j \in m..n /\ j - Len(p) = i
    BY <1>1, <1>4, <2>1, <2>2
  <2>4. pq[j] = q[j - Len(p)]
    BY <1>2, <2>3
  <2> QED
    BY <2>1, <2>2, <2>3, <2>4
<1>6. part = q
  BY <1>3, <1>5, SeqEqual
<1> QED
  BY <1>1, <1>6 DEF part, pq, m, n

\* How sequences may be grouped.
Groups(s, t, u) == (s \o t) \o u = s \o (t \o u)

LEMMA JoinsGroup ==
  ASSUME NEW S, NEW s \in Seq(S), NEW t \in Seq(S), NEW u \in Seq(S)
  PROVE  Groups(s, t, u)
<1>1. (s \o t) \o u = s \o (t \o u)
  BY ConcatAssociative
<1> QED
  BY <1>1 DEF Groups

LEMMA ThreeParts ==
  ASSUME NEW S, NEW p \in Seq(S), NEW o \in Seq(S), NEW q \in Seq(S), NEW s, s = p \o o \o q
  PROVE  /\ s \in Seq(S) /\ Len(s) = Len(p) + Len(o) + Len(q)
         /\ SubSeq(s, 1, Len(p)) = p /\ SubSeq(s, Len(p) + Len(o) + 1, Len(s)) = q
         /\ o # <<>> => SubSeq(s, Len(p) + 1, Len(p) + Len(o)) = o
<1>1. PICK po : po = p \o o
  OBVIOUS
<1>2. PICK oq : oq = o \o q
  OBVIOUS
<1>3. po \in Seq(S) /\ Len(po) = Len(p) + Len(o) /\ oq \in Seq(S)
  BY <1>1, <1>2, ConcatProperties
<1>4. s = po \o q
  BY <1>1
<1>5. s = p \o oq
  <2>1. Groups(p, o, q)
    BY JoinsGroup
  <2> QED
    BY <1>1, <1>2, <1>4, <2>1 DEF Groups
<1>6. s \in Seq(S) /\ Len(s) = Len(po) + Len(q)
  <2>1. po \o q \in Seq(S) /\ Len(po \o q) = Len(po) + Len(q)
    BY <1>3, ConcatProperties
  <2> QED
    BY <1>4, <2>1
<1>7. SubSeq(s, Len(po) + 1, Len(s)) = q
  <2>1. SubSeq(po \o q, Len(po) + 1, Len(po \o q)) = q
    BY <1>3, CutSecond
  <2> QED
    BY <1>4, <2>1
<1>8. SubSeq(s, 1, Len(p)) = p
  <2>1. SubSeq(p \o oq, 1, Len(p)) = p
    BY <1>3, CutFirst
  <2> QED
    BY <1>5, <2>1
<1>9. o # <<>> => SubSeq(s, Len(p) + 1, Len(p) + Len(o)) = o
  <2> SUFFICES ASSUME o # <<>> PROVE SubSeq(s, Len(p) + 1, Len(p) + Len(o)) = o
    OBVIOUS
  <2>1. Len(o) \in Nat \ {0} /\ Len(p) \in Nat
    BY EmptySeq
  <2>2. Len(p) + 1 \in 1..Len(po) /\ Len(p) + Len(o) \in 1..Len(po)
    BY <1>3, <2>1
  <2>3. SubSeq(po \o q, Len(p) + 1, Len(p) + Len(o)) = SubSeq(po, Len(p) + 1, Len(p) + Len(o))
    BY <1>3, <2>2, SubSeqOfConcat1
  <2>4. SubSeq(p \o o, Len(p) + 1, Len(p \o o)) = o
    BY CutSecond
  <2> QED
    BY <1>1, <1>3, <1>4, <2>3, <2>4
<1> QED
  BY <1>3, <1>6, <1>7, <1>8, <1>9

\* What a hunk needs: its old lines stand where it says, moved by d, and with
\* its new lines for them the file becomes `to`.
Leads(h, from, d, to) ==
  \E p, q \in Seq(PatchLines) :
    /\ from = p \o h.old \o q /\ to = p \o h.new \o q
    /\ Len(p) + Len(q) > 0
    /\ h.old # <<>> => Len(p) = h.oldStart - 1 + d

\* Of a file that has drifted by n lines, and is expected to be what it is when
\* all hunks went where they belong.
OnItsWay ==
  failed = 0 /\ (~ ambiguous \/ (~ drifted /\ ~ astray)) =>
    \E n \in Nat :
      /\ drifted = (n # 0)
      /\ Len(hunks) = 0 => lines = expected
      /\ Len(hunks) = 1 => Leads(hunks[1], lines, n + offset, expected)
      /\ Len(hunks) = 2 =>
           \E mid \in Seq(PatchLines) :
             /\ Leads(hunks[1], lines, n + offset, mid)
             /\ Leads(hunks[2], mid, n + offset + Len(hunks[1].new) - Len(hunks[1].old), expected)

StandsAt(h, p, q, d) == lines = p \o h.old \o q /\ Len(p) = h.oldStart - 1 + (d + offset)

PlacedAt(h, p, q) ==
  /\ Fits(h, Len(p)) /\ Len(p) \in 0..Len(lines) /\ Where(Len(p)) = Len(p)
  /\ SubSeq(lines, 1, Len(p)) = p
  /\ SubSeq(lines, Len(p) + Len(h.old) + 1, Len(lines)) = q
  /\ \A x \in Place(h) : Fits(h, x) /\ x \in 0..Len(lines)

\* A hunk whose old lines stand where it says is put there, unless text has
\* moved and it fits elsewhere too.
LEMMA HunkIsPlaced ==
  ASSUME NEW h, SmallHunk(h), ~ h.joined, h.old # <<>>, lines \in Seq(PatchLines), offset \in Int, NEW n \in Nat,
         NEW p \in Seq(PatchLines), NEW q \in Seq(PatchLines), StandsAt(h, p, q, n)
  PROVE  PlacedAt(h, p, q) /\ (n = 0 => Place(h) = {Len(p)})
<1> DEFINE k == Len(p)
           o == Len(h.old)
<1>0. lines = p \o h.old \o q /\ k = h.oldStart - 1 + (n + offset)
  BY DEF StandsAt
<1>1. h.old \in Seq(PatchLines) /\ h.oldStart \in Int
  BY DEF SmallHunk, HunkType
<1>2. k \in Nat /\ o \in Nat \ {0} /\ Len(q) \in Nat
  BY <1>1, EmptySeq
<1>3. PICK t, old : t = lines /\ old = h.old
  OBVIOUS
<1>4. /\ t \in Seq(PatchLines) /\ Len(t) = Len(p) + Len(old) + Len(q)
      /\ SubSeq(t, 1, Len(p)) = p /\ SubSeq(t, Len(p) + Len(old) + 1, Len(t)) = q
      /\ old # <<>> => SubSeq(t, Len(p) + 1, Len(p) + Len(old)) = old
  <2>1. t = p \o old \o q /\ old \in Seq(PatchLines)
    BY <1>0, <1>1, <1>3
  <2>2. p \in Seq(PatchLines) /\ q \in Seq(PatchLines)
    OBVIOUS
  <2>3. /\ SubSeq(t, 1, Len(p)) = p /\ SubSeq(t, Len(p) + Len(old) + 1, Len(t)) = q
        /\ old # <<>> => SubSeq(t, Len(p) + 1, Len(p) + Len(old)) = old
    BY ONLY <2>1, <2>2, ThreeParts
  <2>4. t \in Seq(PatchLines) /\ Len(t) = Len(p) + Len(old) + Len(q)
    BY ONLY <2>1, <2>2, ThreeParts
  <2> QED
    BY ONLY <2>3, <2>4
<1>5. Len(lines) = k + o + Len(q)
  BY <1>3, <1>4
<1>6. SubSeq(lines, k + o + 1, Len(lines)) = q
  BY <1>3, <1>4
<1>9. SubSeq(lines, 1, k) = p
  BY <1>3, <1>4
<1>11. SubSeq(lines, k + 1, k + o) = h.old
  BY <1>3, <1>4
<1>12. Fits(h, k)
  <2>1. k >= 0 /\ k + o <= Len(lines)
    BY <1>2, <1>5
  <2> QED
    BY <1>11, <2>1 DEF Fits
<1>13. Where(k) = k
  <2>1. k >= 0 /\ ~ (k < 0) /\ k < Len(lines)
    BY <1>2, <1>5
  <2> QED
    BY <2>1 DEF Where
<1>14. n = 0 => Place(h) = {k}
  <2> SUFFICES ASSUME n = 0 PROVE Place(h) = {k}
    OBVIOUS
  <2>1. h.oldStart - 1 + offset = k
    BY <1>0, <1>1
  <2> HIDE DEF k
  <2> QED
    BY <1>12, <2>1 DEF Place
<1>15. ASSUME NEW x \in Place(h) PROVE Fits(h, x) /\ x \in 0..Len(lines)
  <2> DEFINE start == h.oldStart - 1 + offset
  <2>1. /\ x \in Int /\ Fits(h, x)
    <3>1. start \in Int
      BY <1>1
    <3>2. CASE Fits(h, start)
      <4>1. x = start
        BY <1>15, <3>2 DEF Place
      <4> QED
        BY <3>1, <3>2, <4>1
    <3>3. CASE ~ Fits(h, start)
      <4>1. x \in (start - 5)..(start + 5) /\ Fits(h, x)
        BY <1>15, <3>3 DEF Place
      <4> QED
        BY <3>1, <4>1
    <3> QED
      BY <3>2, <3>3
  <2>2. x >= 0 /\ x + o <= Len(lines)
    BY <2>1 DEF Fits
  <2> QED
    BY <1>2, <1>5, <2>1, <2>2
<1>16. k \in 0..Len(lines)
  BY <1>2, <1>5
<1> QED
  BY <1>6, <1>9, <1>12, <1>13, <1>14, <1>15, <1>16 DEF PlacedAt
\* A hunk without old lines fits everywhere.
LEMMA HunkIsAstray ==
  ASSUME PatchInv, ApplyHunk, hunks[1].old = <<>>, ~ hunks[1].joined, lines # <<>>
  PROVE  astray' = TRUE /\ ambiguous' = TRUE
<1> DEFINE h == hunks[1]
<1>1. h = Head(hunks)
  <2>1. hunks \in Seq(HunkType) /\ hunks # <<>>
    BY DEF PatchInv, ApplyHunk
  <2> QED
    BY <2>1
<1> HIDE DEF h
<1>2. /\ ambiguous' = (ambiguous \/ \E p, q \in 0..Len(lines) : p # q /\ Fits(h, p) /\ Fits(h, q))
      /\ astray' = (astray \/ (h.old = <<>> /\ lines # <<>>))
  BY <1>1 DEF ApplyHunk
<1>3. 0 \in 0..Len(lines) /\ 1 \in 0..Len(lines)
  <2>1. Len(lines) \in Nat \ {0}
    BY EmptySeq DEF PatchInv
  <2> QED
    BY <2>1
<1>4. Fits(h, 0) /\ Fits(h, 1)
  BY DEF Fits, h
<1>5. ambiguous' = TRUE
  <2>1. \E p, q \in 0..Len(lines) : p # q /\ Fits(h, p) /\ Fits(h, q)
    BY <1>3, <1>4
  <2> QED
    BY <1>2, <2>1
<1>6. h.old = <<>>
  BY DEF h
<1> QED
  BY <1>2, <1>5, <1>6

LEMMA HunkMakes ==
  ASSUME PatchInv, ApplyHunk, NEW n \in Nat, drifted = (n # 0), failed' = 0,
         ~ ambiguous' \/ (~ drifted /\ ~ astray'), NEW to \in Seq(PatchLines),
         Leads(hunks[1], lines, n + offset, to)
  PROVE  lines' = to /\ offset' = offset + Len(hunks[1].new) - Len(hunks[1].old)
<1> DEFINE h == Head(hunks)
<1>0. /\ lines \in Seq(PatchLines) /\ offset \in Int /\ hunks \in Seq(HunkType) /\ hunks # <<>> /\ failed \in Nat
      /\ \A i \in DOMAIN hunks : SmallHunk(hunks[i])
  BY DEF PatchInv, ApplyHunk
<1>1. h = hunks[1] /\ SmallHunk(h)
  <2>1. 1 \in DOMAIN hunks
    BY <1>0
  <2> QED
    BY <1>0, <2>1
<1>4. /\ IF Place(h) = {}
         THEN failed' = failed + 1
         ELSE \E x \in Place(h) :
                /\ lines' = SubSeq(lines, 1, Where(x)) \o h.new
                              \o SubSeq(lines, Where(x) + Len(h.old) + 1, Len(lines))
                /\ offset' = offset + (Len(h.new) - Len(h.old))
      /\ ambiguous' = (ambiguous \/ \E x, y \in 0..Len(lines) : x # y /\ Fits(h, x) /\ Fits(h, y))
  BY DEF ApplyHunk
<1> HIDE DEF h
<1>2. h.old \in Seq(PatchLines) /\ h.new \in Seq(PatchLines) /\ h.oldStart \in Int
  BY <1>1 DEF SmallHunk, HunkType
<1>3. PICK p \in Seq(PatchLines), q \in Seq(PatchLines) :
        /\ lines = p \o h.old \o q /\ to = p \o h.new \o q
        /\ Len(p) + Len(q) > 0
        /\ h.old # <<>> => Len(p) = h.oldStart - 1 + (n + offset)
  BY <1>1 DEF Leads
<1>5. Place(h) # {}
  <2> SUFFICES ASSUME Place(h) = {} PROVE FALSE
    OBVIOUS
  <2>1. failed' = failed + 1
    BY <1>4
  <2> QED
    BY <1>0, <2>1
<1>6. ~ h.joined
  <2> SUFFICES ASSUME h.joined PROVE Place(h) = {}
    BY <1>5
  <2> QED
    BY DEF Place, Fits
<1>7. h.old # <<>>
  <2> SUFFICES ASSUME h.old = <<>> PROVE FALSE
    OBVIOUS
  <2>1. lines # <<>>
    <3>1. PICK old : old = h.old
      OBVIOUS
    <3>2. old \in Seq(PatchLines) /\ Len(old) = 0 /\ lines = p \o old \o q
      BY <1>2, <1>3, <3>1
    <3>3. Len(lines) = Len(p) + Len(old) + Len(q)
      BY <3>2, ThreeParts
    <3>4. Len(p) \in Nat /\ Len(q) \in Nat
      OBVIOUS
    <3>5. Len(lines) > 0
      BY <1>3, <3>2, <3>3, <3>4
    <3> QED
      BY <3>5
  <2>2. astray' = TRUE /\ ambiguous' = TRUE
    BY <1>1, <1>6, <2>1, HunkIsAstray
  <2> QED
    BY <2>2
<1>8. PlacedAt(h, p, q) /\ (n = 0 => Place(h) = {Len(p)})
  <2>1. StandsAt(h, p, q, n)
    BY <1>3, <1>7 DEF StandsAt
  <2> QED
    BY <1>0, <1>1, <1>6, <1>7, <2>1, HunkIsPlaced
<1>9. PICK x \in Place(h) :
        /\ lines' = SubSeq(lines, 1, Where(x)) \o h.new
                      \o SubSeq(lines, Where(x) + Len(h.old) + 1, Len(lines))
        /\ offset' = offset + (Len(h.new) - Len(h.old))
  BY <1>4, <1>5
<1>10. x = Len(p)
  <2>1. CASE ~ ambiguous'
    <3>1. \A a, b \in 0..Len(lines) : Fits(h, a) /\ Fits(h, b) => a = b
      BY <1>4, <2>1
    <3>2. Fits(h, x) /\ x \in 0..Len(lines) /\ Fits(h, Len(p)) /\ Len(p) \in 0..Len(lines)
      BY <1>8, <1>9 DEF PlacedAt
    <3> QED
      BY <3>1, <3>2
  <2>2. CASE ~ drifted
    <3>1. n = 0
      BY <2>2
    <3> QED
      BY <1>8, <1>9, <3>1
  <2> QED
    BY <2>1, <2>2
<1>11. lines' = p \o h.new \o q
  BY <1>8, <1>9, <1>10 DEF PlacedAt
<1>12. offset' = offset + Len(h.new) - Len(h.old)
  <2>1. Len(h.new) \in Nat /\ Len(h.old) \in Nat
    BY <1>2
  <2> QED
    BY <1>0, <1>9, <2>1
<1> QED
  BY <1>1, <1>3, <1>11, <1>12

LEMMA OnItsWayStep == ASSUME PatchInv, OnItsWay, [ApplyHunk]_patchVars PROVE OnItsWay'
<1>1. CASE UNCHANGED patchVars
  BY <1>1 DEF patchVars, OnItsWay
<1>2. CASE ApplyHunk
  <2> SUFFICES ASSUME failed' = 0, ~ ambiguous' \/ (~ drifted' /\ ~ astray')
               PROVE  \E n \in Nat :
                        /\ drifted' = (n # 0)
                        /\ Len(hunks') = 0 => lines' = expected'
                        /\ Len(hunks') = 1 => Leads(hunks'[1], lines', n + offset', expected')
                        /\ Len(hunks') = 2 =>
                             \E mid \in Seq(PatchLines) :
                               /\ Leads(hunks'[1], lines', n + offset', mid)
                               /\ Leads(hunks'[2], mid, n + offset' + Len(hunks'[1].new) - Len(hunks'[1].old), expected')
    BY DEF OnItsWay
  <2>1. /\ hunks \in Seq(HunkType) /\ hunks # <<>> /\ failed \in Nat /\ applied \in Nat
        /\ applied + failed + Len(hunks) <= 2 /\ expected \in Seq(PatchLines)
        /\ hunks' = Tail(hunks) /\ expected' = expected /\ drifted' = drifted
        /\ failed' = failed + 1 \/ failed' = failed
        /\ (ambiguous => ambiguous') /\ (astray => astray')
    BY <1>2 DEF PatchInv, ApplyHunk
  <2>2. failed = 0 /\ (~ ambiguous \/ (~ drifted /\ ~ astray))
    <3>1. failed = 0
      BY <2>1
    <3>2. CASE ~ ambiguous'
      BY <2>1, <3>1, <3>2
    <3>3. CASE ~ drifted' /\ ~ astray'
      BY <2>1, <3>1, <3>3
    <3> QED
      BY <3>2, <3>3
  <2>3. PICK n \in Nat :
          /\ drifted = (n # 0)
          /\ Len(hunks) = 0 => lines = expected
          /\ Len(hunks) = 1 => Leads(hunks[1], lines, n + offset, expected)
          /\ Len(hunks) = 2 =>
               \E mid \in Seq(PatchLines) :
                 /\ Leads(hunks[1], lines, n + offset, mid)
                 /\ Leads(hunks[2], mid, n + offset + Len(hunks[1].new) - Len(hunks[1].old), expected)
    BY <2>2 DEF OnItsWay
  <2>4. Len(hunks) \in 1..2 /\ Len(hunks') = Len(hunks) - 1 /\ (Len(hunks) = 2 => hunks'[1] = hunks[2])
    <3>1. Len(hunks) \in Nat \ {0}
      BY <2>1, EmptySeq
    <3>2. Len(hunks) \in 1..2
      <4>1. \A x, y \in Nat, l \in Nat \ {0} : x + y + l <= 2 => l \in 1..2
        OBVIOUS
      <4> QED
        BY <2>1, <3>1, <4>1
    <3>3. Len(hunks') = Len(hunks) - 1 /\ \A i \in 1..Len(hunks') : hunks'[i] = hunks[i + 1]
      BY <2>1, HeadTailProperties
    <3>4. Len(hunks) = 2 => hunks'[1] = hunks[2]
      BY <3>3
    <3> QED
      BY <3>2, <3>3, <3>4
  <2>5. CASE Len(hunks) = 1
    <3>1. lines' = expected
      BY <1>2, <2>1, <2>3, <2>5, HunkMakes
    <3>2. Len(hunks') = 0
      BY <2>4, <2>5
    <3>3. ~ (Len(hunks') = 1) /\ ~ (Len(hunks') = 2)
      BY <3>2
    <3>4. drifted' = (n # 0)
      BY <2>1, <2>3
    <3>5. lines' = expected'
      BY <2>1, <3>1
    <3> QED
      BY <3>3, <3>4, <3>5
  <2>6. CASE Len(hunks) = 2
    <3>1. PICK mid \in Seq(PatchLines) :
            /\ Leads(hunks[1], lines, n + offset, mid)
            /\ Leads(hunks[2], mid, n + offset + Len(hunks[1].new) - Len(hunks[1].old), expected)
      BY <2>3, <2>6
    <3>2. lines' = mid /\ offset' = offset + Len(hunks[1].new) - Len(hunks[1].old)
      BY <1>2, <2>1, <2>3, <3>1, HunkMakes
    <3>3. Len(hunks') = 1 /\ hunks'[1] = hunks[2]
      BY <2>4, <2>6
    <3>4. n + offset' = n + offset + Len(hunks[1].new) - Len(hunks[1].old)
      <4>1. offset \in Int /\ Len(hunks[1].new) \in Nat /\ Len(hunks[1].old) \in Nat
        <5>1. 1 \in DOMAIN hunks
          BY <2>1
        <5>2. hunks[1] \in HunkType /\ offset \in Int
          BY <2>1, <5>1 DEF PatchInv
        <5> QED
          BY <5>2 DEF HunkType
      <4>2. PICK a, b : a = Len(hunks[1].new) /\ b = Len(hunks[1].old)
        OBVIOUS
      <4>3. offset' = offset + a - b /\ a \in Nat /\ b \in Nat
        BY <3>2, <4>1, <4>2
      <4>4. n + offset' = n + offset + a - b
        BY <4>1, <4>3
      <4> QED
        BY <4>2, <4>4
    <3>5. Leads(hunks'[1], lines', n + offset', expected')
      BY <2>1, <3>1, <3>2, <3>3, <3>4
    <3>6. ~ (Len(hunks') = 0) /\ ~ (Len(hunks') = 2)
      BY <3>3
    <3>7. drifted' = (n # 0)
      BY <2>1, <2>3
    <3> QED
      BY <3>5, <3>6, <3>7
  <2>7. Len(hunks) = 1 \/ Len(hunks) = 2
    BY <2>4
  <2> QED
    BY <2>5, <2>6, <2>7
<1> QED
  BY <1>1, <1>2

LEMMA OnItsWayArrives == ASSUME PatchInv, OnItsWay PROVE PatchesApply
<1>1. ASSUME failed = 0, ~ ambiguous \/ (~ drifted /\ ~ astray), hunks = <<>> PROVE lines = expected
  <2>1. Len(hunks) = 0
    BY <1>1
  <2> QED
    BY <1>1, <2>1 DEF OnItsWay
<1>2. ASSUME ~ drifted, \A i \in DOMAIN hunks : ~ hunks[i].joined, failed = 0, ~ astray, hunks # <<>>
      PROVE  Place(Head(hunks)) # {}
  <2> DEFINE h == hunks[1]
  <2>1. /\ hunks \in Seq(HunkType) /\ \A i \in DOMAIN hunks : SmallHunk(hunks[i])
        /\ applied + failed + Len(hunks) <= 2 /\ applied \in Nat /\ offset \in Int /\ lines \in Seq(PatchLines)
    BY DEF PatchInv
  <2>2. Len(hunks) \in 1..2 /\ 1 \in DOMAIN hunks /\ h = Head(hunks)
    <3>1. Len(hunks) \in Nat \ {0}
      BY <1>2, <2>1, EmptySeq
    <3>2. Len(hunks) \in 1..2
      <4>1. \A x, y \in Nat, l \in Nat \ {0} : x + y + l <= 2 => l \in 1..2
        OBVIOUS
      <4>2. failed = 0
        BY <1>2
      <4> QED
        BY <2>1, <3>1, <4>1, <4>2
    <3> QED
      BY <1>2, <2>1, <3>2
  <2>3. SmallHunk(h) /\ ~ h.joined
    BY <1>2, <2>1, <2>2
  <2>4. PICK n \in Nat :
          /\ drifted = (n # 0)
          /\ Len(hunks) = 1 => Leads(hunks[1], lines, n + offset, expected)
          /\ Len(hunks) = 2 => \E mid \in Seq(PatchLines) : Leads(hunks[1], lines, n + offset, mid)
    BY <1>2 DEF OnItsWay
  <2>5. n = 0
    BY <1>2, <2>4
  <2>6. \E to : Leads(h, lines, n + offset, to)
    BY <2>2, <2>4
  <2>7. PICK p \in Seq(PatchLines), q \in Seq(PatchLines) :
          lines = p \o h.old \o q /\ (h.old # <<>> => Len(p) = h.oldStart - 1 + (n + offset))
    BY <2>6 DEF Leads
  <2> HIDE DEF h
  <2>8. CASE h.old = <<>>
    <3>1. Fits(h, h.oldStart - 1 + offset)
      BY <2>3, <2>8 DEF Fits
    <3>2. Place(h) = {h.oldStart - 1 + offset}
      BY <3>1 DEF Place
    <3> QED
      BY <2>2, <3>2
  <2>9. CASE h.old # <<>>
    <3>1. StandsAt(h, p, q, n)
      BY <2>7, <2>9 DEF StandsAt
    <3>2. n = 0 => Place(h) = {Len(p)}
      BY <2>1, <2>3, <2>9, <3>1, HunkIsPlaced
    <3> QED
      BY <2>2, <2>5, <3>2
  <2> QED
    BY <2>8, <2>9
<1>3. PatchIsExact
  BY <1>1 DEF PatchIsExact
<1>4. NothingFails
  BY <1>2 DEF NothingFails
<1>5. DriftIsFollowed
  <2> SUFFICES ASSUME hunks = <<>>, failed = 0, ~ ambiguous PROVE lines = expected
    BY DEF DriftIsFollowed
  <2>1. ~ ambiguous \/ (~ drifted /\ ~ astray)
    OBVIOUS
  <2> QED
    BY <1>1, <2>1
<1> QED
  BY <1>3, <1>4, <1>5 DEF PatchesApply

LEMMA EndSplits ==
  ASSUME NEW S, NEW s \in Seq(S), NEW c \in Nat
  PROVE  \E x \in Seq(S) : s = x \o EndOf(c, s) /\ EndOf(c, s) \in Seq(S)
                           /\ Len(x) = IF c < Len(s) THEN Len(s) - c ELSE 0
<1> DEFINE k == IF c < Len(s) THEN Len(s) - c ELSE 0
<1>1. Len(s) \in Nat /\ k \in 0..Len(s)
  OBVIOUS
<1>2. EndOf(c, s) = SubSeq(s, k + 1, Len(s))
  BY <1>1 DEF EndOf
<1> HIDE DEF k
<1>3. SubSeq(s, 1, k) \o SubSeq(s, k + 1, Len(s)) = SubSeq(s, 1, Len(s))
  <2>1. 1 \in 1..(Len(s) + 1) /\ k \in (1 - 1)..Len(s) /\ Len(s) \in k..Len(s)
    BY <1>1
  <2> QED
    BY <2>1, ConcatAdjacentSubSeq
<1>4. SubSeq(s, 1, Len(s)) = s
  BY SubSeqFull
<1>5. \A i \in 1..Len(s) : s[i] \in S
  OBVIOUS
<1>6. SubSeq(s, 1, k) \in Seq(S) /\ Len(SubSeq(s, 1, k)) = k
  <2>1. \A i \in 1..k : s[i] \in S
    BY <1>1, <1>5
  <2>2. SubSeq(s, 1, k) \in Seq(S) /\ Len(SubSeq(s, 1, k)) = IF 1 <= k THEN k - 1 + 1 ELSE 0
    BY <1>1, <2>1, SubSeqProperties
  <2> QED
    BY <1>1, <2>2
<1>7. SubSeq(s, k + 1, Len(s)) \in Seq(S)
  <2>1. \A i \in (k + 1)..Len(s) : s[i] \in S
    BY <1>1, <1>5
  <2> QED
    BY <1>1, <2>1, SubSeqProperties
<1> QED
  BY <1>2, <1>3, <1>4, <1>6, <1>7 DEF k

LEMMA StartSplits ==
  ASSUME NEW S, NEW s \in Seq(S), NEW c \in Nat
  PROVE  \E y \in Seq(S) : s = StartOf(c, s) \o y /\ StartOf(c, s) \in Seq(S)
                           /\ Len(y) = IF c < Len(s) THEN Len(s) - c ELSE 0
<1> DEFINE k == IF c < Len(s) THEN c ELSE Len(s)
<1>1. Len(s) \in Nat /\ k \in 0..Len(s)
  OBVIOUS
<1>2. StartOf(c, s) = SubSeq(s, 1, k)
  BY <1>1 DEF StartOf
<1>8. Len(s) - k = IF c < Len(s) THEN Len(s) - c ELSE 0
  BY <1>1
<1> HIDE DEF k
<1>3. SubSeq(s, 1, k) \o SubSeq(s, k + 1, Len(s)) = SubSeq(s, 1, Len(s))
  <2>1. 1 \in 1..(Len(s) + 1) /\ k \in (1 - 1)..Len(s) /\ Len(s) \in k..Len(s)
    BY <1>1
  <2> QED
    BY <2>1, ConcatAdjacentSubSeq
<1>4. SubSeq(s, 1, Len(s)) = s
  BY SubSeqFull
<1>5. \A i \in 1..Len(s) : s[i] \in S
  OBVIOUS
<1>6. SubSeq(s, 1, k) \in Seq(S)
  <2>1. \A i \in 1..k : s[i] \in S
    BY <1>1, <1>5
  <2> QED
    BY <1>1, <2>1, SubSeqProperties
<1>7. SubSeq(s, k + 1, Len(s)) \in Seq(S) /\ Len(SubSeq(s, k + 1, Len(s))) = Len(s) - k
  <2>1. \A i \in (k + 1)..Len(s) : s[i] \in S
    BY <1>1, <1>5
  <2>2. /\ SubSeq(s, k + 1, Len(s)) \in Seq(S)
        /\ Len(SubSeq(s, k + 1, Len(s))) = IF k + 1 <= Len(s) THEN Len(s) - (k + 1) + 1 ELSE 0
    BY <1>1, <2>1, SubSeqProperties
  <2> QED
    BY <1>1, <2>2
<1> QED
  BY <1>2, <1>3, <1>4, <1>6, <1>7, <1>8

\* The last lines of a text are those of its last part, the ahead those of its
\* ahead, where that part is longer.
LEMMA EndOfJoin ==
  ASSUME NEW S, NEW r \in Seq(S), NEW s \in Seq(S), NEW c \in Nat, c < Len(s)
  PROVE  EndOf(c, r \o s) = EndOf(c, s)
<1>1. PICK x \in Seq(S) : s = x \o EndOf(c, s) /\ EndOf(c, s) \in Seq(S) /\ Len(x) = Len(s) - c
  BY EndSplits
<1>2. PICK e : e = EndOf(c, s)
  OBVIOUS
<1>3. e \in Seq(S) /\ s = x \o e
  BY <1>1, <1>2
<1>4. PICK rs, rx : rs = r \o s /\ rx = r \o x
  OBVIOUS
<1>5. rs \in Seq(S) /\ rx \in Seq(S) /\ Len(rs) = Len(r) + Len(s) /\ Len(rx) = Len(r) + Len(x)
  BY <1>4, ConcatProperties
<1>6. rs = rx \o e
  <2>1. Groups(r, x, e)
    BY <1>3, JoinsGroup
  <2> QED
    BY <1>3, <1>4, <2>1 DEF Groups
<1>7. SubSeq(rs, Len(rx) + 1, Len(rs)) = e
  <2>1. SubSeq(rx \o e, Len(rx) + 1, Len(rx \o e)) = e
    BY <1>3, <1>5, CutSecond
  <2> QED
    BY <1>6, <2>1
<1>8. Len(r) \in Nat /\ Len(s) \in Nat
  OBVIOUS
<1>9. c < Len(rs) /\ Len(rs) - c + 1 = Len(rx) + 1
  BY <1>1, <1>5, <1>8
<1>10. EndOf(c, rs) = SubSeq(rs, Len(rs) - c + 1, Len(rs))
  BY <1>9 DEF EndOf
<1> QED
  BY <1>2, <1>4, <1>7, <1>9, <1>10

LEMMA StartOfJoin ==
  ASSUME NEW S, NEW s \in Seq(S), NEW r \in Seq(S), NEW c \in Nat, c < Len(s)
  PROVE  StartOf(c, s \o r) = StartOf(c, s)
<1>1. PICK y \in Seq(S) : s = StartOf(c, s) \o y /\ StartOf(c, s) \in Seq(S) /\ Len(y) = Len(s) - c
  BY StartSplits
<1>2. PICK e : e = StartOf(c, s)
  OBVIOUS
<1>3. e \in Seq(S) /\ s = e \o y
  BY <1>1, <1>2
<1>4. PICK sr, yr : sr = s \o r /\ yr = y \o r
  OBVIOUS
<1>5. sr \in Seq(S) /\ yr \in Seq(S) /\ Len(sr) = Len(s) + Len(r)
  BY <1>4, ConcatProperties
<1>6. sr = e \o yr
  <2>1. Groups(e, y, r)
    BY <1>3, JoinsGroup
  <2> QED
    BY <1>3, <1>4, <2>1 DEF Groups
<1>7. SubSeq(sr, 1, Len(e)) = e
  <2>1. SubSeq(e \o yr, 1, Len(e)) = e
    BY <1>3, <1>5, CutFirst
  <2> QED
    BY <1>6, <2>1
<1>8. Len(r) \in Nat /\ Len(s) \in Nat /\ Len(e) \in Nat
  BY <1>3
<1>9. c < Len(sr) /\ Len(e) = c
  <2>1. Len(s) = Len(e) + Len(y)
    <3>1. Len(e \o y) = Len(e) + Len(y)
      BY <1>3, ConcatProperties
    <3> QED
      BY <1>3, <3>1
  <2>2. PICK i, j, l : i = Len(e) /\ j = Len(y) /\ l = Len(s)
    OBVIOUS
  <2>3. i \in Nat /\ j \in Nat /\ l \in Nat /\ l = i + j /\ j = l - c
    <3>1. l = i + j /\ j = l - c
      BY <1>1, <2>1, <2>2
    <3>2. i \in Nat /\ l \in Nat
      BY <1>8, <2>2
    <3>3. j \in Nat
      BY <2>2
    <3> QED
      BY <3>1, <3>2, <3>3
  <2>4. i = c
    BY <2>3
  <2> QED
    BY <1>5, <1>8, <2>2, <2>4
<1>10. StartOf(c, sr) = SubSeq(sr, 1, c)
  BY <1>9 DEF StartOf
<1> QED
  BY <1>2, <1>4, <1>7, <1>9, <1>10

IsText(s) == s \in Seq(PatchLines)

LEMMA TextsGroup ==
  ASSUME NEW s, NEW t, NEW u, IsText(s), IsText(t), IsText(u)
  PROVE  Groups(s, t, u)
BY JoinsGroup DEF IsText

LEMMA TextsJoin ==
  ASSUME NEW s, NEW t, IsText(s), IsText(t)
  PROVE  IsText(s \o t) /\ Len(s \o t) = Len(s) + Len(t) /\ Len(s) \in Nat /\ Len(t) \in Nat
BY ConcatProperties DEF IsText

LEMMA StartOfText ==
  ASSUME NEW c \in Nat, NEW s, IsText(s)
  PROVE  \E y : /\ s = StartOf(c, s) \o y /\ IsText(StartOf(c, s)) /\ IsText(y)
               /\ Len(y) = IF c < Len(s) THEN Len(s) - c ELSE 0
<1>1. s \in Seq(PatchLines)
  BY DEF IsText
<1>2. \E y \in Seq(PatchLines) :
        s = StartOf(c, s) \o y /\ StartOf(c, s) \in Seq(PatchLines)
        /\ Len(y) = IF c < Len(s) THEN Len(s) - c ELSE 0
  BY <1>1, StartSplits
<1> QED
  BY <1>2 DEF IsText

LEMMA EndOfText ==
  ASSUME NEW c \in Nat, NEW s, IsText(s)
  PROVE  \E x : /\ s = x \o EndOf(c, s) /\ IsText(EndOf(c, s)) /\ IsText(x)
               /\ Len(x) = IF c < Len(s) THEN Len(s) - c ELSE 0
<1>1. s \in Seq(PatchLines)
  BY DEF IsText
<1>2. \E x \in Seq(PatchLines) :
        s = x \o EndOf(c, s) /\ EndOf(c, s) \in Seq(PatchLines)
        /\ Len(x) = IF c < Len(s) THEN Len(s) - c ELSE 0
  BY <1>1, EndSplits
<1> QED
  BY <1>2 DEF IsText

RegroupsText(d, f, o, m, t, k) ==
  /\ d \o (f \o o \o m \o t \o k) = (d \o f) \o (o \o (m \o t \o k))
  /\ d \o (f \o o \o m \o t \o k) = (d \o (f \o o \o m)) \o (t \o k)

LEMMA Regroup ==
  ASSUME NEW d, NEW f, NEW o, NEW m, NEW t, NEW k,
         IsText(d), IsText(f), IsText(o), IsText(m), IsText(t), IsText(k)
  PROVE  RegroupsText(d, f, o, m, t, k)
<1>1. PICK x, y : x = f \o o /\ y = m \o t
  OBVIOUS
<1>2. IsText(x) /\ IsText(y)
  BY <1>1, TextsJoin
<1>3. PICK xm : xm = x \o m
  OBVIOUS
<1>4. PICK yk, tk : yk = y \o k /\ tk = t \o k
  OBVIOUS
<1>5. IsText(xm) /\ IsText(yk) /\ IsText(tk)
  BY <1>2, <1>3, <1>4, TextsJoin
<1>6. Groups(xm, t, k) /\ Groups(d, xm, tk) /\ Groups(m, t, k)
  BY <1>5, TextsGroup
<1>7. Groups(x, m, tk) /\ Groups(f, o, yk)
  BY <1>2, <1>5, TextsGroup
<1>8. d \o ((xm \o t) \o k) = (d \o xm) \o tk
  BY <1>4, <1>6 DEF Groups
<1>9. PICK oy : oy = o \o yk
  OBVIOUS
<1>10. IsText(oy)
  BY <1>5, <1>9, TextsJoin
<1>11. Groups(d, f, oy)
  BY <1>10, TextsGroup
<1>12. (xm \o t) \o k = f \o oy
  <2>1. (xm \o t) \o k = xm \o tk /\ xm \o tk = x \o (m \o tk) /\ m \o tk = yk /\ x \o yk = f \o (o \o yk)
    BY <1>1, <1>3, <1>4, <1>6, <1>7 DEF Groups
  <2> QED
    BY <1>9, <2>1
<1>13. d \o ((xm \o t) \o k) = (d \o f) \o oy
  BY <1>11, <1>12 DEF Groups
<1> QED
  BY <1>1, <1>3, <1>4, <1>8, <1>9, <1>13 DEF RegroupsText

Around(p, b, x, a, q) == p \o (b \o x \o a) \o q
RegroupsHunk(p, b, x, a, q) == Around(p, b, x, a, q) = (p \o b) \o (x \o (a \o q))

LEMMA RegroupHunk ==
  ASSUME NEW p, NEW b, NEW x, NEW a, NEW q, IsText(p), IsText(b), IsText(x), IsText(a), IsText(q)
  PROVE  RegroupsHunk(p, b, x, a, q)
<1>1. PICK bx, aq, pb : bx = b \o x /\ aq = a \o q /\ pb = p \o b
  OBVIOUS
<1>2. IsText(bx) /\ IsText(aq) /\ IsText(pb)
  BY <1>1, TextsJoin
<1>3. PICK bxa, xaq : bxa = bx \o a /\ xaq = x \o aq
  OBVIOUS
<1>4. IsText(bxa) /\ IsText(xaq)
  BY <1>2, <1>3, TextsJoin
<1>5. Groups(p, bxa, q) /\ Groups(bx, a, q) /\ Groups(b, x, aq) /\ Groups(p, b, xaq)
  BY <1>2, <1>4, TextsGroup
<1>6. (p \o bxa) \o q = p \o (bxa \o q) /\ bxa \o q = bx \o aq /\ bx \o aq = b \o xaq /\ p \o (b \o xaq) = pb \o xaq
  BY <1>1, <1>3, <1>5 DEF Groups
<1> QED
  BY <1>1, <1>3, <1>6 DEF RegroupsHunk, Around

\* A hunk leads from the text with the old lines between the lines before and
\* after to that with the new ones, and reversed back.
LEMMA HunkLeads ==
  ASSUME NEW c \in Nat, NEW before, NEW after, NEW del, NEW ins, NEW shift \in Int, NEW p, NEW q,
         IsText(before), IsText(after), IsText(del), IsText(ins), IsText(p), IsText(q),
         Len(p) + Len(q) > 0, NEW n \in Int, NEW b, NEW a, b = EndOf(c, before), a = StartOf(c, after),
         Len(p) = n + Len(before) - Len(b), NEW h, h = Hunk(c, before, del, ins, after, shift)
  PROVE  /\ Leads(h, Around(p, b, del, a, q), n, Around(p, b, ins, a, q))
         /\ Leads(Reversed(h), Around(p, b, ins, a, q), n - shift, Around(p, b, del, a, q))
<1> DEFINE old == b \o del \o a
           new == b \o ins \o a
           ahead == Len(before) - Len(b)
           was == Around(p, b, del, a, q)
           becomes == Around(p, b, ins, a, q)
<1>1. /\ h.old = old /\ h.new = new /\ h.oldStart = ahead + (IF old = <<>> THEN 0 ELSE 1)
      /\ h.newStart = ahead + shift + (IF new = <<>> THEN 0 ELSE 1)
  BY DEF Hunk
<1>2. /\ Reversed(h).old = h.new /\ Reversed(h).new = h.old /\ Reversed(h).oldStart = h.newStart
  BY DEF Reversed
<1>3. IsText(b) /\ Len(b) \in Nat /\ Len(before) \in Nat /\ Len(p) \in Nat
  <2>1. IsText(b)
    BY PartsOfLines DEF IsText
  <2> QED
    BY <2>1 DEF IsText
<1>4. ahead \in Int /\ Len(p) = ahead + n
  BY <1>3
<1> HIDE DEF old, new, ahead
<1>5. Leads(h, was, n, becomes)
  <2>1. h.old # <<>> => Len(p) = h.oldStart - 1 + n
    BY <1>1, <1>4
  <2>2. was = p \o h.old \o q /\ becomes = p \o h.new \o q
    BY <1>1 DEF old, new, Around
  <2> HIDE DEF was, becomes
  <2> QED
    BY <2>1, <2>2 DEF Leads, IsText
<1>6. Leads(Reversed(h), becomes, n - shift, was)
  <2> DEFINE r == Reversed(h)
  <2>1. r.old # <<>> => Len(p) = r.oldStart - 1 + (n - shift)
    <3> SUFFICES ASSUME r.old # <<>> PROVE Len(p) = r.oldStart - 1 + (n - shift)
      OBVIOUS
    <3>1. r.oldStart = ahead + shift + 1
      BY <1>1, <1>2
    <3> HIDE DEF r
    <3> QED
      BY <1>4, <3>1
  <2>2. becomes = p \o r.old \o q /\ was = p \o r.new \o q
    BY <1>1, <1>2 DEF old, new, Around
  <2> HIDE DEF r, was, becomes
  <2>3. Leads(r, becomes, n - shift, was)
    BY <2>1, <2>2 DEF Leads, IsText
  <2> QED
    BY <2>3 DEF r
<1> QED
  BY <1>5, <1>6

\* The text of a file, and the two hunks in it.
DiffText(d, f, o, m, t, k) == d \o (f \o o \o m \o t \o k)

LEMMA FirstHunkLeads ==
  ASSUME NEW c \in Nat, NEW d, NEW f, NEW m, NEW k, NEW o1, NEW o2, NEW t, NEW u,
         IsText(d), IsText(f), IsText(m), IsText(k), IsText(o1), IsText(o2), IsText(t), IsText(u),
         c < Len(m), NEW h, h = Hunk(c, f, o1, o2, m \o t \o k, 0)
  PROVE  /\ Leads(h, DiffText(d, f, o1, m, u, k), Len(d), DiffText(d, f, o2, m, u, k))
         /\ Leads(Reversed(h), DiffText(d, f, o2, m, u, k), Len(d), DiffText(d, f, o1, m, u, k))
<1>1. PICK x : f = x \o EndOf(c, f) /\ IsText(EndOf(c, f)) /\ IsText(x)
  BY EndOfText
<1>2. PICK y : m = StartOf(c, m) \o y /\ IsText(StartOf(c, m)) /\ Len(y) = Len(m) - c /\ IsText(y)
  BY StartOfText
<1>3. PICK a, b : a = StartOf(c, m) /\ b = EndOf(c, f)
  OBVIOUS
<1>4. IsText(a) /\ IsText(b) /\ m = a \o y /\ f = x \o b /\ IsText(x) /\ IsText(y)
  BY <1>1, <1>2, <1>3
<1>5. PICK after, uk, tk : after = m \o t \o k /\ uk = u \o k /\ tk = t \o k
  OBVIOUS
<1>6. IsText(after) /\ IsText(uk) /\ StartOf(c, after) = a
  <2>1. IsText(tk) /\ IsText(uk)
    BY <1>5, TextsJoin
  <2>2. Groups(m, t, k)
    BY TextsGroup
  <2>3. after = m \o tk
    BY <1>5, <2>2 DEF Groups
  <2>4. StartOf(c, m \o tk) = StartOf(c, m)
    BY <2>1, StartOfJoin DEF IsText
  <2>5. IsText(after)
    BY <2>1, <2>3, TextsJoin
  <2> QED
    BY <1>3, <2>1, <2>3, <2>4, <2>5
<1>7. PICK p, q : p = d \o x /\ q = y \o uk
  OBVIOUS
<1>8. /\ IsText(p) /\ IsText(q) /\ Len(p) = Len(d) + Len(x) /\ Len(q) = Len(y) + Len(uk)
      /\ Len(d) \in Nat /\ Len(x) \in Nat /\ Len(y) \in Nat /\ Len(uk) \in Nat
  BY <1>4, <1>6, <1>7, TextsJoin
<1>9. Len(p) + Len(q) > 0 /\ Len(p) = Len(d) + Len(f) - Len(b)
  <2>1. Len(f) = Len(x) + Len(b) /\ Len(b) \in Nat
    BY <1>4, TextsJoin
  <2>2. Len(m) \in Nat
    BY DEF IsText
  <2>3. Len(y) > 0
    BY <1>2, <2>2
  <2> QED
    BY <1>8, <2>1, <2>2, <2>3
<1>10. ASSUME NEW o, IsText(o) PROVE DiffText(d, f, o, m, u, k) = Around(p, b, o, a, q)
  <2>6. RegroupsText(d, f, o, m, u, k) /\ RegroupsHunk(p, b, o, a, q)
    BY <1>4, <1>8, <1>10, Regroup, RegroupHunk
  <2>1. DiffText(d, f, o, m, u, k) = (d \o f) \o (o \o (m \o u \o k))
    BY <2>6 DEF DiffText, RegroupsText
  <2>2. Around(p, b, o, a, q) = (p \o b) \o (o \o (a \o q))
    BY <2>6 DEF RegroupsHunk
  <2>3. Groups(d, x, b) /\ Groups(a, y, uk) /\ Groups(m, u, k)
    BY <1>4, <1>6, TextsGroup
  <2>4. p \o b = d \o f
    BY <1>4, <1>7, <2>3 DEF Groups
  <2>5. a \o q = m \o u \o k
    BY <1>4, <1>5, <1>7, <2>3 DEF Groups
  <2> QED
    BY <2>1, <2>2, <2>4, <2>5
<1>11. Len(d) - 0 = Len(d)
  BY <1>8
<1>12. /\ Leads(h, Around(p, b, o1, a, q), Len(d), Around(p, b, o2, a, q))
       /\ Leads(Reversed(h), Around(p, b, o2, a, q), Len(d) - 0, Around(p, b, o1, a, q))
  <2>1. h = Hunk(c, f, o1, o2, after, 0) /\ 0 \in Int /\ Len(d) \in Int
    BY <1>5, <1>8
  <2>2. IsText(after) /\ IsText(p) /\ IsText(q) /\ b = EndOf(c, f) /\ a = StartOf(c, after)
    BY <1>3, <1>6, <1>8
  <2> QED
    BY <1>9, <2>1, <2>2, HunkLeads
<1> QED
  BY <1>10, <1>11, <1>12

LEMMA SecondHunkLeads ==
  ASSUME NEW c \in Nat, NEW d, NEW f, NEW m, NEW k, NEW o1, NEW o2, NEW t1, NEW t2,
         IsText(d), IsText(f), IsText(m), IsText(k), IsText(o1), IsText(o2), IsText(t1), IsText(t2),
         c < Len(m), NEW h, h = Hunk(c, f \o o1 \o m, t1, t2, k, Len(o2) - Len(o1))
  PROVE  /\ Leads(h, DiffText(d, f, o2, m, t1, k), Len(d) + Len(o2) - Len(o1), DiffText(d, f, o2, m, t2, k))
         /\ Leads(Reversed(h), DiffText(d, f, o1, m, t2, k), Len(d) + Len(o1) - Len(o2), DiffText(d, f, o1, m, t1, k))
<1>1. PICK z : m = z \o EndOf(c, m) /\ IsText(EndOf(c, m)) /\ Len(z) = Len(m) - c /\ IsText(z)
  BY EndOfText
<1>2. PICK w : k = StartOf(c, k) \o w /\ IsText(StartOf(c, k)) /\ IsText(w)
  BY StartOfText
<1>3. PICK a, b : a = StartOf(c, k) /\ b = EndOf(c, m)
  OBVIOUS
<1>4. IsText(a) /\ IsText(b) /\ k = a \o w /\ m = z \o b /\ IsText(z) /\ IsText(w)
  BY <1>1, <1>2, <1>3
<1>5. PICK before, fo : before = f \o o1 \o m /\ fo = f \o o1
  OBVIOUS
<1>6. IsText(fo) /\ IsText(before) /\ EndOf(c, before) = b /\ Len(before) = Len(f) + Len(o1) + Len(m)
  <2>1. IsText(fo) /\ Len(fo) = Len(f) + Len(o1)
    BY <1>5, TextsJoin
  <2>2. before = fo \o m
    BY <1>5
  <2>3. IsText(before) /\ Len(before) = Len(fo) + Len(m)
    BY <2>1, <2>2, TextsJoin
  <2>4. EndOf(c, fo \o m) = EndOf(c, m)
    BY <2>1, EndOfJoin DEF IsText
  <2> QED
    BY <1>3, <2>1, <2>2, <2>3, <2>4
<1>7. /\ Len(m) = Len(z) + Len(b) /\ Len(z) > 0 /\ Len(z) \in Nat /\ Len(b) \in Nat
      /\ Len(f) \in Nat /\ Len(o1) \in Nat /\ Len(o2) \in Nat /\ Len(d) \in Nat
  <2>1. Len(m) = Len(z) + Len(b) /\ Len(z) \in Nat /\ Len(b) \in Nat
    BY <1>4, TextsJoin
  <2>2. Len(m) \in Nat /\ Len(f) \in Nat /\ Len(o1) \in Nat /\ Len(o2) \in Nat /\ Len(d) \in Nat
    BY DEF IsText
  <2> QED
    BY <1>1, <2>1, <2>2
<1>8. ASSUME NEW o, IsText(o)
      PROVE  \E p : /\ IsText(p) /\ Len(p) = Len(d) + Len(f) + Len(o) + Len(z)
                    /\ \A x : IsText(x) => DiffText(d, f, o, m, x, k) = Around(p, b, x, a, w)
  <2>1. PICK g, gz : g = f \o o /\ gz = g \o z
    OBVIOUS
  <2>2. IsText(g) /\ IsText(gz) /\ Len(g) = Len(f) + Len(o) /\ Len(gz) = Len(g) + Len(z)
    <3>1. IsText(g) /\ Len(g) = Len(f) + Len(o)
      BY <1>8, <2>1, TextsJoin
    <3> QED
      BY <1>4, <2>1, <3>1, TextsJoin
  <2>3. PICK p : p = d \o gz
    OBVIOUS
  <2>4. IsText(p) /\ Len(p) = Len(d) + Len(gz)
    BY <2>2, <2>3, TextsJoin
  <2>5. ASSUME NEW x, IsText(x) PROVE DiffText(d, f, o, m, x, k) = Around(p, b, x, a, w)
    <3>5. RegroupsText(d, f, o, m, x, k) /\ RegroupsHunk(p, b, x, a, w)
      BY <1>4, <1>8, <2>4, <2>5, Regroup, RegroupHunk
    <3>1. DiffText(d, f, o, m, x, k) = (d \o (f \o o \o m)) \o (x \o k)
      BY <3>5 DEF DiffText, RegroupsText
    <3>2. Around(p, b, x, a, w) = (p \o b) \o (x \o (a \o w))
      BY <3>5 DEF RegroupsHunk
    <3>3. Groups(d, gz, b) /\ Groups(g, z, b)
      BY <1>4, <2>2, TextsGroup
    <3>4. p \o b = d \o (g \o m)
      BY <1>4, <2>1, <2>3, <3>3 DEF Groups
    <3> QED
      BY <1>4, <2>1, <3>1, <3>2, <3>4
  <2>6. Len(p) = Len(d) + Len(f) + Len(o) + Len(z)
    <3>1. Len(o) \in Nat
      BY <1>8 DEF IsText
    <3> QED
      BY <1>7, <2>2, <2>4, <3>1
  <2> QED
    BY <2>4, <2>5, <2>6
<1>9. ASSUME NEW o, IsText(o), NEW n \in Int, n = Len(d) + Len(o) - Len(o1)
      PROVE  LET shift == Len(o2) - Len(o1)
             IN /\ Leads(h, DiffText(d, f, o, m, t1, k), n, DiffText(d, f, o, m, t2, k))
                /\ Leads(Reversed(h), DiffText(d, f, o, m, t2, k), n - shift, DiffText(d, f, o, m, t1, k))
  <2> DEFINE shift == Len(o2) - Len(o1)
  <2>1. PICK p : /\ IsText(p) /\ Len(p) = Len(d) + Len(f) + Len(o) + Len(z)
                 /\ \A x : IsText(x) => DiffText(d, f, o, m, x, k) = Around(p, b, x, a, w)
    BY <1>8, <1>9
  <2>2. shift \in Int /\ Len(w) \in Nat /\ Len(o) \in Nat
    <3>1. \A x : IsText(x) => Len(x) \in Nat
      BY DEF IsText
    <3>2. Len(w) \in Nat /\ Len(o) \in Nat
      BY <1>4, <1>9, <3>1
    <3>3. shift \in Int
      BY <1>7
    <3> QED
      BY <3>2, <3>3
  <2>3. Len(p) + Len(w) > 0 /\ Len(p) = n + Len(before) - Len(b)
    BY <1>6, <1>7, <1>9, <2>1, <2>2
  <2>4. h = Hunk(c, before, t1, t2, k, shift)
    BY <1>5
  <2>5. IsText(before) /\ IsText(p) /\ IsText(w) /\ b = EndOf(c, before) /\ a = StartOf(c, k)
    BY <1>3, <1>4, <1>6, <2>1
  <2> HIDE DEF shift
  <2>6. /\ Leads(h, Around(p, b, t1, a, w), n, Around(p, b, t2, a, w))
        /\ Leads(Reversed(h), Around(p, b, t2, a, w), n - shift, Around(p, b, t1, a, w))
    BY <2>2, <2>3, <2>4, <2>5, HunkLeads
  <2> QED
    BY <2>1, <2>6 DEF shift
<1>10. PICK n : n = Len(d) + Len(o1) - Len(o1)
  OBVIOUS
<1>11. /\ n - (Len(o2) - Len(o1)) = Len(d) + Len(o1) - Len(o2)
       /\ Len(d) + Len(o2) - Len(o1) \in Int /\ n \in Int
  BY <1>7, <1>10
<1>12. Leads(h, DiffText(d, f, o2, m, t1, k), Len(d) + Len(o2) - Len(o1), DiffText(d, f, o2, m, t2, k))
  BY <1>9, <1>11
<1>13. Leads(Reversed(h), DiffText(d, f, o1, m, t2, k), n - (Len(o2) - Len(o1)), DiffText(d, f, o1, m, t1, k))
  BY <1>9, <1>10, <1>11
<1> QED
  BY <1>11, <1>12, <1>13

PatchOf(c, back, d, f, o1, o2, m, t1, t2, k) ==
  LET h1 == Hunk(c, f, o1, o2, m \o t1 \o k, 0)
      h2 == Hunk(c, f \o o1 \o m, t1, t2, k, Len(o2) - Len(o1))
      was == DiffText(d, f, o1, m, t1, k)
      becomes == DiffText(d, f, o2, m, t2, k)
  IN /\ c \in Nat /\ c < Len(m)
     /\ IsText(d) /\ IsText(f) /\ IsText(o1) /\ IsText(o2) /\ IsText(m) /\ IsText(t1) /\ IsText(t2) /\ IsText(k)
     /\ drifted = (d # <<>>)
     /\ lines = (IF back THEN becomes ELSE was) /\ expected = (IF back THEN was ELSE becomes)
     /\ \/ t1 = t2 /\ hunks = <<IF back THEN Reversed(h1) ELSE h1>>
        \/ hunks = IF back THEN <<Reversed(h1), Reversed(h2)>> ELSE <<h1, h2>>

LEMMA TextIsOpened ==
  PatchInit => \E c, back, d, f, o1, o2, m, t1, t2, k : PatchOf(c, back, d, f, o1, o2, m, t1, t2, k)
<1> SUFFICES ASSUME PatchInit
             PROVE  \E c, back, d, f, o1, o2, m, t1, t2, k : PatchOf(c, back, d, f, o1, o2, m, t1, t2, k)
  OBVIOUS
<1>1. PICK c \in Contexts, reverse \in BOOLEAN, front \in Fronts, one \in Replacements,
           two \in LastReplacements \cup {NoChange}, back \in Backs,
           drift \in {<<>>, <<"a">>, <<"b", "a">>} :
        \E between \in {g \in Gaps : Len(g) > 2 * c} :
          LET was == front \o one[1] \o between \o two[1] \o back
              becomes == front \o one[2] \o between \o two[2] \o back
              shift == Len(one[2]) - Len(one[1])
              diff == <<Hunk(c, front, one[1], one[2], between \o two[1] \o back, 0)>> \o
                (IF two = NoChange THEN <<>>
                 ELSE <<Hunk(c, front \o one[1] \o between, two[1], two[2], back, shift)>>)
          IN /\ back # <<>> => <<"c">> \notin {two[1], two[2]}
             /\ reversed = reverse /\ drifted = (drift # <<>>)
             /\ lines = drift \o (IF reverse THEN becomes ELSE was)
             /\ expected = drift \o (IF reverse THEN was ELSE becomes)
             /\ hunks = IF reverse THEN [i \in DOMAIN diff |-> Reversed(diff[i])] ELSE diff
  BY DEF PatchInit
<1>2. PICK m \in {g \in Gaps : Len(g) > 2 * c} :
          LET was == front \o one[1] \o m \o two[1] \o back
              becomes == front \o one[2] \o m \o two[2] \o back
              shift == Len(one[2]) - Len(one[1])
              diff == <<Hunk(c, front, one[1], one[2], m \o two[1] \o back, 0)>> \o
                (IF two = NoChange THEN <<>>
                 ELSE <<Hunk(c, front \o one[1] \o m, two[1], two[2], back, shift)>>)
          IN /\ drifted = (drift # <<>>)
             /\ lines = drift \o (IF reverse THEN becomes ELSE was)
             /\ expected = drift \o (IF reverse THEN was ELSE becomes)
             /\ hunks = IF reverse THEN [i \in DOMAIN diff |-> Reversed(diff[i])] ELSE diff
  BY <1>1
<1>3. PICK o1, o2, t1, t2 : o1 = one[1] /\ o2 = one[2] /\ t1 = two[1] /\ t2 = two[2]
  OBVIOUS
<1>4. PICK h1, h2 : /\ h1 = Hunk(c, front, o1, o2, m \o t1 \o back, 0)
                    /\ h2 = Hunk(c, front \o o1 \o m, t1, t2, back, Len(o2) - Len(o1))
  OBVIOUS
<1>5. /\ drifted = (drift # <<>>)
      /\ lines = (IF reverse THEN DiffText(drift, front, o2, m, t2, back) ELSE DiffText(drift, front, o1, m, t1, back))
      /\ expected = (IF reverse THEN DiffText(drift, front, o1, m, t1, back) ELSE DiffText(drift, front, o2, m, t2, back))
  BY <1>2, <1>3 DEF DiffText
<1>6. PICK diff : /\ diff = <<h1>> \o (IF two = NoChange THEN <<>> ELSE <<h2>>)
                  /\ hunks = IF reverse THEN [i \in DOMAIN diff |-> Reversed(diff[i])] ELSE diff
  BY <1>2, <1>3, <1>4
<1>7. IsText(front) /\ IsText(back) /\ IsText(drift) /\ IsText(m) /\ c \in Nat /\ c < Len(m)
  <2>1. IsText(front) /\ IsText(back) /\ IsText(drift) /\ IsText(m)
    BY FewLines, GivenLines DEF IsText
  <2>2. c \in Nat /\ Len(m) \in Nat /\ Len(m) > 2 * c
    BY <2>1, PatchingAssumption DEF IsText
  <2> QED
    BY <2>1, <2>2
<1>8. IsText(o1) /\ IsText(o2) /\ IsText(t1) /\ IsText(t2)
  <2>1. {o1, o2} \subseteq {<<>>, <<"a">>, <<"b">>}
    BY <1>3 DEF Replacements
  <2>2. {t1, t2} \subseteq {<<>>, <<"a">>, <<"c">>}
    BY <1>3 DEF LastReplacements, NoChange
  <2> QED
    BY <2>1, <2>2, FewLines DEF IsText
<1>9. CASE two = NoChange
  <2>1. t1 = t2
    BY <1>3, <1>9 DEF NoChange
  <2>2. diff = <<h1>>
    BY <1>6, <1>9
  <2>3. hunks = <<IF reverse THEN Reversed(h1) ELSE h1>>
    <3>1. DOMAIN diff = {1} /\ diff[1] = h1
      BY <2>2
    <3>2. [i \in DOMAIN diff |-> Reversed(diff[i])] = <<Reversed(h1)>>
      BY <3>1
    <3> QED
      BY <1>6, <2>2, <3>2
  <2>4. PatchOf(c, reverse, drift, front, o1, o2, m, t1, t2, back)
    BY <1>4, <1>5, <1>7, <1>8, <2>1, <2>3 DEF PatchOf
  <2> QED
    BY <2>4
<1>10. CASE two # NoChange
  <2>1. diff = <<h1, h2>>
    <3>1. diff = <<h1>> \o <<h2>>
      BY <1>6, <1>10
    <3>2. LET e == <<h1>> \o <<h2>> IN e \in Seq({h1, h2}) /\ Len(e) = 2 /\ e[1] = h1 /\ e[2] = h2
      BY OneAndOne
    <3>3. diff \in Seq({h1, h2}) /\ Len(diff) = 2 /\ diff[1] = h1 /\ diff[2] = h2
      BY <3>1, <3>2
    <3> QED
      BY <3>3
  <2>2. [i \in DOMAIN diff |-> Reversed(diff[i])] = <<Reversed(h1), Reversed(h2)>>
    <3>1. DOMAIN diff = 1..2 /\ diff[1] = h1 /\ diff[2] = h2
      BY <2>1
    <3> QED
      BY <3>1
  <2>3. hunks = IF reverse THEN <<Reversed(h1), Reversed(h2)>> ELSE <<h1, h2>>
    BY <1>6, <2>1, <2>2
  <2>4. PatchOf(c, reverse, drift, front, o1, o2, m, t1, t2, back)
    BY <1>4, <1>5, <1>7, <1>8, <2>3 DEF PatchOf
  <2> QED
    BY <2>4
<1> QED
  BY <1>9, <1>10

\* What a hunk adds is what its new lines have more than its old ones.
LEMMA HunkMoves ==
  ASSUME NEW c \in Nat, NEW before, NEW after, NEW del, NEW ins, NEW shift,
         IsText(before), IsText(after), IsText(del), IsText(ins),
         NEW h, h = Hunk(c, before, del, ins, after, shift)
  PROVE  /\ Len(h.new) \in Nat /\ Len(h.old) \in Nat /\ Len(h.new) - Len(h.old) = Len(ins) - Len(del)
         /\ Reversed(h).new = h.old /\ Reversed(h).old = h.new
<1>1. PICK a, b : a = StartOf(c, after) /\ b = EndOf(c, before)
  OBVIOUS
<1>2. IsText(a) /\ IsText(b)
  BY <1>1, PartsOfLines DEF IsText
<1>3. h.old = b \o del \o a /\ h.new = b \o ins \o a
  BY <1>1 DEF Hunk
<1>4. ASSUME NEW x, IsText(x) PROVE Len(b \o x \o a) = Len(b) + Len(x) + Len(a) /\ Len(x) \in Nat /\ Len(b) \in Nat /\ Len(a) \in Nat
  <2>1. PICK bx : bx = b \o x
    OBVIOUS
  <2>2. IsText(bx) /\ Len(bx) = Len(b) + Len(x) /\ Len(b) \in Nat /\ Len(x) \in Nat
    BY <1>2, <1>4, <2>1, TextsJoin
  <2>3. Len(bx \o a) = Len(bx) + Len(a) /\ Len(a) \in Nat
    BY <1>2, <2>2, TextsJoin
  <2> QED
    BY <2>1, <2>2, <2>3
<1>5. /\ Len(h.old) = Len(b) + Len(del) + Len(a) /\ Len(h.new) = Len(b) + Len(ins) + Len(a)
      /\ Len(b) \in Nat /\ Len(a) \in Nat /\ Len(del) \in Nat /\ Len(ins) \in Nat
  BY <1>3, <1>4
<1> QED
  BY <1>5 DEF Reversed

LEMMA OnItsWayFirst == PatchInit => OnItsWay
<1> SUFFICES ASSUME PatchInit PROVE OnItsWay
  OBVIOUS
<1>1. offset = 0
  BY DEF PatchInit
<1>2. PICK c, back, d, f, o1, o2, m, t1, t2, k : PatchOf(c, back, d, f, o1, o2, m, t1, t2, k)
  BY TextIsOpened
<1>3. PICK h1, h2 : /\ h1 = Hunk(c, f, o1, o2, m \o t1 \o k, 0)
                    /\ h2 = Hunk(c, f \o o1 \o m, t1, t2, k, Len(o2) - Len(o1))
  OBVIOUS
<1> DEFINE whole(o, t) == DiffText(d, f, o, m, t, k)
<1>4. /\ c \in Nat /\ c < Len(m)
      /\ IsText(d) /\ IsText(f) /\ IsText(o1) /\ IsText(o2) /\ IsText(m) /\ IsText(t1) /\ IsText(t2) /\ IsText(k)
      /\ drifted = (d # <<>>)
      /\ lines = (IF back THEN whole(o2, t2) ELSE whole(o1, t1))
      /\ expected = (IF back THEN whole(o1, t1) ELSE whole(o2, t2))
      /\ \/ t1 = t2 /\ hunks = <<IF back THEN Reversed(h1) ELSE h1>>
         \/ hunks = IF back THEN <<Reversed(h1), Reversed(h2)>> ELSE <<h1, h2>>
  BY <1>2, <1>3 DEF PatchOf
<1>5. Len(d) \in Nat /\ (d # <<>> <=> Len(d) # 0) /\ Len(o1) \in Nat /\ Len(o2) \in Nat
  BY <1>4 DEF IsText
<1>6. ASSUME NEW u, IsText(u)
      PROVE  Leads(h1, whole(o1, u), Len(d), whole(o2, u)) /\ Leads(Reversed(h1), whole(o2, u), Len(d), whole(o1, u))
  BY <1>3, <1>4, <1>6, FirstHunkLeads
<1>7. /\ Leads(h2, whole(o2, t1), Len(d) + Len(o2) - Len(o1), whole(o2, t2))
      /\ Leads(Reversed(h2), whole(o1, t2), Len(d) + Len(o1) - Len(o2), whole(o1, t1))
  BY <1>3, <1>4, SecondHunkLeads
<1>8. /\ Len(h1.new) \in Nat /\ Len(h1.old) \in Nat /\ Len(h1.new) - Len(h1.old) = Len(o2) - Len(o1)
      /\ Reversed(h1).new = h1.old /\ Reversed(h1).old = h1.new
  <2>1. PICK after : after = m \o t1 \o k
    OBVIOUS
  <2>2. IsText(after)
    <3>1. IsText(m \o t1)
      BY <1>4, TextsJoin
    <3> QED
      BY <1>4, <2>1, <3>1, TextsJoin
  <2>3. h1 = Hunk(c, f, o1, o2, after, 0)
    BY <1>3, <2>1
  <2> QED
    BY <1>4, <2>2, <2>3, HunkMoves
<1>9. /\ Len(d) + 0 + Len(h1.new) - Len(h1.old) = Len(d) + Len(o2) - Len(o1)
      /\ Len(d) + 0 + Len(h1.old) - Len(h1.new) = Len(d) + Len(o1) - Len(o2)
      /\ Len(d) + 0 = Len(d)
  <2>1. PICK i, j, n, x, y : i = Len(o1) /\ j = Len(o2) /\ n = Len(d) /\ x = Len(h1.new) /\ y = Len(h1.old)
    OBVIOUS
  <2>2. i \in Nat /\ j \in Nat /\ n \in Nat /\ x \in Nat /\ y \in Nat /\ x - y = j - i
    BY <1>5, <1>8, <2>1
  <2>3. n + 0 + x - y = n + j - i /\ n + 0 + y - x = n + i - j /\ n + 0 = n
    BY <2>2
  <2> QED
    BY <2>1, <2>3
<1>10. IsText(whole(o2, t1)) /\ IsText(whole(o1, t2))
  <2>1. ASSUME NEW o, NEW t, IsText(o), IsText(t) PROVE IsText(whole(o, t))
    <3>1. IsText(f \o o)
      BY <1>4, <2>1, TextsJoin
    <3>2. IsText(f \o o \o m)
      BY <1>4, <3>1, TextsJoin
    <3>3. IsText(f \o o \o m \o t)
      BY <2>1, <3>2, TextsJoin
    <3>4. IsText(f \o o \o m \o t \o k)
      BY <1>4, <3>3, TextsJoin
    <3> QED
      BY <1>4, <3>4, TextsJoin DEF DiffText
  <2> QED
    BY <1>4, <2>1
<1> HIDE DEF whole
<1>11. /\ Len(hunks) = 1 => Leads(hunks[1], lines, Len(d) + 0, expected)
       /\ Len(hunks) = 2 =>
            \E mid \in Seq(PatchLines) :
              /\ Leads(hunks[1], lines, Len(d) + 0, mid)
              /\ Leads(hunks[2], mid, Len(d) + 0 + Len(hunks[1].new) - Len(hunks[1].old), expected)
       /\ Len(hunks) # 0
  <2>1. CASE t1 = t2 /\ hunks = <<IF back THEN Reversed(h1) ELSE h1>>
    <3>1. Len(hunks) = 1 /\ hunks[1] = IF back THEN Reversed(h1) ELSE h1
      BY <2>1
    <3>2. Leads(hunks[1], lines, Len(d), expected)
      <4>1. CASE back
        <5>1. lines = whole(o2, t1) /\ expected = whole(o1, t1) /\ hunks[1] = Reversed(h1)
          BY <1>4, <2>1, <3>1, <4>1
        <5> QED
          BY <1>4, <1>6, <5>1
      <4>2. CASE ~ back
        <5>1. lines = whole(o1, t1) /\ expected = whole(o2, t1) /\ hunks[1] = h1
          BY <1>4, <2>1, <3>1, <4>2
        <5> QED
          BY <1>4, <1>6, <5>1
      <4> QED
        BY <4>1, <4>2
    <3> QED
      BY <1>9, <3>1, <3>2
  <2>2. CASE hunks = IF back THEN <<Reversed(h1), Reversed(h2)>> ELSE <<h1, h2>>
    <3>1. CASE back
      <4>1. Len(hunks) = 2 /\ hunks[1] = Reversed(h1) /\ hunks[2] = Reversed(h2)
        BY <2>2, <3>1
      <4>2. Leads(hunks[1], lines, Len(d) + 0, whole(o1, t2))
        BY <1>4, <1>6, <1>9, <3>1, <4>1
      <4>3. Leads(hunks[2], whole(o1, t2), Len(d) + 0 + Len(hunks[1].new) - Len(hunks[1].old), expected)
        BY <1>4, <1>7, <1>8, <1>9, <3>1, <4>1
      <4>4. ~ (Len(hunks) = 1) /\ Len(hunks) # 0
        BY <4>1
      <4>5. \E mid \in Seq(PatchLines) :
              /\ Leads(hunks[1], lines, Len(d) + 0, mid)
              /\ Leads(hunks[2], mid, Len(d) + 0 + Len(hunks[1].new) - Len(hunks[1].old), expected)
        BY <1>10, <4>2, <4>3 DEF IsText
      <4> QED
        BY <4>4, <4>5
    <3>2. CASE ~ back
      <4>1. Len(hunks) = 2 /\ hunks[1] = h1 /\ hunks[2] = h2
        BY <2>2, <3>2
      <4>2. Leads(hunks[1], lines, Len(d) + 0, whole(o2, t1))
        BY <1>4, <1>6, <1>9, <3>2, <4>1
      <4>3. Leads(hunks[2], whole(o2, t1), Len(d) + 0 + Len(hunks[1].new) - Len(hunks[1].old), expected)
        BY <1>4, <1>7, <1>8, <1>9, <3>2, <4>1
      <4>4. ~ (Len(hunks) = 1) /\ Len(hunks) # 0
        BY <4>1
      <4>5. \E mid \in Seq(PatchLines) :
              /\ Leads(hunks[1], lines, Len(d) + 0, mid)
              /\ Leads(hunks[2], mid, Len(d) + 0 + Len(hunks[1].new) - Len(hunks[1].old), expected)
        BY <1>10, <4>2, <4>3 DEF IsText
      <4> QED
        BY <4>4, <4>5
    <3> QED
      BY <3>1, <3>2
  <2> QED
    BY <1>4, <2>1, <2>2
<1>12. drifted = (Len(d) # 0)
  BY <1>4, <1>5
<1> QED
  BY <1>1, <1>5, <1>11, <1>12 DEF OnItsWay

LEMMA NoPatchFits == NoPatch => PatchInv /\ OnItsWay
<1> SUFFICES ASSUME NoPatch PROVE PatchInv /\ OnItsWay
  OBVIOUS
<1>1. /\ hunks = <<>> /\ lines = <<>> /\ expected = <<>> /\ drifted = FALSE
      /\ offset = 0 /\ applied = 0 /\ failed = 0
  BY DEF NoPatch
<1>2. Len(hunks) = 0 /\ DOMAIN hunks = {}
  BY <1>1, EmptyHasNoDomain
<1>3. PatchInv
  BY <1>1, <1>2 DEF PatchInv
<1>4. drifted = (0 # 0) /\ lines = expected /\ ~ (Len(hunks) = 1) /\ ~ (Len(hunks) = 2)
  <2>1. lines = expected /\ ~ (Len(hunks) = 1) /\ ~ (Len(hunks) = 2)
    BY <1>1, <1>2
  <2>2. (0 # 0) = FALSE
    OBVIOUS
  <2> QED
    BY <1>1, <2>1, <2>2
<1>5. OnItsWay
  BY <1>4 DEF OnItsWay
<1> QED
  BY <1>3, <1>5

-----------------------------------------------------------------------------
(***************************************************************************)
(* Sequences of sequences, flattened, and the pages of a text: pages that  *)
(* are read one after the other, each beginning where the last ended, make *)
(* the text.                                                               *)
(***************************************************************************)
\* What is flattened up to each place.
Flattens(f, s, n) == \A i \in 1..n : f[i] = IF i = 1 THEN s[i] ELSE f[i - 1] \o s[i]

\* A sequence of sequences can be flattened, and in one way.
LEMMA FlatteningExists ==
  ASSUME NEW S, NEW s \in Seq(Seq(S))
  PROVE  \E f \in [1..Len(s) -> Seq(S)] : Flattens(f, s, Len(s))
<1> DEFINE Missing == {n \in 0..Len(s) : \A f \in [1..n -> Seq(S)] : ~ Flattens(f, s, n)}
<1>1. 0 \notin Missing
  <2>1. <<>> \in [1..0 -> Seq(S)] /\ Flattens(<<>>, s, 0)
    BY DEF Flattens
  <2> QED
    BY <2>1
<1>2. ASSUME NEW n \in 0..Len(s), n + 1 <= Len(s), NEW f \in [1..n -> Seq(S)], Flattens(f, s, n)
      PROVE  \E g \in [1..(n + 1) -> Seq(S)] : Flattens(g, s, n + 1)
  <2> DEFINE g == [i \in 1..(n + 1) |-> IF i = 1 THEN s[i] ELSE f[i - 1] \o s[i]]
  <2>1. n \in Nat /\ \A i \in 1..(n + 1) : s[i] \in Seq(S)
    BY <1>2
  <2>2. \A i \in 1..(n + 1) : i # 1 => i - 1 \in 1..n
    BY <2>1
  <2>3. g \in [1..(n + 1) -> Seq(S)]
    <3> SUFFICES ASSUME NEW i \in 1..(n + 1) PROVE (IF i = 1 THEN s[i] ELSE f[i - 1] \o s[i]) \in Seq(S)
      OBVIOUS
    <3>1. i # 1 => f[i - 1] \in Seq(S)
      BY <1>2, <2>2
    <3> QED
      BY <2>1, <3>1, ConcatProperties
  <2>4. \A i \in 1..n : g[i] = f[i]
    <3>1. \A i \in 1..n : i \in 1..(n + 1)
      BY <2>1
    <3> QED
      BY <1>2, <3>1 DEF Flattens
  <2>5. Flattens(g, s, n + 1)
    BY <2>2, <2>4 DEF Flattens
  <2> QED
    BY <2>3, <2>5
<1>3. Missing \in SUBSET Nat
  OBVIOUS
<1>4. Missing = {}
  <2> SUFFICES ASSUME Missing # {} PROVE FALSE
    OBVIOUS
  <2>1. PICK n \in Missing : \A m \in Missing : n <= m
    BY <1>3, LeastNumber
  <2>2. n \in Nat /\ n <= Len(s) /\ Len(s) \in Nat /\ n # 0
    BY <1>1, <2>1
  <2>3. n - 1 \in 0..Len(s) /\ (n - 1) + 1 = n
    BY <2>2
  <2>4. n - 1 \notin Missing
    <3> HIDE DEF Missing
    <3> QED
      BY <1>3, <2>1, <2>2
  <2>5. \E f \in [1..n -> Seq(S)] : Flattens(f, s, n)
    BY <1>2, <2>2, <2>3, <2>4
  <2> QED
    BY <2>5
<1> QED
  BY <1>4

LEMMA FlatteningIsOne ==
  ASSUME NEW n \in Nat, NEW s, NEW f, NEW r, NEW g, Flattens(f, s, n), Flattens(g, r, n),
         \A i \in 1..n : r[i] = s[i]
  PROVE  \A i \in 1..n : f[i] = g[i]
<1> DEFINE Apart == {i \in 1..n : f[i] # g[i]}
<1> SUFFICES ASSUME Apart # {} PROVE FALSE
  OBVIOUS
<1>1. Apart \in SUBSET Nat
  OBVIOUS
<1>2. PICK i \in Apart : \A k \in Apart : i <= k
  <2> HIDE DEF Apart
  <2> QED
    BY <1>1, LeastNumber
<1>3. i \in 1..n /\ (i # 1 => i - 1 \in 1..n /\ i - 1 \notin Apart)
  <2>1. i - 1 \notin Apart
    <3> HIDE DEF Apart
    <3> QED
      BY <1>1, <1>2
  <2> QED
    BY <2>1
<1>4. f[i] = (IF i = 1 THEN s[i] ELSE f[i - 1] \o s[i]) /\ g[i] = IF i = 1 THEN s[i] ELSE g[i - 1] \o s[i]
  BY <1>3 DEF Flattens
<1> QED
  BY <1>2, <1>3, <1>4

LEMMA FlattenIsLast ==
  ASSUME NEW S, NEW s \in Seq(Seq(S)), s # <<>>
  PROVE  \E f \in [1..Len(s) -> Seq(S)] : Flattens(f, s, Len(s)) /\ FlattenSeq(s) = f[Len(s)]
<1> DEFINE IsFlat(f) == f = [i \in 1..Len(s) |-> IF i = 1 THEN s[i] ELSE f[i - 1] \o s[i]]
           c == CHOOSE f : IsFlat(f)
<1>1. PICK g \in [1..Len(s) -> Seq(S)] : Flattens(g, s, Len(s))
  BY FlatteningExists
<1>2. IsFlat(g)
  BY <1>1 DEF Flattens
<1>3. Len(s) \in Nat /\ Len(s) # 0
  OBVIOUS
<1>4. FlattenSeq(s) = c[Len(s)]
  BY <1>3 DEF FlattenSeq
<1>5. IsFlat(c)
  <2> HIDE DEF IsFlat
  <2> QED
    BY <1>2
<1> HIDE DEF c
<1>6. Flattens(c, s, Len(s))
  <2> SUFFICES ASSUME NEW i \in 1..Len(s) PROVE c[i] = IF i = 1 THEN s[i] ELSE c[i - 1] \o s[i]
    BY DEF Flattens
  <2> QED
    BY <1>5
<1>7. \A i \in 1..Len(s) : g[i] = c[i]
  <2> HIDE DEF IsFlat
  <2> QED
    BY <1>1, <1>3, <1>6, FlatteningIsOne
<1>8. FlattenSeq(s) = g[Len(s)]
  BY <1>3, <1>4, <1>7
<1> QED
  BY <1>1, <1>8

LEMMA FlattenAppend ==
  ASSUME NEW S, NEW s \in Seq(Seq(S)), NEW x \in Seq(S)
  PROVE  FlattenSeq(s) \in Seq(S) /\ FlattenSeq(Append(s, x)) = FlattenSeq(s) \o x
<1>1. PICK t : t = Append(s, x)
  OBVIOUS
<1>2. /\ t \in Seq(Seq(S)) /\ Len(t) = Len(s) + 1 /\ Len(s) \in Nat
      /\ t[Len(t)] = x /\ \A i \in 1..Len(s) : t[i] = s[i]
  BY <1>1, AppendProperties
<1>3. PICK g \in [1..Len(t) -> Seq(S)] : Flattens(g, t, Len(t)) /\ FlattenSeq(t) = g[Len(t)]
  BY <1>2, FlattenIsLast
<1>4. Len(t) \in 1..Len(t) /\ FlattenSeq(t) = IF Len(t) = 1 THEN x ELSE g[Len(t) - 1] \o x
  <2>1. Len(t) \in 1..Len(t)
    BY <1>2
  <2> QED
    BY <1>2, <1>3, <2>1 DEF Flattens
<1>5. CASE s = <<>>
  <2>1. Len(s) = 0 /\ FlattenSeq(s) = <<>>
    BY <1>5 DEF FlattenSeq
  <2>2. FlattenSeq(t) = x
    BY <1>2, <1>4, <2>1
  <2> QED
    BY <1>1, <2>1, <2>2
<1>6. CASE s # <<>>
  <2>1. PICK f : f \in [1..Len(s) -> Seq(S)] /\ Flattens(f, s, Len(s)) /\ FlattenSeq(s) = f[Len(s)]
    BY <1>6, FlattenIsLast
  <2>2. Len(s) \in 1..Len(s) /\ Len(t) # 1 /\ Len(t) - 1 = Len(s)
    BY <1>2, <1>6
  <2>3. Flattens(g, t, Len(s))
    <3>1. \A i \in 1..Len(s) : i \in 1..Len(t)
      BY <1>2
    <3> QED
      BY <1>2, <1>3, <3>1 DEF Flattens
  <2>4. \A i \in 1..Len(s) : f[i] = g[i]
    <3>1. PICK n \in Nat : n = Len(s)
      BY <1>2
    <3>2. Flattens(f, s, n) /\ Flattens(g, t, n) /\ \A i \in 1..n : t[i] = s[i]
      BY <1>2, <2>1, <2>3, <3>1
    <3>3. \A i \in 1..n : f[i] = g[i]
      <4>1. PICK u : u = t
        OBVIOUS
      <4>2. Flattens(g, u, n) /\ \A i \in 1..n : u[i] = s[i]
        BY <3>2, <4>1
      <4>3. Flattens(f, s, n)
        BY <3>2
      <4> QED
        BY <4>2, <4>3, FlatteningIsOne
    <3> QED
      BY <3>1, <3>3
  <2> QED
    BY <1>1, <1>4, <2>1, <2>2, <2>4
<1> QED
  BY <1>5, <1>6

\* The end of a page: a number of lines, or of all there are.
UpTo(s, n) == IF n < Len(s) THEN n ELSE Len(s)
Begins(s, n) == SubSeq(s, 1, UpTo(s, n))

\* The page of k times the size begins where that of k - 1 times ends.
LEMMA PagesMeet ==
  ASSUME NEW size \in Nat \ {0}, NEW k \in Nat \ {0}
  PROVE  /\ k * size \in Nat /\ (k - 1) * size \in Nat /\ k * size = (k - 1) * size + size /\ k <= k * size
         /\ 1 + (k - 1) * size + size - 1 = k * size /\ (k - 1) * size <= k * size
OBVIOUS

LEMMA PartsMeet ==
  ASSUME NEW S, NEW s \in Seq(S), NEW a \in Nat, NEW b \in Nat, a <= b
  PROVE  Begins(s, a) \o SubSeq(s, a + 1, UpTo(s, b)) = Begins(s, b)
<1>1. Len(s) \in Nat /\ \A i \in 1..Len(s) : s[i] \in S
  OBVIOUS
<1>2. CASE a <= Len(s)
  <2>1. UpTo(s, a) = a /\ UpTo(s, b) \in a..Len(s) /\ a \in (1 - 1)..Len(s) /\ 1 \in 1..(Len(s) + 1)
    BY <1>1, <1>2 DEF UpTo
  <2> QED
    BY <2>1, ConcatAdjacentSubSeq DEF Begins
<1>3. CASE a > Len(s)
  <2>1. UpTo(s, a) = Len(s) /\ UpTo(s, b) = Len(s) /\ Len(s) < a + 1
    BY <1>1, <1>3 DEF UpTo
  <2>2. SubSeq(s, 1, Len(s)) = s
    BY SubSeqFull
  <2>3. SubSeq(s, a + 1, Len(s)) = <<>>
    BY <1>1, <2>1, SubSeqEmpty
  <2>4. s \o <<>> = s
    BY ConcatEmptySeq
  <2> QED
    BY <2>1, <2>2, <2>3, <2>4 DEF Begins
<1>4. a <= Len(s) \/ a > Len(s)
  BY <1>1
<1> QED
  BY <1>2, <1>3, <1>4

LEMMA PartIsText ==
  ASSUME NEW S, NEW s \in Seq(S), NEW a \in Nat \ {0}, NEW b \in Nat
  PROVE  SubSeq(s, a, UpTo(s, b)) \in Seq(S)
<1>1. Len(s) \in Nat /\ \A i \in 1..Len(s) : s[i] \in S
  OBVIOUS
<1>2. UpTo(s, b) \in 0..Len(s)
  BY <1>1 DEF UpTo
<1>3. \A i \in a..UpTo(s, b) : s[i] \in S
  BY <1>1, <1>2
<1> QED
  BY <1>2, <1>3, SubSeqProperties

\* The pages up to the k-th make the text up to k times the size.
LEMMA PagesMakeText ==
  ASSUME NEW S, text \in Seq(S), NEW size \in Nat \ {0}, NEW m \in Nat, Len(text) <= m
  PROVE  FlattenSeq([k \in 1..m |-> Page(1 + (k - 1) * size, size)]) = text
<1> DEFINE pages == [k \in 1..m |-> Page(1 + (k - 1) * size, size)]
<1>1. Len(text) \in Nat
  OBVIOUS
<1>2. ASSUME NEW k \in 1..m
      PROVE  /\ pages[k] \in Seq(S) /\ (k - 1) * size \in Nat /\ k * size \in Nat /\ k <= k * size
             /\ (k - 1) * size <= k * size
             /\ pages[k] = SubSeq(text, (k - 1) * size + 1, UpTo(text, k * size))
  <2> DEFINE a == (k - 1) * size
             b == k * size
  <2>1. /\ b \in Nat /\ a \in Nat /\ k <= b /\ a <= b /\ 1 + a + size - 1 = b
    BY PagesMeet
  <2>2. pages[k] = SubSeq(text, 1 + a, UpTo(text, b))
    BY <2>1 DEF Page, UpTo
  <2> HIDE DEF a, b, pages
  <2>3. 1 + a = a + 1 /\ a + 1 \in Nat \ {0}
    BY <2>1
  <2>4. pages[k] = SubSeq(text, a + 1, UpTo(text, b))
    BY <2>2, <2>3
  <2>5. SubSeq(text, a + 1, UpTo(text, b)) \in Seq(S)
    BY <2>1, <2>3, PartIsText
  <2> QED
    BY <2>1, <2>4, <2>5 DEF a, b
<1>3. pages \in Seq(Seq(S)) /\ Len(pages) = m
  <2>1. pages \in [1..m -> Seq(S)]
    BY <1>2
  <2> HIDE DEF pages
  <2> QED
    BY <2>1
<1> HIDE DEF pages
<1>4. CASE m = 0
  <2>1. pages = <<>> /\ Len(text) = 0 /\ text = <<>>
    BY <1>1, <1>3, <1>4, EmptySeq
  <2> QED
    BY <2>1 DEF FlattenSeq, pages
<1>5. CASE m # 0
  <2>1. pages # <<>>
    BY <1>3, <1>5
  <2>2. PICK g \in [1..Len(pages) -> Seq(S)] : Flattens(g, pages, Len(pages)) /\ FlattenSeq(pages) = g[Len(pages)]
    BY <1>3, <2>1, FlattenIsLast
  <2> DEFINE Wrong == {k \in 1..m : g[k] # Begins(text, k * size)}
  <2>3. Wrong = {}
    <3> SUFFICES ASSUME Wrong # {} PROVE FALSE
      OBVIOUS
    <3>1. Wrong \in SUBSET Nat
      OBVIOUS
    <3> HIDE DEF Wrong
    <3>2. PICK k \in Wrong : \A j \in Wrong : k <= j
      BY <3>1, LeastNumber
    <3>3. k \in 1..m /\ g[k] # Begins(text, k * size)
      BY <3>2 DEF Wrong
    <3>4. g[k] = IF k = 1 THEN pages[k] ELSE g[k - 1] \o pages[k]
      BY <1>3, <2>2, <3>3 DEF Flattens
    <3>5. /\ pages[k] = SubSeq(text, (k - 1) * size + 1, UpTo(text, k * size))
          /\ (k - 1) * size \in Nat /\ k * size \in Nat /\ (k - 1) * size <= k * size
      BY <1>2, <3>3
    <3>6. CASE k = 1
      <4>1. (k - 1) * size = 0
        BY <3>6
      <4>2. 0 + 1 = 1
        OBVIOUS
      <4>3. pages[k] = SubSeq(text, 1, UpTo(text, k * size))
        BY <3>5, <4>1, <4>2
      <4> QED
        BY <3>3, <3>4, <3>6, <4>3 DEF Begins
    <3>7. CASE k # 1
      <4>1. k - 1 \in 1..m /\ ~ (k <= k - 1)
        BY <3>3, <3>7
      <4>2. g[k - 1] = Begins(text, (k - 1) * size)
        BY <3>2, <4>1 DEF Wrong
      <4>3. PICK a, b : a = (k - 1) * size /\ b = k * size
        OBVIOUS
      <4>4. Begins(text, a) \o SubSeq(text, a + 1, UpTo(text, b)) = Begins(text, b)
        BY <3>5, <4>3, PartsMeet
      <4> QED
        BY <3>3, <3>4, <3>5, <3>7, <4>2, <4>3, <4>4
    <3> QED
      BY <3>6, <3>7
  <2>4. g[m] = Begins(text, m * size)
    <3>1. m \in 1..m
      BY <1>5
    <3> QED
      BY <2>3, <3>1
  <2>5. UpTo(text, m * size) = Len(text)
    <3>1. m \in 1..m
      BY <1>5
    <3>2. m * size \in Nat /\ m <= m * size
      BY <1>2, <3>1
    <3> QED
      BY <1>1, <3>2 DEF UpTo
  <2>6. g[m] = text
    BY <2>4, <2>5, SubSeqFull DEF Begins
  <2> QED
    BY <1>3, <2>2, <2>6 DEF pages
<1> QED
  BY <1>4, <1>5

\* Where the parts that are joined meet there is a newline.
LEMMA JoinedMeet ==
  ASSUME NEW S, NEW s \in Seq(S), NEW t \in Seq(S), Len(s) # 0, Len(t) # 0
  PROVE  Joined(s) \o <<"\n">> \o Joined(t) = Joined(s \o t)
<1> DEFINE a == Len(s)
           b == Len(t)
           T == S \cup {"\n"}
           r == s \o t
<1>1. a \in Nat \ {0} /\ b \in Nat \ {0}
  OBVIOUS
<1>2. r \in Seq(S) /\ Len(r) = a + b /\ \A i \in 1..(a + b) : r[i] = IF i <= a THEN s[i] ELSE t[i - a]
  OBVIOUS
<1>3. ASSUME NEW q \in Seq(S), Len(q) # 0
      PROVE  /\ Joined(q) \in Seq(T) /\ Len(Joined(q)) = 2 * Len(q) - 1
             /\ \A i \in 1..(2 * Len(q) - 1) :
                  Joined(q)[i] = IF i % 2 = 1 THEN q[(i + 1) \div 2] ELSE "\n"
  <2>1. Len(q) \in Nat \ {0} /\ \A i \in 1..Len(q) : q[i] \in S
    BY <1>3
  <2>2. PICK n : n = 2 * Len(q) - 1
    OBVIOUS
  <2>3. \A i \in 1..n : i % 2 = 1 => (i + 1) \div 2 \in 1..Len(q)
    BY <2>1, <2>2
  <2>4. Joined(q) = [i \in 1..n |-> IF i % 2 = 1 THEN q[(i + 1) \div 2] ELSE "\n"]
    BY <2>2 DEF Joined
  <2>5. \A i \in 1..n : (IF i % 2 = 1 THEN q[(i + 1) \div 2] ELSE "\n") \in T
    BY <2>1, <2>3
  <2>6. Joined(q) \in [1..n -> T]
    BY <2>4, <2>5
  <2>7. Joined(q) \in Seq(T) /\ Len(Joined(q)) = n
    <3>1. n \in Nat
      BY <2>1, <2>2
    <3> QED
      BY <2>6, <3>1
  <2> QED
    BY <2>2, <2>4, <2>7
<1> HIDE DEF a, b, T, r
<1>4. /\ Joined(s) \in Seq(T) /\ Len(Joined(s)) = 2 * a - 1
      /\ Joined(t) \in Seq(T) /\ Len(Joined(t)) = 2 * b - 1
      /\ Joined(r) \in Seq(T) /\ Len(Joined(r)) = 2 * (a + b) - 1
  <2>1. Len(r) # 0
    BY <1>1, <1>2
  <2> QED
    BY <1>2, <1>3, <2>1 DEF a, b
<1>5. PICK u : u = Joined(s) \o <<"\n">>
  OBVIOUS
<1>6. /\ u \in Seq(T) /\ Len(u) = 2 * a
      /\ \A i \in 1..(2 * a) : u[i] = IF i <= 2 * a - 1 THEN Joined(s)[i] ELSE "\n"
  <2>1. <<"\n">> \in Seq(T) /\ Len(<<"\n">>) = 1 /\ <<"\n">>[1] = "\n"
    BY DEF T
  <2>2. u \in Seq(T) /\ Len(u) = 2 * a - 1 + 1
    BY <1>4, <1>5, <2>1, ConcatProperties
  <2>3. \A i \in 1..(2 * a - 1 + 1) : u[i] = IF i <= 2 * a - 1 THEN Joined(s)[i] ELSE <<"\n">>[i - (2 * a - 1)]
    BY <1>4, <1>5, <2>1, ConcatProperties
  <2>4. 2 * a - 1 + 1 = 2 * a /\ \A i \in 1..(2 * a) : ~ (i <= 2 * a - 1) => i - (2 * a - 1) = 1
    BY <1>1
  <2> QED
    BY <2>1, <2>2, <2>3, <2>4
<1>7. PICK w : w = u \o Joined(t)
  OBVIOUS
<1>8. /\ w \in Seq(T) /\ Len(w) = 2 * (a + b) - 1
      /\ \A i \in 1..(2 * (a + b) - 1) : w[i] = IF i <= 2 * a THEN u[i] ELSE Joined(t)[i - 2 * a]
  <2>1. 2 * a + (2 * b - 1) = 2 * (a + b) - 1
    BY <1>1
  <2>2. w \in Seq(T) /\ Len(w) = Len(u) + Len(Joined(t))
    BY <1>4, <1>6, <1>7, ConcatProperties
  <2>3. \A i \in 1..(Len(u) + Len(Joined(t))) : w[i] = IF i <= Len(u) THEN u[i] ELSE Joined(t)[i - Len(u)]
    BY <1>4, <1>6, <1>7, ConcatProperties
  <2>4. Len(u) = 2 * a /\ Len(u) + Len(Joined(t)) = 2 * (a + b) - 1
    BY <1>4, <1>6, <2>1
  <2> QED
    BY <2>2, <2>3, <2>4
<1>9. ASSUME NEW i \in 1..(2 * (a + b) - 1) PROVE w[i] = Joined(r)[i]
  <2>1. Joined(r)[i] = IF i % 2 = 1 THEN r[(i + 1) \div 2] ELSE "\n"
    <3>1. Len(r) = a + b /\ Len(r) # 0 /\ r \in Seq(S)
      BY <1>1, <1>2
    <3> QED
      BY <1>3, <3>1
  <2>2. CASE i <= 2 * a - 1
    <3>1. i \in 1..(2 * a) /\ i \in 1..(2 * a - 1) /\ i <= 2 * a
      BY <1>1, <2>2
    <3>2. w[i] = Joined(s)[i]
      BY <1>6, <1>8, <2>2, <3>1
    <3>3. Joined(s)[i] = IF i % 2 = 1 THEN s[(i + 1) \div 2] ELSE "\n"
      BY <1>3, <1>4, <3>1 DEF a
    <3>4. i % 2 = 1 => (i + 1) \div 2 \in 1..(a + b) /\ (i + 1) \div 2 <= a
      BY <1>1, <2>2
    <3> QED
      BY <1>2, <2>1, <3>2, <3>3, <3>4
  <2>3. CASE i = 2 * a
    <3>1. i \in 1..(2 * a) /\ ~ (i <= 2 * a - 1) /\ i % 2 # 1
      BY <1>1, <2>3
    <3> QED
      BY <1>6, <1>8, <2>1, <2>3, <3>1
  <2>4. CASE i > 2 * a
    <3>1. ~ (i <= 2 * a) /\ i - 2 * a \in 1..(2 * b - 1) /\ (i - 2 * a) % 2 = i % 2
      BY <1>1, <2>4
    <3>2. w[i] = Joined(t)[i - 2 * a]
      BY <1>8, <3>1
    <3>3. Joined(t)[i - 2 * a] = IF i % 2 = 1 THEN t[(i - 2 * a + 1) \div 2] ELSE "\n"
      BY <1>3, <1>4, <3>1 DEF b
    <3>4. i % 2 = 1 => /\ (i + 1) \div 2 \in 1..(a + b) /\ ~ ((i + 1) \div 2 <= a)
                       /\ (i - 2 * a + 1) \div 2 = (i + 1) \div 2 - a
      BY <1>1, <2>4
    <3> QED
      BY <1>2, <2>1, <3>2, <3>3, <3>4
  <2> QED
    BY <1>1, <2>2, <2>3, <2>4
<1>10. w = Joined(r)
  BY <1>4, <1>8, <1>9, SeqEqual
<1> QED
  BY <1>5, <1>7, <1>10 DEF r

LEMMA PagesHold == ASSUME ToolsInv PROVE PagesTile
<1>1. MaxText \in Nat
  BY FileToolsAssumption
<1>2. text \in Seq(Line) /\ Len(text) <= MaxText
  <2>1. text \in Text
    BY DEF ToolsInv
  <2> QED
    BY <2>1 DEF Text, BoundedSeq, SeqOf
<1>3. ASSUME NEW start \in 1..MaxText, NEW size \in 1..MaxText, NEW more \in 0..MaxText,
             start + size <= Len(text)
      PROVE  VfsPage(start, size) \o <<"\n">> \o VfsPage(start + size, more)
               = VfsPage(start, IF more = 0 THEN 0 ELSE size + more)
  <2>1. Len(text) \in Nat /\ start \in Nat \ {0} /\ size \in Nat \ {0} /\ more \in Nat
    BY <1>1, <1>2
  <2>2. PICK end \in Nat : end = (IF more = 0 THEN Len(text)
                                 ELSE IF start + size + more - 1 < Len(text)
                                      THEN start + size + more - 1 ELSE Len(text))
    BY <2>1
  <2>3. end \in (start + size)..Len(text)
    BY <1>3, <2>1, <2>2
  <2>4. PICK s, t, r : /\ s = SubSeq(text, start, start + size - 1)
                       /\ t = SubSeq(text, start + size, end) /\ r = SubSeq(text, start, end)
    OBVIOUS
  <2>5. VfsPage(start, size) = Joined(s)
    <3>1. start + size - 1 < Len(text) /\ size # 0
      BY <1>3, <2>1
    <3> QED
      BY <2>4, <3>1 DEF VfsPage, Page
  <2>6. VfsPage(start + size, more) = Joined(t)
    BY <2>2, <2>4 DEF VfsPage, Page
  <2>7. VfsPage(start, IF more = 0 THEN 0 ELSE size + more) = Joined(r)
    <3>1. CASE more = 0
      BY <2>2, <2>4, <3>1 DEF VfsPage
    <3>2. CASE more # 0
      <4>1. size + more # 0 /\ start + (size + more) - 1 = start + size + more - 1
        BY <2>1
      <4> QED
        BY <2>2, <2>4, <3>2, <4>1 DEF VfsPage, Page
    <3> QED
      BY <3>1, <3>2
  <2>8. s \o t = r
    <3>1. start \in 1..(Len(text) + 1) /\ start + size - 1 \in (start - 1)..Len(text)
      BY <1>3, <2>1
    <3>2. end \in (start + size - 1)..Len(text) /\ start + size - 1 + 1 = start + size
      BY <2>1, <2>3
    <3> QED
      BY <1>2, <2>4, <3>1, <3>2, ConcatAdjacentSubSeq
  <2>9. s \in Seq(Line) /\ t \in Seq(Line) /\ Len(s) # 0 /\ Len(t) # 0
    <3>1. \A i \in 1..Len(text) : text[i] \in Line
      BY <1>2
    <3>2. \A i \in start..(start + size - 1) : i \in 1..Len(text)
      BY <1>3, <2>1
    <3>3. \A i \in (start + size)..end : i \in 1..Len(text)
      BY <2>1, <2>3
    <3>4. s \in Seq(Line) /\ Len(s) = size
      <4>1. \A i \in start..(start + size - 1) : text[i] \in Line
        BY <3>1, <3>2
      <4>2. start + size - 1 \in Int /\ start \in Int
        BY <2>1
      <4>3. s \in Seq(Line) /\ Len(s) = IF start <= start + size - 1 THEN start + size - 1 - start + 1 ELSE 0
        BY <2>4, <4>1, <4>2, SubSeqProperties
      <4> QED
        BY <2>1, <4>3
    <3>5. t \in Seq(Line) /\ Len(t) # 0
      <4>1. \A i \in (start + size)..end : text[i] \in Line
        BY <3>1, <3>3
      <4>2. start + size \in Int /\ end \in Int /\ start + size <= end
        BY <2>1, <2>3
      <4>3. t \in Seq(Line) /\ Len(t) = end - (start + size) + 1
        BY <2>4, <4>1, <4>2, SubSeqProperties
      <4> QED
        BY <4>2, <4>3
    <3> QED
      BY <2>1, <3>4, <3>5
  <2>10. Joined(s) \o <<"\n">> \o Joined(t) = Joined(s \o t)
    BY <2>9, JoinedMeet
  <2> QED
    BY <2>5, <2>6, <2>7, <2>8, <2>10
<1>4. ASSUME NEW size \in 1..MaxText
      PROVE  FlattenSeq([k \in 1..MaxText |-> Page(1 + (k - 1) * size, size)]) = text
  <2>1. size \in Nat \ {0}
    BY <1>1
  <2> QED
    BY <1>1, <1>2, <2>1, PagesMakeText
<1>5. ASSUME NEW size \in 1..MaxText, size >= Len(text)
      PROVE  VfsPage(1, size) = VfsPage(1, 0)
  <2>1. Len(text) \in Nat /\ size \in Nat \ {0}
    BY <1>1, <1>2
  <2>2. ~ (1 + size - 1 < Len(text)) /\ size # 0
    BY <1>5, <2>1
  <2> QED
    BY <2>2 DEF VfsPage, Page
<1> QED
  BY <1>3, <1>4, <1>5 DEF PagesTile

-----------------------------------------------------------------------------
(***************************************************************************)
(* The tree of sessions.  TreeFits, until a parent that is not there or an *)
(* identifier that is taken is used: each session is one step below its    *)
(* parent and listed once among its children, and the way up from it has   *)
(* as many steps as its depth says and ends at a root.                     *)
(***************************************************************************)
ListedOnce(q, s) == \E i \in DOMAIN q : \A j \in DOMAIN q : q[j] = s <=> j = i

PathIn(N, s, path) ==
  LET n == N[s].depth + 1
  IN /\ path \in [1..n -> DOMAIN N] /\ path[1] = s
     /\ \A k \in 2..n : path[k] = N[path[k - 1]].parent
     /\ N[path[n]].parent = ""

NodeFits(N, s) ==
  /\ N[s].depth = 0 <=> N[s].parent = ""
  /\ N[s].parent # "" =>
       /\ N[s].parent \in DOMAIN N /\ N[s].depth = N[N[s].parent].depth + 1
       /\ ListedOnce(N[N[s].parent].children, s)
  /\ \A i \in DOMAIN N[s].children :
       N[s].children[i] \in DOMAIN N /\ N[N[s].children[i]].parent = s
  /\ \E path : PathIn(N, s, path)

TreeFits ==
  /\ untidy \in Nat
  /\ untidy = 0 => \A s \in DOMAIN nodes : NodeFits(nodes, s)

\* M is N with the session s, that is not in D, as the last child of p.
ChildIsAdded(N, M, D, p, s) ==
  /\ DOMAIN N = D /\ D \subseteq Sessions /\ p \in D /\ s \notin D /\ DOMAIN M = D \cup {s}
  /\ \A r \in D : N[r] \in TreeNodes /\ NodeFits(N, r)
  /\ M[s].parent = p /\ M[s].depth = N[p].depth + 1 /\ M[s].children = <<>>
  /\ \A r \in D : M[r].parent = N[r].parent /\ M[r].depth = N[r].depth
  /\ \A r \in D \ {p} : M[r].children = N[r].children
  /\ M[p].children = Append(N[p].children, s)

LEMMA ChildFits ==
  ASSUME NEW N, NEW M, NEW D, NEW p, NEW s \in Sessions, ChildIsAdded(N, M, D, p, s)
  PROVE  \A r \in DOMAIN M : NodeFits(M, r)
<1> USE DEF ChildIsAdded
<1>1. p # "" /\ \A r \in D : r # ""
  BY BranchesAssumption
<1>2. \A r \in D : N[r].depth \in Nat /\ N[r].children \in Seq(Sessions)
  BY DEF TreeNodes
<1>3. /\ DOMAIN M[p].children = DOMAIN N[p].children \cup {Len(N[p].children) + 1}
      /\ Len(N[p].children) + 1 \notin DOMAIN N[p].children
      /\ M[p].children[Len(N[p].children) + 1] = s
      /\ \A i \in DOMAIN N[p].children : M[p].children[i] = N[p].children[i]
  <2>1. PICK q : q = N[p].children
    OBVIOUS
  <2>2. q \in Seq(Sessions) /\ M[p].children = Append(q, s)
    BY <1>2, <2>1
  <2>3. /\ DOMAIN q = 1..Len(q) /\ Len(q) \in Nat
        /\ DOMAIN Append(q, s) = 1..(Len(q) + 1) /\ Append(q, s)[Len(q) + 1] = s
        /\ \A i \in 1..Len(q) : Append(q, s)[i] = q[i]
    BY <2>2, AppendProperties
  <2>4. 1..(Len(q) + 1) = (1..Len(q)) \cup {Len(q) + 1} /\ Len(q) + 1 \notin 1..Len(q)
    BY <2>3
  <2> QED
    BY <2>1, <2>2, <2>3, <2>4
<1>4. ASSUME NEW r \in D PROVE N[r].depth = 0 <=> N[r].parent = ""
  BY DEF NodeFits
<1>5. ASSUME NEW r \in D, N[r].parent # ""
      PROVE  /\ N[r].parent \in D /\ N[r].depth = N[N[r].parent].depth + 1
             /\ ListedOnce(N[N[r].parent].children, r)
  BY <1>5 DEF NodeFits
<1>6. ASSUME NEW r \in D, NEW i \in DOMAIN N[r].children
      PROVE  N[r].children[i] \in D /\ N[N[r].children[i]].parent = r
  BY <1>6 DEF NodeFits
<1>7. ASSUME NEW r \in D PROVE \E path : PathIn(N, r, path)
  BY DEF NodeFits
<1>8. ASSUME NEW r \in D, NEW path, PathIn(N, r, path) PROVE PathIn(M, r, path)
  <2> DEFINE n == N[r].depth + 1
  <2>1. n \in Nat \ {0} /\ M[r].depth + 1 = n
    BY <1>2
  <2>2. /\ path \in [1..n -> D] /\ path[1] = r
        /\ \A k \in 2..n : path[k] = N[path[k - 1]].parent
        /\ N[path[n]].parent = ""
    BY <1>8 DEF PathIn
  <2> HIDE DEF n
  <2>3. \A k \in 1..n : path[k] \in D
    BY <2>2
  <2>4. \A k \in 2..n : k - 1 \in 1..n /\ M[path[k - 1]].parent = N[path[k - 1]].parent
    BY <2>1, <2>3
  <2>5. n \in 1..n /\ M[path[n]].parent = N[path[n]].parent
    BY <2>1, <2>3
  <2>6. path \in [1..n -> DOMAIN M]
    BY <2>2
  <2>7. PICK m : m = M[r].depth + 1
    OBVIOUS
  <2>8. m = n
    BY <2>1, <2>7
  <2>9. /\ path \in [1..m -> DOMAIN M] /\ path[1] = r
        /\ \A k \in 2..m : path[k] = M[path[k - 1]].parent
        /\ M[path[m]].parent = ""
    BY <2>2, <2>4, <2>5, <2>6, <2>8
  <2> QED
    BY <2>7, <2>9 DEF PathIn
<1>9. \E path : PathIn(M, s, path)
  <2>1. PICK up : PathIn(M, p, up)
    BY <1>7, <1>8
  <2>2. PICK n : n = M[p].depth + 1
    OBVIOUS
  <2>3. n \in Nat \ {0} /\ M[s].depth + 1 = n + 1
    BY <1>2, <2>2
  <2>4. /\ up \in [1..n -> DOMAIN M] /\ up[1] = p
        /\ \A k \in 2..n : up[k] = M[up[k - 1]].parent
        /\ M[up[n]].parent = ""
    BY <2>1, <2>2 DEF PathIn
  <2> DEFINE path == [k \in 1..(n + 1) |-> IF k = 1 THEN s ELSE up[k - 1]]
  <2>5. path[1] = s /\ \A k \in 2..(n + 1) : path[k] = up[k - 1] /\ k - 1 \in 1..n
    BY <2>3
  <2>6. path \in [1..(n + 1) -> DOMAIN M]
    <3> SUFFICES ASSUME NEW k \in 1..(n + 1) PROVE (IF k = 1 THEN s ELSE up[k - 1]) \in DOMAIN M
      OBVIOUS
    <3>1. k # 1 => k - 1 \in 1..n
      BY <2>3
    <3> HIDE DEF path
    <3> QED
      BY <2>4, <3>1
  <2> HIDE DEF path
  <2>7. ASSUME NEW k \in 2..(n + 1) PROVE path[k] = M[path[k - 1]].parent
    <3>1. CASE k = 2
      <4>1. k - 1 = 1
        BY <3>1
      <4>2. path[k] = up[1] /\ path[1] = s /\ up[1] = p
        BY <2>4, <2>5, <4>1
      <4>3. M[path[k - 1]].parent = p
        BY <4>1, <4>2
      <4> QED
        BY <4>2, <4>3
    <3>2. CASE k # 2
      <4>1. k - 1 \in 2..n /\ k - 1 \in 2..(n + 1)
        BY <2>3, <3>2
      <4>2. path[k] = up[k - 1] /\ path[k - 1] = up[(k - 1) - 1]
        BY <2>5, <4>1
      <4>3. up[k - 1] = M[up[(k - 1) - 1]].parent
        BY <2>4, <4>1
      <4> QED
        BY <4>2, <4>3
    <3> QED
      BY <3>1, <3>2
  <2>8. path[n + 1] = up[n]
    <3>1. n + 1 \in 2..(n + 1) /\ (n + 1) - 1 = n
      BY <2>3
    <3> QED
      BY <2>5, <3>1
  <2>9. PICK m : m = M[s].depth + 1
    OBVIOUS
  <2>10. m = n + 1
    BY <2>3, <2>9
  <2>11. PathIn(M, s, path)
    BY <2>4, <2>5, <2>6, <2>7, <2>8, <2>9, <2>10 DEF PathIn
  <2> QED
    BY <2>11
<1>10. NodeFits(M, s)
  <2>1. M[s].depth = N[p].depth + 1 /\ N[p].depth \in Nat /\ M[p].depth = N[p].depth
    BY <1>2
  <2>2. ~ (M[s].depth = 0) /\ M[s].parent = p /\ p \in DOMAIN M /\ M[s].depth = M[p].depth + 1
    BY <2>1
  <2>3. ListedOnce(M[p].children, s)
    <3>1. \A i \in DOMAIN N[p].children : M[p].children[i] # s
      BY <1>3, <1>6
    <3> QED
      BY <1>3, <3>1 DEF ListedOnce
  <2>4. DOMAIN M[s].children = {}
    BY EmptyHasNoDomain
  <2>5. \A i \in DOMAIN M[s].children :
          M[s].children[i] \in DOMAIN M /\ M[M[s].children[i]].parent = s
    BY <2>4
  <2>6. M[s].depth = 0 <=> M[s].parent = ""
    BY <1>1, <2>2
  <2>7. M[s].parent # "" =>
          /\ M[s].parent \in DOMAIN M /\ M[s].depth = M[M[s].parent].depth + 1
          /\ ListedOnce(M[M[s].parent].children, s)
    BY <2>2, <2>3
  <2>8. \E path : PathIn(M, s, path)
    BY <1>9
  <2> HIDE DEF ChildIsAdded
  <2> QED
    BY <2>5, <2>6, <2>7, <2>8 DEF NodeFits
<1>11. ASSUME NEW r \in D PROVE NodeFits(M, r)
  <2>1. M[r].depth = 0 <=> M[r].parent = ""
    BY <1>4
  <2>2. ASSUME M[r].parent # ""
        PROVE  /\ M[r].parent \in DOMAIN M /\ M[r].depth = M[M[r].parent].depth + 1
               /\ ListedOnce(M[M[r].parent].children, r)
    <3>1. PICK u : u = N[r].parent
      OBVIOUS
    <3>2. u \in D /\ N[r].depth = N[u].depth + 1 /\ ListedOnce(N[u].children, r) /\ M[r].parent = u
      <4>1. M[r].parent = u /\ N[r].parent # ""
        BY <2>2, <3>1
      <4>2. N[r].parent \in D /\ N[r].depth = N[N[r].parent].depth + 1 /\ ListedOnce(N[N[r].parent].children, r)
        BY <1>5, <4>1
      <4> QED
        BY <3>1, <4>1, <4>2
    <3>3. ListedOnce(M[u].children, r)
      <4>1. CASE u = p
        <5>1. r # s
          OBVIOUS
        <5>2. PICK i \in DOMAIN N[p].children : \A j \in DOMAIN N[p].children : N[p].children[j] = r <=> j = i
          BY <3>2, <4>1 DEF ListedOnce
        <5>3. i \in DOMAIN M[p].children /\ i # Len(N[p].children) + 1
          BY <1>3, <5>2
        <5>4. ASSUME NEW j \in DOMAIN M[p].children PROVE M[p].children[j] = r <=> j = i
          <6>1. CASE j = Len(N[p].children) + 1
            BY <1>3, <5>1, <5>3, <6>1
          <6>2. CASE j # Len(N[p].children) + 1
            BY <1>3, <5>2, <6>2
          <6> QED
            BY <6>1, <6>2
        <5>5. ListedOnce(M[p].children, r)
          BY <5>3, <5>4 DEF ListedOnce
        <5> QED
          BY <4>1, <5>5
      <4>2. CASE u # p
        BY <3>2, <4>2
      <4> QED
        BY <4>1, <4>2
    <3> QED
      BY <3>2, <3>3
  <2>3. ASSUME NEW i \in DOMAIN M[r].children
        PROVE  M[r].children[i] \in DOMAIN M /\ M[M[r].children[i]].parent = r
    <3>1. CASE r = p /\ i = Len(N[p].children) + 1
      BY <1>3, <3>1
    <3>2. CASE ~ (r = p /\ i = Len(N[p].children) + 1)
      <4>1. i \in DOMAIN N[r].children /\ M[r].children[i] = N[r].children[i]
        BY <1>3, <2>3, <3>2
      <4> QED
        BY <1>6, <4>1
    <3> QED
      BY <3>1, <3>2
  <2>4. \E path : PathIn(M, r, path)
    BY <1>7, <1>8
  <2> QED
    BY <2>1, <2>2, <2>3, <2>4 DEF NodeFits
<1> QED
  BY <1>10, <1>11

LEMMA OneIsAll ==
  ASSUME NEW d, d = 0
  PROVE  d + 1 = 1 /\ 1 \in 1..1 /\ 2..1 = {} /\ \A S : \A e \in S : [k \in 1..1 |-> e] \in [1..1 -> S] /\ [k \in 1..1 |-> e][1] = e
<1>1. d + 1 = 1
  OBVIOUS
<1>2. 1 \in 1..1
  OBVIOUS
<1>3. 2..1 = {}
  OBVIOUS
<1>4. ASSUME NEW S, NEW e \in S PROVE [k \in 1..1 |-> e] \in [1..1 -> S] /\ [k \in 1..1 |-> e][1] = e
  BY <1>2
<1> QED
  BY <1>1, <1>2, <1>3, <1>4

LEMMA OneStepPath ==
  ASSUME NEW N, NEW s \in DOMAIN N, NEW d, N[s].depth = d, d = 0, N[s].parent = ""
  PROVE  \E path : PathIn(N, s, path)
<1>1. d + 1 = 1 /\ 1 \in 1..1 /\ 2..1 = {} /\ [k \in 1..1 |-> s] \in [1..1 -> DOMAIN N] /\ [k \in 1..1 |-> s][1] = s
  BY OneIsAll
<1>2. PathIn(N, s, [k \in 1..1 |-> s])
  BY <1>1 DEF PathIn
<1> QED
  BY <1>2

LEMMA LenOfPath ==
  ASSUME NEW S, NEW n \in Nat, NEW path \in [1..n -> S]
  PROVE  Len(path) = n
OBVIOUS

\* A root alone.
LEMMA RootFits ==
  ASSUME NEW N, NEW s, DOMAIN N = {s}, NEW node, N[s] = node,
         node.parent = "", node.children = <<>>, node.depth = 0
  PROVE  \A r \in DOMAIN N : NodeFits(N, r)
<1>1. N[s].parent = "" /\ N[s].children = <<>> /\ N[s].depth = 0
  OBVIOUS
<1>2. DOMAIN N[s].children = {}
  BY <1>1, EmptyHasNoDomain
<1>3. \E path : PathIn(N, s, path)
  <2>1. s \in DOMAIN N
    OBVIOUS
  <2> QED
    BY <1>1, <2>1, OneStepPath
<1> QED
  BY <1>1, <1>2, <1>3 DEF NodeFits

LEMMA TreeFitsFirst == BranchesInit => TreeFits
<1> SUFFICES ASSUME BranchesInit PROVE TreeFits
  OBVIOUS
<1>1. nodes = <<>> /\ untidy = 0
  BY DEF BranchesInit
<1>2. DOMAIN nodes = {}
  BY <1>1, EmptyHasNoDomain
<1> QED
  BY <1>1, <1>2 DEF TreeFits

LEMMA TreeFitsStep == ASSUME BranchesInv, TreeFits, [BranchesNext \/ TreeNext]_branchVars PROVE TreeFits'
<1>0. untidy \in Nat /\ (untidy = 0 => \A s \in DOMAIN nodes : NodeFits(nodes, s))
  BY DEF TreeFits
<1>1. ASSUME UNCHANGED <<nodes, untidy>> PROVE TreeFits'
  BY <1>1 DEF TreeFits
<1>2. CASE UNCHANGED branchVars
  BY <1>1, <1>2 DEF branchVars, treeVars
<1>3. CASE BranchesNext
  <2>1. UNCHANGED <<nodes, untidy>>
    BY <1>3 DEF BranchesNext, Continue, Fork, DeleteFork, NewProcess, NextSecond, treeVars
  <2> QED
    BY <1>1, <2>1
<1>4. ASSUME NEW s \in Sessions, SetRoot(s) PROVE TreeFits'
  <2> DEFINE node == [parent |-> "", children |-> <<>>, depth |-> 0]
  <2>1. /\ nodes' = Extended(nodes, s, node)
        /\ untidy' = IF nodes = <<>> THEN untidy ELSE untidy + 1
    BY <1>4 DEF SetRoot, Tidily
  <2> HIDE DEF node
  <2>2. DOMAIN nodes' = DOMAIN nodes \cup {s} /\ nodes'[s] = node
    BY <2>1 DEF Extended
  <2>3. untidy' \in Nat
    BY <1>0, <2>1
  <2>4. ASSUME untidy' = 0 PROVE \A r \in DOMAIN nodes' : NodeFits(nodes', r)
    <3>1. nodes = <<>>
      BY <1>0, <2>1, <2>4
    <3>2. DOMAIN nodes' = {s}
      BY <2>2, <3>1, EmptyHasNoDomain
    <3>3. node.parent = "" /\ node.children = <<>> /\ node.depth = 0
      BY DEF node
    <3>4. PICK N : N = nodes'
      OBVIOUS
    <3>5. \A r \in DOMAIN N : NodeFits(N, r)
      BY <2>2, <3>2, <3>3, <3>4, RootFits
    <3> QED
      BY <3>4, <3>5
  <2> QED
    BY <2>3, <2>4 DEF TreeFits
<1>5. ASSUME NEW p \in Sessions, NEW s \in Sessions, AddChild(p, s) PROVE TreeFits'
  <2> DEFINE isKnown == p \in DOMAIN nodes
             node == [parent |-> p, children |-> <<>>, depth |-> IF isKnown THEN nodes[p].depth + 1 ELSE 0]
             before == [nodes EXCEPT ![p].children = Append(@, s)]
  <2>1. /\ nodes' = IF isKnown /\ p # s THEN Extended(before, s, node) ELSE Extended(nodes, s, node)
        /\ untidy' = IF isKnown /\ s \notin DOMAIN nodes THEN untidy ELSE untidy + 1
    BY <1>5 DEF AddChild, Tidily
  <2>2. untidy' \in Nat
    BY <1>0, <2>1
  <2>3. ASSUME untidy' = 0 PROVE \A r \in DOMAIN nodes' : NodeFits(nodes', r)
    <3>1. isKnown /\ s \notin DOMAIN nodes /\ untidy = 0 /\ p # s
      BY <1>0, <2>1, <2>3
    <3>2. nodes' = Extended(before, s, node)
      BY <2>1, <3>1
    <3>3. /\ DOMAIN before = DOMAIN nodes
          /\ \A r \in DOMAIN nodes : before[r].parent = nodes[r].parent /\ before[r].depth = nodes[r].depth
          /\ \A r \in DOMAIN nodes \ {p} : before[r].children = nodes[r].children
          /\ before[p].children = Append(nodes[p].children, s)
      <4>1. nodes[p] \in TreeNodes
        BY <3>1 DEF BranchesInv
      <4> QED
        BY <3>1, <4>1 DEF TreeNodes
    <3>4. node.parent = p /\ node.depth = nodes[p].depth + 1 /\ node.children = <<>>
      BY <3>1
    <3> HIDE DEF before, node
    <3>5. /\ DOMAIN nodes' = DOMAIN nodes \cup {s} /\ nodes'[s] = node
          /\ \A r \in DOMAIN nodes : nodes'[r] = before[r]
      BY <3>1, <3>2, <3>3 DEF Extended
    <3>6. /\ DOMAIN nodes \subseteq Sessions /\ \A r \in DOMAIN nodes : nodes[r] \in TreeNodes
      BY DEF BranchesInv
    <3>7. \A r \in DOMAIN nodes : NodeFits(nodes, r)
      BY <1>0, <3>1
    <3>8. PICK N, M, D : N = nodes /\ M = nodes' /\ D = DOMAIN nodes
      OBVIOUS
    <3>9. \A r \in DOMAIN M : NodeFits(M, r)
      <4>1. /\ DOMAIN N = D /\ D \subseteq Sessions /\ p \in D /\ s \notin D /\ DOMAIN M = D \cup {s}
            /\ \A r \in D : N[r] \in TreeNodes
            /\ \A r \in D : NodeFits(N, r)
        BY <3>1, <3>5, <3>6, <3>7, <3>8
      <4>2. /\ M[s].parent = p /\ M[s].depth = N[p].depth + 1 /\ M[s].children = <<>>
            /\ \A r \in D : M[r].parent = N[r].parent /\ M[r].depth = N[r].depth
            /\ \A r \in D \ {p} : M[r].children = N[r].children
            /\ M[p].children = Append(N[p].children, s)
        BY <3>1, <3>3, <3>4, <3>5, <3>8
      <4> QED
        <5>1. ChildIsAdded(N, M, D, p, s)
          BY <4>1, <4>2 DEF ChildIsAdded
        <5> QED
          BY <5>1, ChildFits
    <3> QED
      BY <3>8, <3>9
  <2> QED
    BY <2>2, <2>3 DEF TreeFits
<1>6. ASSUME NEW s \in Sessions, NavigateTo(s) PROVE TreeFits'
  BY <1>1, <1>6 DEF NavigateTo
<1>7. CASE NavigateParent
  BY <1>1, <1>7 DEF NavigateParent
<1>8. ASSUME NEW k \in 1..Cardinality(Sessions), NavigateChild(k) PROVE TreeFits'
  BY <1>1, <1>8 DEF NavigateChild
<1> QED
  BY <1>2, <1>3, <1>4, <1>5, <1>6, <1>7, <1>8 DEF TreeNext

LEMMA TreeHolds == ASSUME BranchesInv, TreeFits PROVE TreeIsATree
<1> SUFFICES ASSUME untidy = 0, NEW s \in DOMAIN nodes
             PROVE  /\ nodes[s].depth = 0 <=> nodes[s].parent = ""
                    /\ \A p \in DOMAIN nodes :
                         Cardinality({i \in DOMAIN nodes[p].children : nodes[p].children[i] = s})
                           = (IF nodes[s].parent = p THEN 1 ELSE 0)
                    /\ nodes[s].depth > 0 => nodes[nodes[s].parent].depth = nodes[s].depth - 1
                    /\ \E path \in [1..(nodes[s].depth + 1) -> DOMAIN nodes] :
                         path[1] = s /\ IsPath(path) /\ nodes[Last(path)].parent = ""
  BY DEF TreeIsATree
<1>1. \A r \in DOMAIN nodes : NodeFits(nodes, r)
  BY DEF TreeFits
<1>2. \A r \in DOMAIN nodes : r # "" /\ nodes[r] \in TreeNodes
  BY BranchesAssumption DEF BranchesInv
<1>3. nodes[s].depth = 0 <=> nodes[s].parent = ""
  BY <1>1 DEF NodeFits
<1>4. ASSUME NEW p \in DOMAIN nodes
      PROVE  Cardinality({i \in DOMAIN nodes[p].children : nodes[p].children[i] = s})
               = (IF nodes[s].parent = p THEN 1 ELSE 0)
  <2> DEFINE At == {i \in DOMAIN nodes[p].children : nodes[p].children[i] = s}
  <2>1. CASE nodes[s].parent = p
    <3>1. ListedOnce(nodes[p].children, s)
      BY <1>1, <1>2, <2>1 DEF NodeFits
    <3>2. PICK i : At = {i}
      BY <3>1 DEF ListedOnce
    <3> QED
      BY <2>1, <3>2, FS_Singleton
  <2>2. CASE nodes[s].parent # p
    <3>1. \A i \in DOMAIN nodes[p].children : nodes[nodes[p].children[i]].parent = p
      BY <1>1 DEF NodeFits
    <3>2. At = {}
      BY <2>2, <3>1
    <3> QED
      BY <2>2, <3>2, FS_EmptySet
  <2> QED
    BY <2>1, <2>2
<1>5. nodes[s].depth > 0 => nodes[nodes[s].parent].depth = nodes[s].depth - 1
  <2> SUFFICES ASSUME nodes[s].depth > 0 PROVE nodes[nodes[s].parent].depth = nodes[s].depth - 1
    OBVIOUS
  <2>0. ~ (nodes[s].depth = 0)
    OBVIOUS
  <2>1. nodes[s].parent # ""
    BY <1>3, <2>0
  <2>2. nodes[s].parent \in DOMAIN nodes /\ nodes[s].depth = nodes[nodes[s].parent].depth + 1
    BY <1>1, <2>1 DEF NodeFits
  <2>3. nodes[nodes[s].parent].depth \in Nat
    BY <1>2, <2>2 DEF TreeNodes
  <2> QED
    BY <2>2, <2>3
<1>6. \E path \in [1..(nodes[s].depth + 1) -> DOMAIN nodes] :
         path[1] = s /\ IsPath(path) /\ nodes[Last(path)].parent = ""
  <2>1. PICK path : PathIn(nodes, s, path)
    BY <1>1 DEF NodeFits
  <2>2. PICK n : n = nodes[s].depth + 1
    OBVIOUS
  <2>3. n \in Nat \ {0}
    <3>1. nodes[s].depth \in Nat
      BY <1>2 DEF TreeNodes
    <3> QED
      BY <2>2, <3>1
  <2>4. /\ path \in [1..n -> DOMAIN nodes] /\ path[1] = s
        /\ \A k \in 2..n : path[k] = nodes[path[k - 1]].parent
        /\ nodes[path[n]].parent = ""
    BY <2>1, <2>2 DEF PathIn
  <2>5. Len(path) = n /\ Last(path) = path[n]
    <3>1. n \in Nat
      BY <2>3
    <3>2. Len(path) = n
      BY <2>4, <3>1, LenOfPath
    <3> QED
      BY <3>2 DEF Last
  <2>6. "" \notin DOMAIN nodes
    BY <1>2
  <2>7. IsPath(path)
    BY <2>4, <2>5, <2>6 DEF IsPath
  <2> QED
    BY <2>2, <2>4, <2>5, <2>7
<1> QED
  BY <1>3, <1>4, <1>5, <1>6

-----------------------------------------------------------------------------
(***************************************************************************)
(* Forks.  ForkInv: a file whose name was given once has the entries of    *)
(* the lines it was made of, and behind them its own; and while the file   *)
(* it was made from is there under such a name too, that one begins with   *)
(* the same entries.                                                       *)
(***************************************************************************)
IsRun(s) == s \in Seq(Nat)
AreLines(L) == L \in Seq(Seq(Nat)) /\ \A i \in DOMAIN L : L[i] # <<>>
OpensWith(a, s) == \E r : IsRun(r) /\ s = a \o r
Grown(s, x, t) == t = s \o x

LEMMA RunsGroup ==
  ASSUME NEW s, NEW t, NEW u, IsRun(s), IsRun(t), IsRun(u)
  PROVE  Groups(s, t, u)
BY JoinsGroup DEF IsRun

LEMMA RunsJoin ==
  ASSUME NEW s, NEW t, IsRun(s), IsRun(t)
  PROVE  IsRun(s \o t) /\ Len(s \o t) = Len(s) + Len(t) /\ Len(s) \in Nat /\ Len(t) \in Nat
BY DEF IsRun

LEMMA OpensItself == ASSUME NEW a, IsRun(a) PROVE OpensWith(a, a)
<1>1. a = a \o <<>> /\ IsRun(<<>>)
  BY DEF IsRun
<1> QED
  BY <1>1 DEF OpensWith

LEMMA OpensFurther ==
  ASSUME NEW a, NEW s, NEW x, NEW t, IsRun(a), IsRun(x), OpensWith(a, s), Grown(s, x, t)
  PROVE  OpensWith(a, t)
<1>1. PICK r : IsRun(r) /\ s = a \o r
  BY DEF OpensWith
<1>2. PICK y : y = r \o x
  OBVIOUS
<1>3. IsRun(y)
  BY <1>1, <1>2, RunsJoin
<1>4. Groups(a, r, x)
  BY <1>1, RunsGroup
<1>5. t = a \o y
  BY <1>1, <1>2, <1>4 DEF Groups, Grown
<1> QED
  BY <1>3, <1>5 DEF OpensWith

LEMMA OpensThrough ==
  ASSUME NEW a, NEW s, NEW t, IsRun(a), OpensWith(a, s), OpensWith(s, t)
  PROVE  OpensWith(a, t)
<1>1. PICK x : IsRun(x) /\ t = s \o x
  BY DEF OpensWith
<1>2. Grown(s, x, t)
  BY <1>1 DEF Grown
<1> QED
  BY <1>1, <1>2, OpensFurther

LEMMA OpensIsPrefix ==
  ASSUME NEW a, NEW s, IsRun(a), OpensWith(a, s)
  PROVE  IsPrefix(a, s)
<1>1. PICK r : IsRun(r) /\ s = a \o r
  BY DEF OpensWith
<1>2. PICK n, m : n = Len(a) /\ m = Len(s)
  OBVIOUS
<1>3. n \in Nat /\ m \in Nat /\ n <= m /\ s \in Seq(Nat) /\ a \in Seq(Nat)
  BY <1>1, <1>2, RunsJoin DEF IsRun
<1>4. \A i \in 1..n : s[i] = a[i]
  BY <1>1, <1>2, <1>3 DEF IsRun
<1>5. SubSeq(a, 1, n) = SubSeq(s, 1, n)
  <2>1. PICK u, v : u = SubSeq(a, 1, n) /\ v = SubSeq(s, 1, n)
    OBVIOUS
  <2>2. u \in Seq(Nat) /\ v \in Seq(Nat) /\ Len(u) = n /\ Len(v) = n
    BY <1>2, <1>3, <2>1, SubSeqProperties
  <2>3. \A i \in 1..n : u[i] = a[i] /\ v[i] = s[i]
    BY <1>2, <1>3, <2>1, SubSeqProperties
  <2>4. \A i \in 1..n : u[i] = v[i]
    BY <1>4, <2>3
  <2>5. u = v
    BY <2>2, <2>4, SeqEqual
  <2> QED
    BY <2>1, <2>5
<1> QED
  BY <1>2, <1>3, <1>5 DEF IsPrefix

\* What Reverse(b) and Reverse(a \o b) hold.
LEMMA EndsIsSuffix ==
  ASSUME NEW a, NEW b, NEW s, IsRun(a), IsRun(b), Grown(a, b, s)
  PROVE  IsSuffix(b, s) /\ Len(s) - Len(b) = Len(a) /\ SubSeq(s, 1, Len(s) - Len(b)) = a
<1>1. PICK k, n, m : k = Len(a) /\ n = Len(b) /\ m = Len(s)
  OBVIOUS
<1>2. /\ k \in Nat /\ n \in Nat /\ m = k + n
      /\ a \in Seq(Nat) /\ b \in Seq(Nat) /\ s \in Seq(Nat)
  BY <1>1, RunsJoin DEF Grown, IsRun
<1>3. /\ \A i \in 1..k : s[i] = a[i]
      /\ \A i \in 1..n : s[k + i] = b[i]
  <2>1. s = a \o b
    BY DEF Grown
  <2> QED
    BY <1>1, <1>2, <2>1, ConcatProperties
<1>4. PICK u, v : u = Reverse(b) /\ v = Reverse(s)
  OBVIOUS
<1>5. /\ u \in Seq(Nat) /\ Len(u) = n /\ \A i \in 1..n : u[i] = b[(n - i) + 1]
      /\ v \in Seq(Nat) /\ Len(v) = m /\ \A i \in 1..m : v[i] = s[(m - i) + 1]
  <2>1. ASSUME NEW j \in Nat, NEW q \in Seq(Nat), Len(q) = j
        PROVE  /\ Reverse(q) \in Seq(Nat) /\ Len(Reverse(q)) = j
               /\ \A i \in 1..j : Reverse(q)[i] = q[(j - i) + 1]
    <3>1. \A i \in 1..j : (j - i) + 1 \in 1..j
      OBVIOUS
    <3>2. \A i \in 1..j : q[(j - i) + 1] \in Nat
      BY <2>1, <3>1
    <3>3. Reverse(q) = [i \in 1..j |-> q[(j - i) + 1]]
      BY <2>1 DEF Reverse
    <3> QED
      BY <3>2, <3>3
  <2>2. m \in Nat
    BY <1>2
  <2>3. /\ Reverse(b) \in Seq(Nat) /\ Len(Reverse(b)) = n
        /\ \A i \in 1..n : Reverse(b)[i] = b[(n - i) + 1]
    BY <1>1, <1>2, <2>1
  <2>4. /\ Reverse(s) \in Seq(Nat) /\ Len(Reverse(s)) = m
        /\ \A i \in 1..m : Reverse(s)[i] = s[(m - i) + 1]
    BY <1>1, <1>2, <2>1, <2>2
  <2> QED
    BY <1>4, <2>3, <2>4
<1>6. \A i \in 1..n : u[i] = v[i]
  <2> SUFFICES ASSUME NEW i \in 1..n PROVE u[i] = v[i]
    OBVIOUS
  <2>1. i \in 1..m /\ (n - i) + 1 \in 1..n /\ (m - i) + 1 = k + ((n - i) + 1)
    BY <1>2
  <2>2. PICK j : j = (n - i) + 1
    OBVIOUS
  <2>3. u[i] = b[j] /\ v[i] = s[k + j] /\ j \in 1..n
    BY <1>5, <2>1, <2>2
  <2> QED
    BY <1>3, <2>3
<1>7. IsPrefix(u, v)
  <2>1. PICK x, y : x = SubSeq(u, 1, n) /\ y = SubSeq(v, 1, n)
    OBVIOUS
  <2>2. \A i \in 1..n : u[i] \in Nat /\ v[i] \in Nat
    <3>1. \A i \in 1..n : i \in 1..Len(u) /\ i \in 1..Len(v)
      BY <1>2, <1>5
    <3>2. \A i \in 1..Len(u) : u[i] \in Nat
      BY <1>5
    <3>3. \A i \in 1..Len(v) : v[i] \in Nat
      BY <1>5
    <3> QED
      BY <3>1, <3>2, <3>3
  <2>3. x \in Seq(Nat) /\ y \in Seq(Nat) /\ Len(x) = n /\ Len(y) = n
    BY <1>2, <2>1, <2>2, SubSeqProperties
  <2>4. \A i \in 1..n : x[i] = u[i] /\ y[i] = v[i]
    BY <1>2, <2>1, <2>2, SubSeqProperties
  <2>5. \A i \in 1..n : x[i] = y[i]
    BY <1>6, <2>4
  <2>6. x = y
    BY <2>3, <2>5, SeqEqual
  <2>7. n <= m
    BY <1>2
  <2> QED
    BY <1>5, <2>1, <2>6, <2>7 DEF IsPrefix
<1>8. SubSeq(s, 1, k) = a
  <2>1. PICK x : x = SubSeq(s, 1, k)
    OBVIOUS
  <2>2. \A i \in 1..k : s[i] \in Nat
    BY <1>1, <1>2, <1>3
  <2>3. x \in Seq(Nat) /\ Len(x) = k
    BY <1>2, <2>1, <2>2, SubSeqProperties
  <2>4. \A i \in 1..k : x[i] = s[i]
    BY <1>2, <2>1, <2>2, SubSeqProperties
  <2>5. \A i \in 1..k : x[i] = a[i]
    BY <1>3, <2>4
  <2>6. x = a
    BY <1>1, <1>2, <2>3, <2>5, SeqEqual
  <2> QED
    BY <2>1, <2>6
<1>9. m - n = k
  BY <1>2
<1> QED
  BY <1>1, <1>4, <1>7, <1>8, <1>9 DEF IsSuffix

\* The first k lines and one more.
LEMMA OneLineMore ==
  ASSUME NEW L, AreLines(L), NEW k \in Nat, k < Len(L)
  PROVE  /\ AreLines(SubSeq(L, 1, k)) /\ Len(SubSeq(L, 1, k)) = k
         /\ SubSeq(L, 1, k + 1) = Append(SubSeq(L, 1, k), L[k + 1])
         /\ IsRun(FlattenSeq(SubSeq(L, 1, k))) /\ IsRun(L[k + 1]) /\ L[k + 1] # <<>>
         /\ Grown(FlattenSeq(SubSeq(L, 1, k)), L[k + 1], FlattenSeq(SubSeq(L, 1, k + 1)))
<1>1. PICK n : n = Len(L)
  OBVIOUS
<1>2. L \in Seq(Seq(Nat)) /\ n \in Nat /\ k < n /\ DOMAIN L = 1..n
  BY <1>1 DEF AreLines
<1>3. PICK s, t, x : s = SubSeq(L, 1, k) /\ t = SubSeq(L, 1, k + 1) /\ x = L[k + 1]
  OBVIOUS
<1>4. x \in Seq(Nat) /\ x # <<>>
  <2>1. k + 1 \in 1..n
    BY <1>2
  <2> QED
    BY <1>2, <1>3, <2>1 DEF AreLines
<1>5. \A i \in 1..(k + 1) : i \in 1..n /\ L[i] \in Seq(Nat) /\ L[i] # <<>>
  <2>1. \A i \in 1..(k + 1) : i \in 1..n
    BY <1>2
  <2>2. \A i \in 1..n : L[i] \in Seq(Nat)
    BY <1>1, <1>2
  <2>3. \A i \in DOMAIN L : L[i] # <<>>
    BY DEF AreLines
  <2> QED
    BY <1>2, <2>1, <2>2, <2>3
<1>6. /\ s \in Seq(Seq(Nat)) /\ Len(s) = k /\ \A i \in 1..k : s[i] = L[i]
      /\ t \in Seq(Seq(Nat)) /\ Len(t) = k + 1 /\ \A i \in 1..(k + 1) : t[i] = L[i]
  BY <1>2, <1>3, <1>5, SubSeqProperties
<1>7. AreLines(s)
  <2>1. DOMAIN s = 1..k
    BY <1>6
  <2>2. \A i \in 1..k : i \in 1..(k + 1)
    OBVIOUS
  <2> QED
    BY <1>5, <1>6, <2>1, <2>2 DEF AreLines
<1>8. t = Append(s, x)
  <2>1. PICK r : r = Append(s, x)
    OBVIOUS
  <2>2. r \in Seq(Seq(Nat)) /\ Len(r) = k + 1 /\ r[k + 1] = x /\ \A i \in 1..k : r[i] = s[i]
    BY <1>4, <1>6, <2>1, AppendProperties
  <2>3. \A i \in 1..(k + 1) : r[i] = t[i]
    <3> SUFFICES ASSUME NEW i \in 1..(k + 1) PROVE r[i] = t[i]
      OBVIOUS
    <3>1. CASE i = k + 1
      BY <1>3, <1>6, <2>2, <3>1
    <3>2. CASE i \in 1..k
      BY <1>6, <2>2, <3>2
    <3> QED
      BY <3>1, <3>2
  <2>4. r = t
    BY <1>6, <2>2, <2>3, SeqEqual
  <2> QED
    BY <2>1, <2>4
<1>9. FlattenSeq(s) \in Seq(Nat) /\ FlattenSeq(t) = FlattenSeq(s) \o x
  BY <1>4, <1>6, <1>8, FlattenAppend
<1> QED
  BY <1>3, <1>4, <1>6, <1>7, <1>8, <1>9 DEF IsRun, Grown

LEMMA WholeIsLines ==
  ASSUME NEW L, AreLines(L)
  PROVE  SubSeq(L, 1, Len(L)) = L /\ Len(L) \in Nat /\ IsRun(FlattenSeq(L))
<1>1. PICK n : n = Len(L)
  OBVIOUS
<1>2. L \in Seq(Seq(Nat)) /\ n \in Nat
  BY <1>1 DEF AreLines
<1>3. PICK t : t = SubSeq(L, 1, n)
  OBVIOUS
<1>4. \A i \in 1..n : L[i] \in Seq(Nat)
  BY <1>1, <1>2
<1>5. t \in Seq(Seq(Nat)) /\ Len(t) = n /\ \A i \in 1..n : t[i] = L[i]
  BY <1>2, <1>3, <1>4, SubSeqProperties
<1>6. t = L
  BY <1>1, <1>2, <1>5, SeqEqual
<1>7. FlattenSeq(L) \in Seq(Nat)
  <2>1. <<>> \in Seq(Nat)
    OBVIOUS
  <2> QED
    BY <1>2, <2>1, FlattenAppend
<1> QED
  BY <1>1, <1>2, <1>3, <1>6, <1>7 DEF IsRun

\* The first k lines hold the beginning of what all hold; all of them but some
\* hold less.
LEMMA LinesOpen ==
  ASSUME NEW L, AreLines(L), NEW k \in Nat, k <= Len(L)
  PROVE  /\ AreLines(SubSeq(L, 1, k)) /\ Len(SubSeq(L, 1, k)) = k
         /\ IsRun(FlattenSeq(SubSeq(L, 1, k)))
         /\ OpensWith(FlattenSeq(SubSeq(L, 1, k)), FlattenSeq(L))
<1>1. PICK n : n = Len(L)
  OBVIOUS
<1>2. SubSeq(L, 1, n) = L /\ n \in Nat /\ IsRun(FlattenSeq(L))
  BY <1>1, WholeIsLines
<1> DEFINE Opens(j) == OpensWith(FlattenSeq(SubSeq(L, 1, j)), FlattenSeq(L))
           Bad == {j \in Nat : j <= n /\ ~ Opens(n - j)}
<1>3. Opens(n)
  BY <1>2, OpensItself
<1>4. ASSUME NEW i \in Nat, i < n, Opens(i + 1) PROVE Opens(i)
  <2>1. PICK a, b, x : a = FlattenSeq(SubSeq(L, 1, i)) /\ b = FlattenSeq(SubSeq(L, 1, i + 1)) /\ x = L[i + 1]
    OBVIOUS
  <2>2. IsRun(a) /\ IsRun(x) /\ Grown(a, x, b)
    BY <1>1, <1>4, <2>1, OneLineMore
  <2>3. OpensWith(a, b)
    BY <2>2, OpensItself, OpensFurther
  <2>4. OpensWith(b, FlattenSeq(L))
    BY <1>4, <2>1
  <2> QED
    BY <2>1, <2>2, <2>3, <2>4, OpensThrough
<1> HIDE DEF Opens
<1>5. Bad = {}
  <2> SUFFICES ASSUME Bad # {} PROVE FALSE
    OBVIOUS
  <2>1. Bad \in SUBSET Nat
    OBVIOUS
  <2>2. PICK x \in Bad : \A y \in Bad : x <= y
    <3> HIDE DEF Bad
    <3> QED
      BY <2>1, LeastNumber
  <2>3. x \in Nat /\ x <= n /\ ~ Opens(n - x)
    OBVIOUS
  <2>4. x # 0
    <3> SUFFICES ASSUME x = 0 PROVE FALSE
      OBVIOUS
    <3>1. n - x = n
      BY <1>2
    <3> QED
      BY <1>3, <2>3, <3>1
  <2>5. PICK i : i = n - x
    OBVIOUS
  <2>6. i \in Nat /\ i < n /\ i + 1 = n - (x - 1) /\ x - 1 \in Nat /\ x - 1 <= n /\ ~ (x <= x - 1)
    BY <1>2, <2>3, <2>4, <2>5
  <2>7. x - 1 \notin Bad
    BY <2>2, <2>6
  <2>8. Opens(i + 1)
    BY <2>6, <2>7
  <2> QED
    BY <1>4, <2>3, <2>5, <2>6, <2>8
<1>6. Opens(k)
  <2>1. n - k \in Nat /\ n - k <= n /\ n - (n - k) = k
    BY <1>1, <1>2
  <2> QED
    BY <1>5, <2>1
<1>7. AreLines(SubSeq(L, 1, k)) /\ Len(SubSeq(L, 1, k)) = k /\ IsRun(FlattenSeq(SubSeq(L, 1, k)))
  <2>1. CASE k = n
    BY <1>1, <1>2, <2>1
  <2>2. CASE k # n
    <3>1. k < Len(L)
      BY <1>1, <1>2, <2>2
    <3> QED
      BY <3>1, OneLineMore
  <2> QED
    BY <2>1, <2>2
<1> QED
  BY <1>6, <1>7 DEF Opens

LEMMA LinesAreFewer ==
  ASSUME NEW L, AreLines(L), NEW k \in Nat, k < Len(L)
  PROVE  Len(FlattenSeq(SubSeq(L, 1, k))) < Len(FlattenSeq(L))
<1>1. PICK a, b, x, s : a = FlattenSeq(SubSeq(L, 1, k)) /\ b = FlattenSeq(SubSeq(L, 1, k + 1)) /\ x = L[k + 1]
                        /\ s = FlattenSeq(L)
  OBVIOUS
<1>2. IsRun(a) /\ IsRun(x) /\ Grown(a, x, b) /\ x # <<>>
  BY <1>1, OneLineMore
<1>3. k + 1 \in Nat /\ k + 1 <= Len(L)
  BY WholeIsLines
<1>4. OpensWith(b, s)
  BY <1>1, <1>3, LinesOpen
<1>5. PICK r : IsRun(r) /\ s = b \o r
  BY <1>4 DEF OpensWith
<1>6. b = a \o x
  BY <1>2 DEF Grown
<1>7. IsRun(b) /\ Len(b) = Len(a) + Len(x) /\ Len(a) \in Nat /\ Len(x) \in Nat
  BY <1>2, <1>6, RunsJoin
<1>8. Len(s) = Len(b) + Len(r) /\ Len(r) \in Nat
  BY <1>5, <1>7, RunsJoin
<1>9. Len(x) > 0
  <2>1. Len(x) # 0
    BY <1>2 DEF IsRun
  <2> QED
    BY <1>7, <2>1
<1>10. Len(a) < Len(s)
  BY <1>7, <1>8, <1>9
<1> QED
  BY <1>1, <1>10

AddedLine(L, M, n) == M = Append(L, <<n>>)
GluedLine(L, M, n) == M = [L EXCEPT ![Len(L)] = Append(@, n)]

HasOneMore(L, M, n) ==
  Len(M) = Len(L) + 1 /\ M[Len(L) + 1] = <<n>> /\ \A i \in 1..Len(L) : M[i] = L[i]

\* M is the lines L with one entry more, in a line of its own.
LEMMA LineIsAdded ==
  ASSUME NEW L, AreLines(L), NEW n \in Nat, NEW M, AddedLine(L, M, n)
  PROVE  AreLines(M) /\ HasOneMore(L, M, n) /\ Grown(FlattenSeq(L), <<n>>, FlattenSeq(M))
<1>1. PICK m, x : m = Len(L) /\ x = <<n>>
  OBVIOUS
<1>2. L \in Seq(Seq(Nat)) /\ m \in Nat /\ DOMAIN L = 1..m
  BY <1>1 DEF AreLines
<1>3. x \in Seq(Nat) /\ x # <<>>
  BY <1>1
<1>4. /\ M \in Seq(Seq(Nat)) /\ Len(M) = m + 1 /\ DOMAIN M = 1..(m + 1)
      /\ M[m + 1] = x /\ \A i \in 1..m : M[i] = L[i]
  <2>1. M = Append(L, x)
    BY <1>1 DEF AddedLine
  <2> QED
    BY <1>1, <1>2, <1>3, <2>1, AppendProperties
<1>5. \A i \in DOMAIN M : M[i] # <<>>
  <2> SUFFICES ASSUME NEW i \in 1..(m + 1) PROVE M[i] # <<>>
    BY <1>4
  <2>1. CASE i = m + 1
    BY <1>3, <1>4, <2>1
  <2>2. CASE i \in 1..m
    BY <1>2, <1>4, <2>2 DEF AreLines
  <2> QED
    BY <1>2, <2>1, <2>2
<1>6. FlattenSeq(M) = FlattenSeq(L) \o x
  BY <1>1, <1>2, <1>3, FlattenAppend DEF AddedLine
<1>7. HasOneMore(L, M, n)
  BY <1>1, <1>4 DEF HasOneMore
<1> QED
  BY <1>1, <1>4, <1>5, <1>6, <1>7 DEF AreLines, Grown

\* M is the lines L with one entry more, in the last of them.
LEMMA LineIsGlued ==
  ASSUME NEW L, AreLines(L), L # <<>>, NEW n \in Nat, NEW M, GluedLine(L, M, n)
  PROVE  /\ AreLines(M) /\ Len(M) = Len(L) /\ Len(L) \in Nat \ {0}
         /\ Len(M[Len(L)]) = Len(L[Len(L)]) + 1 /\ Len(L[Len(L)]) \in Nat \ {0}
         /\ \A i \in 1..(Len(L) - 1) : M[i] = L[i]
         /\ Grown(FlattenSeq(L), <<n>>, FlattenSeq(M))
<1>1. PICK m : m = Len(L)
  OBVIOUS
<1>2. L \in Seq(Seq(Nat)) /\ m \in Nat \ {0} /\ DOMAIN L = 1..m /\ m \in 1..m
  <2>1. L \in Seq(Seq(Nat))
    BY DEF AreLines
  <2>2. m \in Nat /\ m # 0
    BY <1>1, <2>1
  <2> QED
    BY <1>1, <2>1, <2>2
<1>3. PICK l, g, k : l = L[m] /\ g = Append(l, n) /\ k = Len(l)
  OBVIOUS
<1>4. l \in Seq(Nat) /\ l # <<>> /\ k \in Nat \ {0}
  <2>1. l \in Seq(Nat)
    BY <1>1, <1>2, <1>3
  <2>2. \A i \in DOMAIN L : L[i] # <<>>
    BY DEF AreLines
  <2>3. l # <<>>
    BY <1>2, <1>3, <2>2
  <2> QED
    BY <1>3, <2>1, <2>3
<1>5. g \in Seq(Nat) /\ Len(g) = k + 1 /\ g # <<>> /\ g = l \o <<n>>
  <2>1. g \in Seq(Nat) /\ Len(g) = k + 1
    BY <1>3, <1>4, AppendProperties
  <2>2. g = l \o <<n>>
    BY <1>3, <1>4, AppendIsConcat
  <2>3. g # <<>>
    BY <1>4, <2>1
  <2> QED
    BY <2>1, <2>2, <2>3
<1>6. DOMAIN M = 1..m /\ M[m] = g /\ \A i \in 1..m : i # m => M[i] = L[i]
  BY <1>1, <1>2, <1>3 DEF GluedLine
<1>7. M \in Seq(Seq(Nat)) /\ Len(M) = m
  <2>1. \A i \in 1..m : M[i] \in Seq(Nat)
    <3>1. \A i \in 1..m : L[i] \in Seq(Nat)
      BY <1>1, <1>2
    <3>2. g \in Seq(Nat)
      BY <1>5
    <3> QED
      BY <1>6, <3>1, <3>2
  <2>2. M \in [1..m -> Seq(Nat)]
    <3>1. M = [i \in 1..m |-> M[i]]
      BY <1>1, <1>2 DEF GluedLine
    <3> QED
      BY <2>1, <3>1
  <2> QED
    BY <1>2, <2>2
<1>8. AreLines(M)
  <2>1. \A i \in 1..m : M[i] # <<>>
    BY <1>2, <1>5, <1>6 DEF AreLines
  <2> QED
    BY <1>6, <1>7, <2>1 DEF AreLines
<1>9. PICK j \in Nat : m = j + 1
  <2>1. m - 1 \in Nat /\ m = (m - 1) + 1
    BY <1>2
  <2> QED
    BY <2>1
<1>10. j < m /\ 1..(m - 1) = 1..j
  BY <1>9
<1>11. PICK s : s = SubSeq(L, 1, j)
  OBVIOUS
<1>12. /\ s \in Seq(Seq(Nat)) /\ Len(s) = j /\ L = Append(s, l) /\ IsRun(FlattenSeq(s))
       /\ Grown(FlattenSeq(s), l, FlattenSeq(L)) /\ \A i \in 1..j : s[i] = L[i]
  <2>1. j < Len(L)
    BY <1>1, <1>10
  <2>2. /\ AreLines(s) /\ Len(s) = j /\ SubSeq(L, 1, j + 1) = Append(s, L[j + 1])
        /\ IsRun(FlattenSeq(s)) /\ Grown(FlattenSeq(s), L[j + 1], FlattenSeq(SubSeq(L, 1, j + 1)))
    BY <1>11, <2>1, OneLineMore
  <2>3. SubSeq(L, 1, m) = L
    BY <1>1, WholeIsLines
  <2>4. \A i \in 1..j : L[i] \in Seq(Nat)
    BY <1>1, <1>2, <1>10
  <2>5. \A i \in 1..j : s[i] = L[i]
    BY <1>11, <2>4, SubSeqProperties
  <2> QED
    BY <1>3, <1>9, <2>2, <2>3, <2>5 DEF AreLines
<1>13. M = Append(s, g)
  <2>1. PICK r : r = Append(s, g)
    OBVIOUS
  <2>2. r \in Seq(Seq(Nat)) /\ Len(r) = m /\ r[m] = g /\ \A i \in 1..j : r[i] = s[i]
    <3>0. s \in Seq(Seq(Nat)) /\ g \in Seq(Nat) /\ Len(s) = j
      BY <1>5, <1>12
    <3>1. r \in Seq(Seq(Nat)) /\ Len(r) = j + 1 /\ r[j + 1] = g /\ \A i \in 1..j : r[i] = s[i]
      BY <2>1, <3>0, AppendProperties
    <3> QED
      BY <1>9, <3>1
  <2>3. \A i \in 1..m : r[i] = M[i]
    <3> SUFFICES ASSUME NEW i \in 1..m PROVE r[i] = M[i]
      OBVIOUS
    <3>1. CASE i = m
      BY <1>6, <2>2, <3>1
    <3>2. CASE i # m
      <4>1. i \in 1..j
        BY <1>9, <3>2
      <4> QED
        BY <1>6, <1>12, <2>2, <3>2, <4>1
    <3> QED
      BY <3>1, <3>2
  <2>4. r = M
    BY <1>7, <2>2, <2>3, SeqEqual
  <2> QED
    BY <2>1, <2>4
<1>14. Grown(FlattenSeq(L), <<n>>, FlattenSeq(M))
  <2>1. PICK f, x : f = FlattenSeq(s) /\ x = <<n>>
    OBVIOUS
  <2>2. IsRun(f) /\ IsRun(l) /\ IsRun(x)
    BY <1>4, <1>12, <2>1 DEF IsRun
  <2>3. Groups(f, l, x)
    BY <2>2, RunsGroup
  <2>4. FlattenSeq(L) = f \o l
    BY <1>12, <2>1 DEF Grown
  <2>5. FlattenSeq(M) = f \o g
    <3>1. s \in Seq(Seq(Nat)) /\ g \in Seq(Nat)
      BY <1>5, <1>12
    <3> QED
      BY <1>13, <2>1, <3>1, FlattenAppend
  <2>6. FlattenSeq(M) = FlattenSeq(L) \o x
    BY <1>5, <2>1, <2>3, <2>4, <2>5 DEF Groups
  <2> QED
    BY <2>1, <2>6 DEF Grown
<1>15. \A i \in 1..(m - 1) : M[i] = L[i]
  <2>1. \A i \in 1..(m - 1) : i \in 1..m /\ i # m
    BY <1>2
  <2> QED
    BY <1>6, <2>1
<1> QED
  BY <1>1, <1>2, <1>3, <1>4, <1>5, <1>6, <1>7, <1>8, <1>14, <1>15

\* A file, what was appended to it (o) and the lines that it was made of (L).
WireFits(w, o) ==
  /\ AreLines(w.lines) /\ IsRun(o)
  /\ w.ended \in BOOLEAN /\ (w.ended \/ w.lines # <<>>)

Shaped(w, o, L) ==
  /\ AreLines(L) /\ Grown(FlattenSeq(L), o, FlattenSeq(w.lines))
  /\ o = <<>> => w.lines = L /\ (w.ended <=> L = <<>>)
  /\ o # <<>> /\ L # <<>> =>
       /\ Len(L) <= Len(w.lines) /\ \A i \in 1..(Len(L) - 1) : w.lines[i] = L[i]
       /\ Len(w.lines[Len(L)]) > 1

Continues(v, w, n) ==
  /\ v.ended = TRUE
  /\ v.lines = IF w.ended THEN Append(w.lines, <<n>>)
               ELSE [w.lines EXCEPT ![Len(w.lines)] = Append(@, n)]

LinesGrow(v, w) ==
  /\ Len(w.lines) \in Nat /\ Len(w.lines) <= Len(v.lines) /\ Len(v.lines) \in Nat
  /\ \A i \in 1..(Len(w.lines) - 1) : v.lines[i] = w.lines[i]
  /\ w.ended => \A i \in 1..Len(w.lines) : v.lines[i] = w.lines[i]
  /\ w.lines # <<>> => /\ Len(w.lines[Len(w.lines)]) \in Nat /\ Len(v.lines[Len(w.lines)]) \in Nat
                       /\ Len(w.lines[Len(w.lines)]) <= Len(v.lines[Len(w.lines)])
                       /\ ~ w.ended => Len(v.lines[Len(w.lines)]) > 1

\* What Continue does to a file, in either case.
LEMMA FileGrows ==
  ASSUME NEW v, NEW w, NEW o, NEW n \in Nat, WireFits(w, o), Continues(v, w, n)
  PROVE  /\ WireFits(v, Append(o, n)) /\ Append(o, n) # <<>>
         /\ Grown(FlattenSeq(w.lines), <<n>>, FlattenSeq(v.lines))
         /\ LinesGrow(v, w)
<1>1. PICK L, M, m : L = w.lines /\ M = v.lines /\ m = Len(L)
  OBVIOUS
<1>2. AreLines(L) /\ m \in Nat /\ L \in Seq(Seq(Nat)) /\ IsRun(o) /\ v.ended = TRUE
  <2>1. AreLines(L) /\ IsRun(o) /\ v.ended = TRUE
    BY <1>1 DEF WireFits, Continues
  <2> QED
    BY <1>1, <2>1 DEF AreLines
<1>3. IsRun(Append(o, n)) /\ Append(o, n) # <<>>
  <2>1. o \in Seq(Nat)
    BY <1>2 DEF IsRun
  <2>2. Append(o, n) \in Seq(Nat) /\ Append(o, n) # <<>>
    BY <2>1, AppendProperties
  <2> QED
    BY <2>2 DEF IsRun
<1>4. CASE w.ended
  <2>1. AddedLine(L, M, n)
    BY <1>1, <1>4 DEF Continues, AddedLine
  <2>2. /\ AreLines(M) /\ Len(M) = m + 1 /\ \A i \in 1..m : M[i] = L[i]
        /\ Grown(FlattenSeq(L), <<n>>, FlattenSeq(M))
    <3>1. AreLines(M) /\ HasOneMore(L, M, n) /\ Grown(FlattenSeq(L), <<n>>, FlattenSeq(M))
      BY <1>2, <2>1, LineIsAdded
    <3> QED
      BY <1>1, <3>1 DEF HasOneMore
  <2>3. m <= Len(M) /\ Len(M) \in Nat /\ \A i \in 1..(m - 1) : i \in 1..m
    BY <1>2, <2>2
  <2>4. L # <<>> => Len(L[m]) \in Nat /\ M[m] = L[m] /\ Len(L[m]) <= Len(M[m])
    <3> SUFFICES ASSUME L # <<>> PROVE Len(L[m]) \in Nat /\ M[m] = L[m] /\ Len(L[m]) <= Len(M[m])
      OBVIOUS
    <3>1. m \in 1..m
      <4>1. m # 0
        BY <1>1, <1>2
      <4> QED
        BY <1>2, <4>1
    <3>2. L[m] \in Seq(Nat)
      BY <1>1, <1>2, <3>1
    <3>3. PICK k : k = Len(L[m])
      OBVIOUS
    <3>4. k \in Nat /\ k <= k
      BY <3>2, <3>3
    <3> QED
      BY <2>2, <3>1, <3>3, <3>4
  <2>5. WireFits(v, Append(o, n))
    BY <1>1, <1>2, <1>3, <2>2 DEF WireFits
  <2> QED
    BY <1>1, <1>2, <1>3, <1>4, <2>2, <2>3, <2>4, <2>5 DEF LinesGrow
<1>5. CASE ~ w.ended
  <2>0. L # <<>>
    BY <1>1, <1>5 DEF WireFits
  <2>1. GluedLine(L, M, n)
    BY <1>1, <1>5 DEF Continues, GluedLine
  <2>2. /\ AreLines(M) /\ Len(M) = m /\ m \in Nat \ {0}
        /\ Len(M[m]) = Len(L[m]) + 1 /\ Len(L[m]) \in Nat \ {0}
        /\ \A i \in 1..(m - 1) : M[i] = L[i]
        /\ Grown(FlattenSeq(L), <<n>>, FlattenSeq(M))
    <3>1. /\ AreLines(M) /\ Len(M) = Len(L) /\ Len(L) \in Nat \ {0}
          /\ Len(M[Len(L)]) = Len(L[Len(L)]) + 1 /\ Len(L[Len(L)]) \in Nat \ {0}
          /\ \A i \in 1..(Len(L) - 1) : M[i] = L[i]
          /\ Grown(FlattenSeq(L), <<n>>, FlattenSeq(M))
      BY <1>2, <2>0, <2>1, LineIsGlued
    <3> QED
      BY <1>1, <3>1
  <2>3. PICK k, g : k = Len(L[m]) /\ g = Len(M[m])
    OBVIOUS
  <2>4. k \in Nat /\ g \in Nat /\ k <= g /\ g > 1 /\ m <= Len(M)
    BY <2>2, <2>3
  <2>5. WireFits(v, Append(o, n))
    BY <1>1, <1>2, <1>3, <2>2 DEF WireFits
  <2> QED
    BY <1>1, <1>2, <1>3, <1>5, <2>2, <2>3, <2>4, <2>5 DEF LinesGrow
<1> QED
  BY <1>4, <1>5 DEF WireFits

LEMMA RunGrows ==
  ASSUME NEW a, NEW o, NEW n \in Nat, NEW s, NEW t, IsRun(a), IsRun(o), Grown(a, o, s), Grown(s, <<n>>, t)
  PROVE  Grown(a, Append(o, n), t)
<1>1. PICK x : x = <<n>>
  OBVIOUS
<1>2. IsRun(x)
  BY <1>1 DEF IsRun
<1>3. Append(o, n) = o \o x
  BY <1>1, AppendIsConcat DEF IsRun
<1>4. Groups(a, o, x)
  BY <1>2, RunsGroup
<1> QED
  BY <1>1, <1>3, <1>4 DEF Groups, Grown

LEMMA ShapeContinues ==
  ASSUME NEW v, NEW w, NEW o, NEW L, NEW n \in Nat, WireFits(w, o), Continues(v, w, n), Shaped(w, o, L)
  PROVE  Shaped(v, Append(o, n), L)
<1>1. AreLines(L) /\ IsRun(FlattenSeq(L)) /\ IsRun(o) /\ Len(L) \in Nat
  BY WholeIsLines DEF Shaped, WireFits
<1>2. Grown(FlattenSeq(L), o, FlattenSeq(w.lines))
  BY DEF Shaped
<1>3. Grown(FlattenSeq(w.lines), <<n>>, FlattenSeq(v.lines)) /\ Append(o, n) # <<>>
  BY FileGrows
<1>4. Grown(FlattenSeq(L), Append(o, n), FlattenSeq(v.lines))
  BY <1>1, <1>2, <1>3, RunGrows
<1>5. ASSUME L # <<>>
      PROVE  /\ Len(L) <= Len(v.lines) /\ \A i \in 1..(Len(L) - 1) : v.lines[i] = L[i]
             /\ Len(v.lines[Len(L)]) > 1
  <2>1. PICK W, V, k, m, h : W = w.lines /\ V = v.lines /\ k = Len(L) /\ m = Len(w.lines) /\ h = Len(v.lines)
    OBVIOUS
  <2>2. /\ m \in Nat /\ m <= h /\ h \in Nat /\ \A i \in 1..(m - 1) : V[i] = W[i]
        /\ w.ended => \A i \in 1..m : V[i] = W[i]
        /\ W # <<>> => /\ Len(W[m]) \in Nat /\ Len(V[m]) \in Nat /\ Len(W[m]) <= Len(V[m])
                       /\ ~ w.ended => Len(V[m]) > 1
    <3>1. LinesGrow(v, w)
      BY FileGrows
    <3> QED
      BY <2>1, <3>1 DEF LinesGrow
  <2>3. k \in Nat \ {0}
    <3>1. k # 0
      BY <1>1, <1>5, <2>1 DEF AreLines
    <3> QED
      BY <1>1, <2>1, <3>1
  <2>4. CASE o = <<>>
    <3>1. W = L /\ ~ w.ended /\ m = k
      BY <1>5, <2>1, <2>4 DEF Shaped
    <3> QED
      BY <1>5, <2>1, <2>2, <3>1
  <2>5. CASE o # <<>>
    <3>1. k <= m /\ (\A i \in 1..(k - 1) : W[i] = L[i]) /\ Len(W[k]) > 1
      BY <1>5, <2>1, <2>5 DEF Shaped
    <3>2. \A i \in 1..(k - 1) : V[i] = L[i]
      <4>1. \A i \in 1..(k - 1) : i \in 1..(m - 1)
        BY <2>2, <2>3, <3>1
      <4> QED
        BY <2>2, <3>1, <4>1
    <3>3. k <= h
      BY <2>2, <2>3, <3>1
    <3>4. Len(V[k]) > 1
      <4>1. CASE k = m
        <5>1. W # <<>>
          BY <2>1, <2>3, <4>1
        <5>2. PICK x, y : x = Len(W[m]) /\ y = Len(V[m])
          OBVIOUS
        <5>3. x \in Nat /\ y \in Nat /\ x <= y /\ x > 1
          BY <2>2, <3>1, <4>1, <5>1, <5>2
        <5>4. y > 1
          BY <5>3
        <5> QED
          BY <4>1, <5>2, <5>4
      <4>2. CASE k # m
        <5>1. k \in 1..(m - 1)
          BY <2>2, <2>3, <3>1, <4>2
        <5> QED
          BY <2>2, <3>1, <5>1
      <4> QED
        BY <4>1, <4>2
    <3> QED
      BY <2>1, <3>2, <3>3, <3>4
  <2> QED
    BY <2>4, <2>5
<1> QED
  BY <1>1, <1>3, <1>4, <1>5 DEF Shaped

\* Of files, what was appended to them and the forks made: Twice and the parts
\* of the invariant.
TwiceIn(F, d) == \E i, j \in DOMAIN F : i # j /\ F[i] = F[j] /\ F[i].id = d
NamesIn(F) == {F[i].id : i \in DOMAIN F} \cup {Original}

\* L is what the file was made of: the beginning of its source, if neither name
\* was given twice.
ForkFits(W, O, F, d) ==
  ~ TwiceIn(F, d) =>
    \E L : /\ Shaped(W[d], O[d], L)
           /\ Front(d) \in DOMAIN W /\ ~ TwiceIn(F, Front(d)) =>
                OpensWith(FlattenSeq(L), FlattenSeq(W[Front(d)].lines))

FilesFit(W, O, F) == \A d \in DOMAIN W : WireFits(W[d], O[d]) /\ (d # Original => ForkFits(W, O, F, d))

OriginalFits(W, O) ==
  Original \in DOMAIN W =>
    /\ W[Original].ended /\ FlattenSeq(W[Original].lines) = O[Original]
    /\ \A i \in DOMAIN W[Original].lines : Len(W[Original].lines[i]) = 1

ListedFits(I) == \A d \in DOMAIN I : d # Original /\ I[d] <= Last(d)[1]

HistoryFits(F) ==
  \A i \in DOMAIN F : /\ F[i].id # <<>> /\ Last(F[i].id)[2] = F[i].at
                      /\ Front(F[i].id) \in NamesIn(F)

ForkInv ==
  /\ FilesFit(wires, own, forked) /\ OriginalFits(wires, own)
  /\ ListedFits(listed) /\ HistoryFits(forked)

LEMMA FewerFit ==
  ASSUME NEW W, NEW O, NEW F, NEW V, NEW Q, FilesFit(W, O, F), OriginalFits(W, O),
         DOMAIN V \subseteq DOMAIN W, \A x \in DOMAIN V : V[x] = W[x] /\ Q[x] = O[x]
  PROVE  FilesFit(V, Q, F) /\ OriginalFits(V, Q)
<1>1. FilesFit(V, Q, F)
  <2> SUFFICES ASSUME NEW x \in DOMAIN V PROVE WireFits(V[x], Q[x]) /\ (x # Original => ForkFits(V, Q, F, x))
    BY DEF FilesFit
  <2>1. x \in DOMAIN W /\ V[x] = W[x] /\ Q[x] = O[x] /\ \A y \in DOMAIN V : y \in DOMAIN W /\ V[y] = W[y]
    OBVIOUS
  <2>2. WireFits(W[x], O[x]) /\ (x # Original => ForkFits(W, O, F, x))
    BY <2>1 DEF FilesFit
  <2>3. x # Original => ForkFits(V, Q, F, x)
    BY <2>1, <2>2 DEF ForkFits
  <2> QED
    BY <2>1, <2>2, <2>3
<1>2. OriginalFits(V, Q)
  BY DEF OriginalFits
<1> QED
  BY <1>1, <1>2

LEMMA ContinueFits ==
  ASSUME ForkInv, DOMAIN own = DOMAIN wires, NEW d \in DOMAIN wires, Continue(d)
  PROVE  ForkInv'
<1>1. PICK n : n = Appended + 1
  OBVIOUS
<1>2. n \in Nat
  <2>1. n \in 1..MaxLines
    BY <1>1 DEF Continue
  <2>2. MaxLines \in Nat
    BY BranchesAssumption
  <2> QED
    BY <2>1, <2>2
<1>3. /\ DOMAIN wires' = DOMAIN wires /\ DOMAIN own' = DOMAIN own
      /\ Continues(wires'[d], wires[d], n) /\ own'[d] = Append(own[d], n)
      /\ \A x \in DOMAIN wires : x # d => wires'[x] = wires[x] /\ own'[x] = own[x]
      /\ listed' = listed /\ forked' = forked
  BY <1>1 DEF Continue, Continues
<1>4. PICK W, O, F, V, Q : W = wires /\ O = own /\ F = forked /\ V = wires' /\ Q = own'
  OBVIOUS
<1>5. /\ DOMAIN V = DOMAIN W /\ Continues(V[d], W[d], n) /\ Q[d] = Append(O[d], n) /\ d \in DOMAIN W
      /\ \A x \in DOMAIN W : x # d => V[x] = W[x] /\ Q[x] = O[x]
  BY <1>3, <1>4
<1>6. FilesFit(W, O, F) /\ OriginalFits(W, O)
  BY <1>4 DEF ForkInv
<1>7. WireFits(W[d], O[d])
  BY <1>5, <1>6 DEF FilesFit
<1>8. WireFits(V[d], Q[d]) /\ Grown(FlattenSeq(W[d].lines), <<n>>, FlattenSeq(V[d].lines))
  BY <1>2, <1>5, <1>7, FileGrows
<1>9. FilesFit(V, Q, F)
  <2> SUFFICES ASSUME NEW x \in DOMAIN W PROVE WireFits(V[x], Q[x]) /\ (x # Original => ForkFits(V, Q, F, x))
    BY <1>5 DEF FilesFit
  <2>1. WireFits(W[x], O[x]) /\ (x # Original => ForkFits(W, O, F, x))
    BY <1>6 DEF FilesFit
  <2>2. WireFits(V[x], Q[x])
    BY <1>5, <1>8, <2>1
  <2>3. ASSUME x # Original, ~ TwiceIn(F, x)
        PROVE  \E L : /\ Shaped(V[x], Q[x], L)
                      /\ Front(x) \in DOMAIN V /\ ~ TwiceIn(F, Front(x)) =>
                           OpensWith(FlattenSeq(L), FlattenSeq(V[Front(x)].lines))
    <3>1. PICK L : /\ Shaped(W[x], O[x], L)
                   /\ Front(x) \in DOMAIN W /\ ~ TwiceIn(F, Front(x)) =>
                        OpensWith(FlattenSeq(L), FlattenSeq(W[Front(x)].lines))
      BY <2>1, <2>3 DEF ForkFits
    <3>2. Shaped(V[x], Q[x], L)
      <4>1. CASE x = d
        BY <1>2, <1>5, <1>7, <3>1, <4>1, ShapeContinues
      <4>2. CASE x # d
        BY <1>5, <3>1, <4>2
      <4> QED
        BY <4>1, <4>2
    <3>3. ASSUME Front(x) \in DOMAIN V, ~ TwiceIn(F, Front(x))
          PROVE  OpensWith(FlattenSeq(L), FlattenSeq(V[Front(x)].lines))
      <4>1. PICK p, a : p = Front(x) /\ a = FlattenSeq(L)
        OBVIOUS
      <4>2. OpensWith(a, FlattenSeq(W[p].lines)) /\ p \in DOMAIN W /\ IsRun(a)
        <5>1. AreLines(L)
          BY <3>1 DEF Shaped
        <5> QED
          BY <1>5, <3>1, <3>3, <4>1, <5>1, WholeIsLines
      <4>3. CASE p = d
        <5>1. PICK x1 : x1 = <<n>>
          OBVIOUS
        <5>2. IsRun(x1) /\ Grown(FlattenSeq(W[p].lines), x1, FlattenSeq(V[p].lines))
          BY <1>2, <1>8, <4>3, <5>1 DEF IsRun
        <5>3. OpensWith(a, FlattenSeq(V[p].lines))
          BY <4>2, <5>2, OpensFurther
        <5> QED
          BY <4>1, <5>3
      <4>4. CASE p # d
        BY <1>5, <4>1, <4>2, <4>4
      <4> QED
        BY <4>3, <4>4
    <3> QED
      BY <3>2, <3>3
  <2> QED
    BY <2>2, <2>3 DEF ForkFits
<1>10. OriginalFits(V, Q)
  <2>1. CASE d # Original
    BY <1>5, <1>6, <2>1 DEF OriginalFits
  <2>2. CASE d = Original
    <3>1. PICK L, M : L = W[d].lines /\ M = V[d].lines
      OBVIOUS
    <3>2. W[d].ended /\ FlattenSeq(L) = O[d] /\ \A i \in DOMAIN L : Len(L[i]) = 1
      BY <1>5, <1>6, <2>2, <3>1 DEF OriginalFits
    <3>3. V[d].ended /\ AddedLine(L, M, n) /\ AreLines(L)
      BY <1>5, <1>7, <3>1, <3>2 DEF Continues, AddedLine, WireFits
    <3>4. /\ Len(M) = Len(L) + 1 /\ M[Len(L) + 1] = <<n>> /\ \A i \in 1..Len(L) : M[i] = L[i]
          /\ AreLines(M)
      <4>1. HasOneMore(L, M, n) /\ AreLines(M)
        BY <1>2, <3>3, LineIsAdded
      <4> QED
        BY <4>1 DEF HasOneMore
    <3>5. PICK m : m = Len(L)
      OBVIOUS
    <3>6. m \in Nat /\ DOMAIN L = 1..m /\ DOMAIN M = 1..(m + 1)
      BY <3>3, <3>4, <3>5 DEF AreLines
    <3>7. \A i \in DOMAIN M : Len(M[i]) = 1
      <4> SUFFICES ASSUME NEW i \in 1..(m + 1) PROVE Len(M[i]) = 1
        BY <3>6
      <4>1. CASE i = m + 1
        BY <1>2, <3>4, <3>5, <4>1
      <4>2. CASE i # m + 1
        <5>1. i \in 1..m
          BY <3>6, <4>2
        <5> QED
          BY <3>2, <3>4, <3>5, <3>6, <5>1
      <4> QED
        BY <4>1, <4>2
    <3>8. FlattenSeq(M) = Q[d]
      <4>1. FlattenSeq(M) = O[d] \o <<n>>
        BY <1>8, <3>1, <3>2 DEF Grown
      <4>2. Append(O[d], n) = O[d] \o <<n>>
        BY <1>2, <1>7, AppendIsConcat DEF WireFits, IsRun
      <4> QED
        BY <1>5, <4>1, <4>2
    <3> QED
      BY <1>5, <2>2, <3>1, <3>3, <3>7, <3>8 DEF OriginalFits
  <2> QED
    BY <2>1, <2>2
<1> QED
  BY <1>3, <1>4, <1>9, <1>10 DEF ForkInv

LEMMA NameIsNew ==
  ASSUME NEW d, d \in Seq(Nat \X Nat), NEW t \in Nat, second \in Nat
  PROVE  LET id == NameOf(d, t)
         IN id # <<>> /\ Last(id)[1] = t /\ Last(id)[2] = second /\ Front(id) = d
<1>1. PICK x, id : x = <<t, second>> /\ id = Append(d, x)
  OBVIOUS
<1>2. x \in Nat \X Nat /\ x[1] = t /\ x[2] = second
  BY <1>1
<1>3. PICK n : n = Len(d)
  OBVIOUS
<1>4. n \in Nat /\ id \in Seq(Nat \X Nat) /\ id # <<>> /\ Len(id) = n + 1 /\ id[n + 1] = x /\ \A i \in 1..n : id[i] = d[i]
  <2>1. /\ Len(d) \in Nat /\ Append(d, x) \in Seq(Nat \X Nat) /\ Append(d, x) # <<>>
        /\ Len(Append(d, x)) = Len(d) + 1 /\ Append(d, x)[Len(d) + 1] = x
        /\ \A i \in 1..Len(d) : Append(d, x)[i] = d[i]
    <3>1. PICK S : S = Nat \X Nat
      OBVIOUS
    <3>2. d \in Seq(S) /\ x \in S
      BY <1>2, <3>1
    <3>3. /\ Append(d, x) \in Seq(S) /\ Append(d, x) # <<>>
          /\ Len(Append(d, x)) = Len(d) + 1 /\ Append(d, x)[Len(d) + 1] = x
          /\ \A i \in 1..Len(d) : Append(d, x)[i] = d[i]
      BY <3>2, AppendProperties
    <3> QED
      BY <3>1, <3>2, <3>3
  <2> QED
    BY <1>1, <1>3, <2>1
<1>5. Last(id) = x
  BY <1>4 DEF Last
<1>6. Front(id) = d
  <2>1. PICK r : r = SubSeq(id, 1, n)
    OBVIOUS
  <2>2. \A i \in 1..n : id[i] \in Nat \X Nat
    BY <1>3, <1>4
  <2>3. r \in Seq(Nat \X Nat) /\ Len(r) = n /\ \A i \in 1..n : r[i] = id[i]
    BY <1>4, <2>1, <2>2, SubSeqProperties
  <2>4. r = d
    BY <1>3, <1>4, <2>3, SeqEqual
  <2>5. Len(id) - 1 = n
    BY <1>4
  <2> QED
    BY <2>1, <2>4, <2>5 DEF Front
<1>7. id = NameOf(d, t)
  BY <1>1 DEF NameOf
<1> QED
  BY <1>2, <1>4, <1>5, <1>6, <1>7

LEMMA HalfOfTwice ==
  ASSUME NEW n \in Nat, NEW t \in Nat, n <= 2 * t
  PROVE  n \div 2 <= t
OBVIOUS

LEMMA NamesAreNames == ASSUME BranchesInv PROVE Names = NamesIn(forked) /\ \A d : Twice(d) <=> TwiceIn(forked, d)
BY DEF Names, NamesIn, ToSet, Twice, TwiceIn

\* A fork of the session d that stands in no file, or in the file W[d].
LEMMA ForkFitsToo ==
  ASSUME BranchesInv, ForkInv, NEW d \in DOMAIN wires \cup DOMAIN listed, NEW t \in 0..MaxTurn, Fork(d, t)
  PROVE  ForkInv'
<1>1. PICK id : id = NameOf(d, t)
  OBVIOUS
<1>2. PICK e : e = [id |-> id, at |-> second]
  OBVIOUS
<1>3. PICK W, O, F, V, Q, G : W = wires /\ O = own /\ F = forked /\ V = wires' /\ Q = own' /\ G = forked'
  OBVIOUS
<1>4. t \in Nat /\ second \in Nat /\ d \in NamesIn(F) /\ d \in Seq(Nat \X Nat) /\ DOMAIN O = DOMAIN W
      /\ DOMAIN W \subseteq NamesIn(F)
  <2>1. MaxTurn \in Nat /\ MaxSecond \in Nat
    BY BranchesAssumption
  <2>2. second \in 0..MaxSecond /\ d \in Names /\ Names \subseteq Seq(Nat \X Nat) /\ DOMAIN own = DOMAIN wires
        /\ DOMAIN wires \subseteq Names
    BY DEF BranchesInv
  <2> QED
    BY <1>3, <2>1, <2>2, NamesAreNames
<1>5. id # <<>> /\ Last(id)[1] = t /\ Last(id)[2] = second /\ Front(id) = d
  BY <1>1, <1>4, NameIsNew
<1>6. FilesFit(W, O, F) /\ OriginalFits(W, O) /\ ListedFits(listed) /\ HistoryFits(F)
  BY <1>3 DEF ForkInv
<1>7. PICK m : /\ DOMAIN F = 1..m /\ m \in Nat /\ DOMAIN G = 1..(m + 1)
               /\ (\A i \in 1..m : G[i] = F[i]) /\ G[m + 1] = e
  <2>1. PICK R : R = [id : Seq(Nat \X Nat), at : Nat]
    OBVIOUS
  <2>2. forked \in Seq(R)
    BY <2>1 DEF BranchesInv
  <2>3. id \in Seq(Nat \X Nat)
    <3>1. <<t, second>> \in Nat \X Nat
      BY <1>4
    <3> QED
      BY <1>1, <1>4, <3>1 DEF NameOf
  <2>4. e \in R
    BY <1>2, <1>4, <2>1, <2>3
  <2>5. G = Append(F, e)
    BY <1>1, <1>2, <1>3 DEF Fork
  <2>6. PICK m : m = Len(F)
    OBVIOUS
  <2>7. F \in Seq(R)
    BY <1>3, <2>2
  <2>8. G \in Seq(R) /\ Len(G) = m + 1 /\ m \in Nat /\ (\A i \in 1..m : G[i] = F[i]) /\ G[m + 1] = e
    BY <2>4, <2>5, <2>6, <2>7, AppendProperties
  <2>9. DOMAIN F = 1..m /\ DOMAIN G = 1..(m + 1)
    BY <2>6, <2>7, <2>8
  <2> QED
    BY <2>8, <2>9
<1>8. e.id = id /\ e.at = second /\ \A i \in DOMAIN F : F[i].id = id /\ F[i].at = second => F[i] = e
  <2>1. \A i \in DOMAIN forked : forked[i] \in [id : Seq(Nat \X Nat), at : Nat]
    <3>1. PICK R : R = [id : Seq(Nat \X Nat), at : Nat]
      OBVIOUS
    <3>2. forked \in Seq(R)
      BY <3>1 DEF BranchesInv
    <3>3. \A i \in DOMAIN forked : forked[i] \in R
      BY <3>2
    <3> QED
      BY <3>1, <3>3
  <2>2. \A i \in DOMAIN F : F[i] = [id |-> F[i].id, at |-> F[i].at]
    BY <1>3, <2>1
  <2> QED
    BY <1>2, <2>2
<1>9. DOMAIN F \subseteq DOMAIN G /\ m + 1 \in DOMAIN G /\ m + 1 \notin DOMAIN F
      /\ DOMAIN G = DOMAIN F \cup {m + 1}
  BY <1>7
<1>10. NamesIn(F) \subseteq NamesIn(G) /\ NamesIn(G) = NamesIn(F) \cup {id}
  BY <1>7, <1>8, <1>9 DEF NamesIn
<1>11. \A x : TwiceIn(F, x) => TwiceIn(G, x)
  BY <1>7, <1>9 DEF TwiceIn
<1>12. id \in NamesIn(F) => TwiceIn(G, id)
  <2> SUFFICES ASSUME id \in NamesIn(F) PROVE TwiceIn(G, id)
    OBVIOUS
  <2>1. PICK i \in DOMAIN F : F[i].id = id
    BY <1>5 DEF NamesIn, Original
  <2>2. F[i].at = second
    BY <1>5, <1>6, <2>1 DEF HistoryFits
  <2>3. F[i] = e
    BY <1>8, <2>1, <2>2
  <2>4. G[i] = e /\ i \in DOMAIN G /\ i # m + 1
    BY <1>7, <1>9, <2>1, <2>3
  <2> QED
    BY <1>7, <1>8, <1>9, <2>4 DEF TwiceIn
<1>13. HistoryFits(G)
  <2> SUFFICES ASSUME NEW i \in DOMAIN G
               PROVE  G[i].id # <<>> /\ Last(G[i].id)[2] = G[i].at /\ Front(G[i].id) \in NamesIn(G)
    BY DEF HistoryFits
  <2>1. CASE i = m + 1
    BY <1>4, <1>5, <1>7, <1>8, <1>10, <2>1
  <2>2. CASE i \in DOMAIN F
    <3>1. F[i].id # <<>> /\ Last(F[i].id)[2] = F[i].at /\ Front(F[i].id) \in NamesIn(F)
      BY <1>6, <2>2 DEF HistoryFits
    <3> QED
      BY <1>7, <1>10, <2>2, <3>1
  <2> QED
    BY <1>9, <2>1, <2>2
<1>14. id # Original
  BY <1>5 DEF Original
<1> DEFINE upto == IF 2 * t < Len(W[d].lines) THEN 2 * t ELSE Len(W[d].lines)
           copiedLines == IF d \in DOMAIN W THEN SubSeq(W[d].lines, 1, upto) ELSE <<>>
<1>15. /\ V = IF d \in DOMAIN W THEN Extended(W, id, [lines |-> copiedLines, ended |-> copiedLines = <<>>]) ELSE W
       /\ Q = IF d \in DOMAIN W /\ id \notin DOMAIN O THEN Extended(O, id, <<>>) ELSE O
       /\ listed' = Extended(listed, id, Len(copiedLines) \div 2)
  BY <1>1, <1>3 DEF Fork
<1>16. /\ Len(copiedLines) \in Nat /\ Len(copiedLines) <= 2 * t
       /\ d \in DOMAIN W => /\ AreLines(copiedLines) /\ IsRun(FlattenSeq(copiedLines))
                            /\ OpensWith(FlattenSeq(copiedLines), FlattenSeq(W[d].lines))
  <2>1. CASE d \notin DOMAIN W
    <3>1. copiedLines = <<>>
      BY <2>1
    <3>2. Len(copiedLines) = 0
      BY <3>1
    <3>3. 0 <= 2 * t
      BY <1>4
    <3> QED
      BY <2>1, <3>2, <3>3
  <2>2. CASE d \in DOMAIN W
    <3>1. PICK L, n : L = W[d].lines /\ n = Len(L)
      OBVIOUS
    <3>2. AreLines(L) /\ n \in Nat
      <4>1. AreLines(L)
        BY <1>6, <2>2, <3>1 DEF FilesFit, WireFits
      <4> QED
        BY <3>1, <4>1, WholeIsLines
    <3>3. PICK k : k = IF 2 * t < n THEN 2 * t ELSE n
      OBVIOUS
    <3>4. k \in Nat /\ k <= n /\ k <= 2 * t
      BY <1>4, <3>2, <3>3
    <3>5. copiedLines = SubSeq(L, 1, k)
      BY <2>2, <3>1, <3>3
    <3> HIDE DEF copiedLines
    <3>6. AreLines(copiedLines) /\ Len(copiedLines) = k /\ IsRun(FlattenSeq(copiedLines)) /\ OpensWith(FlattenSeq(copiedLines), FlattenSeq(L))
      BY <3>1, <3>2, <3>4, <3>5, LinesOpen
    <3> QED
      BY <3>1, <3>4, <3>6
  <2> QED
    BY <2>1, <2>2
<1> HIDE DEF copiedLines
<1>17. ListedFits(listed')
  <2>1. PICK n : n = Len(copiedLines)
    OBVIOUS
  <2>2. n \div 2 <= t
    <3>1. n \in Nat /\ n <= 2 * t
      BY <1>16, <2>1
    <3> QED
      BY <1>4, <3>1, HalfOfTwice
  <2> SUFFICES ASSUME NEW x \in DOMAIN listed' PROVE x # Original /\ listed'[x] <= Last(x)[1]
    BY DEF ListedFits
  <2>3. DOMAIN listed' = DOMAIN listed \cup {id} /\ listed'[x] = IF x = id THEN Len(copiedLines) \div 2 ELSE listed[x]
    BY <1>15 DEF Extended
  <2>4. CASE x = id
    BY <1>5, <1>14, <2>1, <2>2, <2>3, <2>4
  <2>5. CASE x # id
    BY <1>6, <2>3, <2>5 DEF ListedFits
  <2> QED
    BY <2>4, <2>5
<1>18. FilesFit(W, O, G)
  <2> SUFFICES ASSUME NEW x \in DOMAIN W PROVE WireFits(W[x], O[x]) /\ (x # Original => ForkFits(W, O, G, x))
    BY DEF FilesFit
  <2>1. WireFits(W[x], O[x]) /\ (x # Original => ForkFits(W, O, F, x))
    BY <1>6 DEF FilesFit
  <2> QED
    BY <1>11, <2>1 DEF ForkFits
<1>19. FilesFit(V, Q, G) /\ OriginalFits(V, Q)
  <2>1. CASE d \notin DOMAIN W
    BY <1>6, <1>15, <1>18, <2>1
  <2>2. CASE d \in DOMAIN W
    <3> DEFINE new == [lines |-> copiedLines, ended |-> copiedLines = <<>>]
    <3>1. /\ DOMAIN V = DOMAIN W \cup {id} /\ V[id] = new
          /\ \A x \in DOMAIN W : x # id => V[x] = W[x] /\ Q[x] = O[x]
          /\ Q[id] = IF id \in DOMAIN O THEN O[id] ELSE <<>>
      BY <1>4, <1>15, <2>2 DEF Extended
    <3>2. new.lines = copiedLines /\ (new.ended <=> copiedLines = <<>>) /\ new.ended \in BOOLEAN
      OBVIOUS
    <3> HIDE DEF new
    <3>3. WireFits(V[id], Q[id])
      <4>1. IsRun(Q[id])
        <5>1. CASE id \in DOMAIN O
          BY <1>4, <1>6, <3>1, <5>1 DEF FilesFit, WireFits
        <5>2. CASE id \notin DOMAIN O
          BY <3>1, <5>2 DEF IsRun
        <5> QED
          BY <5>1, <5>2
      <4> QED
        BY <1>16, <2>2, <3>1, <3>2, <4>1 DEF WireFits
    <3>4. ForkFits(V, Q, G, id)
      <4> SUFFICES ASSUME ~ TwiceIn(G, id)
                   PROVE  Shaped(V[id], Q[id], copiedLines) /\ OpensWith(FlattenSeq(copiedLines), FlattenSeq(V[Front(id)].lines))
        BY DEF ForkFits
      <4>1. id \notin NamesIn(F) /\ id # d /\ id \notin DOMAIN O
        BY <1>4, <1>12
      <4>2. Q[id] = <<>> /\ V[d] = W[d]
        BY <2>2, <3>1, <4>1
      <4>3. Grown(FlattenSeq(copiedLines), <<>>, FlattenSeq(copiedLines))
        BY <1>16, <2>2 DEF Grown, IsRun
      <4>4. Shaped(V[id], Q[id], copiedLines)
        BY <1>16, <2>2, <3>1, <3>2, <4>2, <4>3 DEF Shaped
      <4> QED
        BY <1>5, <1>16, <2>2, <4>2, <4>4
    <3>5. ASSUME NEW x \in DOMAIN W, x # id PROVE WireFits(V[x], Q[x]) /\ (x # Original => ForkFits(V, Q, G, x))
      <4>1. V[x] = W[x] /\ Q[x] = O[x] /\ WireFits(W[x], O[x]) /\ (x # Original => ForkFits(W, O, G, x))
        BY <1>18, <3>1, <3>5 DEF FilesFit
      <4>2. ASSUME x # Original, ~ TwiceIn(G, x)
            PROVE  \E L : /\ Shaped(V[x], Q[x], L)
                          /\ Front(x) \in DOMAIN V /\ ~ TwiceIn(G, Front(x)) =>
                               OpensWith(FlattenSeq(L), FlattenSeq(V[Front(x)].lines))
        <5>1. PICK L : /\ Shaped(W[x], O[x], L)
                       /\ Front(x) \in DOMAIN W /\ ~ TwiceIn(G, Front(x)) =>
                            OpensWith(FlattenSeq(L), FlattenSeq(W[Front(x)].lines))
          BY <4>1, <4>2 DEF ForkFits
        <5>2. PICK i \in DOMAIN F : F[i].id = x
          BY <1>4, <4>2 DEF NamesIn
        <5>3. Front(x) \in NamesIn(F)
          BY <1>6, <5>2 DEF HistoryFits
        <5>4. Front(x) \in DOMAIN V /\ ~ TwiceIn(G, Front(x)) =>
                Front(x) \in DOMAIN W /\ V[Front(x)] = W[Front(x)]
          BY <1>12, <3>1, <5>3
        <5> QED
          BY <4>1, <5>1, <5>4
      <4> QED
        BY <4>1, <4>2 DEF ForkFits
    <3>6. FilesFit(V, Q, G)
      BY <3>1, <3>3, <3>4, <3>5 DEF FilesFit
    <3>7. OriginalFits(V, Q)
      BY <1>6, <1>14, <3>1 DEF OriginalFits
    <3> QED
      BY <3>6, <3>7
  <2> QED
    BY <2>1, <2>2
<1> QED
  BY <1>3, <1>13, <1>17, <1>19 DEF ForkInv

LEMMA ForkInvFirst == BranchesInit => ForkInv
<1> SUFFICES ASSUME BranchesInit PROVE ForkInv
  OBVIOUS
<1>1. /\ wires = [d \in {Original} |-> [lines |-> <<>>, ended |-> TRUE]]
      /\ listed = <<>> /\ forked = <<>> /\ own = [d \in {Original} |-> <<>>]
  BY DEF BranchesInit
<1>2. DOMAIN listed = {} /\ DOMAIN forked = {}
  BY <1>1, EmptyHasNoDomain
<1>3. ListedFits(listed) /\ HistoryFits(forked)
  BY <1>2 DEF ListedFits, HistoryFits
<1>4. DOMAIN wires = {Original} /\ wires[Original].lines = <<>> /\ wires[Original].ended = TRUE /\ own[Original] = <<>>
  BY <1>1
<1>5. AreLines(<<>>) /\ IsRun(<<>>) /\ FlattenSeq(<<>>) = <<>>
  BY EmptyHasNoDomain DEF AreLines, IsRun, FlattenSeq
<1>6. FilesFit(wires, own, forked)
  BY <1>4, <1>5 DEF FilesFit, WireFits
<1>7. OriginalFits(wires, own)
  BY <1>4, <1>5, EmptyHasNoDomain DEF OriginalFits
<1> QED
  BY <1>3, <1>6, <1>7 DEF ForkInv

LEMMA ForkInvStep == ASSUME BranchesInv, ForkInv, [BranchesNext \/ TreeNext]_branchVars PROVE ForkInv'
<1>0. DOMAIN own = DOMAIN wires
  BY DEF BranchesInv
<1>1. ASSUME UNCHANGED <<wires, listed, forked, own>> PROVE ForkInv'
  BY <1>1 DEF ForkInv
<1>2. ASSUME NEW d \in DOMAIN wires, Continue(d) PROVE ForkInv'
  BY <1>0, <1>2, ContinueFits
<1>3. ASSUME NEW d \in DOMAIN wires \cup DOMAIN listed, NEW t \in 0..MaxTurn, Fork(d, t) PROVE ForkInv'
  BY <1>3, ForkFitsToo
<1>4. ASSUME NEW id \in DOMAIN listed, DeleteFork(id) PROVE ForkInv'
  <2>1. PICK W, O, F, I, V, Q, J : W = wires /\ O = own /\ F = forked /\ I = listed /\ V = wires' /\ Q = own' /\ J = listed'
    OBVIOUS
  <2>2. /\ forked' = F /\ DOMAIN V = DOMAIN W \ {id} /\ DOMAIN J = DOMAIN I \ {id}
        /\ \A x \in DOMAIN V : V[x] = W[x]
        /\ \A x \in DOMAIN O \ {id} : Q[x] = O[x]
        /\ \A x \in DOMAIN J : J[x] = I[x]
    BY <1>4, <2>1 DEF DeleteFork
  <2>3. FilesFit(W, O, F) /\ OriginalFits(W, O) /\ ListedFits(I) /\ HistoryFits(F)
    BY <2>1 DEF ForkInv
  <2>4. DOMAIN V \subseteq DOMAIN W /\ \A x \in DOMAIN V : V[x] = W[x] /\ Q[x] = O[x]
    BY <1>0, <2>1, <2>2
  <2>5. FilesFit(V, Q, F) /\ OriginalFits(V, Q)
    BY <2>3, <2>4, FewerFit
  <2>6. ListedFits(J)
    BY <2>2, <2>3 DEF ListedFits
  <2> QED
    BY <2>1, <2>2, <2>3, <2>5, <2>6 DEF ForkInv
<1>5. CASE NewProcess
  <2>1. listed' = <<>> /\ UNCHANGED <<wires, forked, own>>
    BY <1>5 DEF NewProcess
  <2>2. ListedFits(listed')
    BY <2>1, EmptyHasNoDomain DEF ListedFits
  <2> QED
    BY <2>1, <2>2 DEF ForkInv
<1>6. CASE NextSecond
  BY <1>1, <1>6 DEF NextSecond
<1>7. CASE TreeNext
  <2>1. forkVars' = forkVars
    BY <1>7 DEF TreeNext, SetRoot, NavigateTo, AddChild, NavigateParent, NavigateChild
  <2> QED
    BY <1>1, <2>1 DEF forkVars
<1>8. CASE UNCHANGED branchVars
  BY <1>1, <1>8 DEF branchVars, forkVars
<1> QED
  BY <1>2, <1>3, <1>4, <1>5, <1>6, <1>7, <1>8 DEF BranchesNext

\* What a file of the shape holds and what is read of it.
LEMMA ReadBeforeGlued ==
  ASSUME NEW d \in DOMAIN wires, NEW L, WireFits(wires[d], own[d]), Shaped(wires[d], own[d], L), own[d] # <<>>,
         Len(FlattenSeq(wires[d].lines)) - Len(own[d]) > 0
  PROVE  Len(LoadedFrom(d)) < Len(FlattenSeq(wires[d].lines)) - Len(own[d])
<1>1. PICK W, k, m : W = wires[d].lines /\ k = Len(L) /\ m = Len(W)
  OBVIOUS
<1>2. PICK a, o, s : a = FlattenSeq(L) /\ o = own[d] /\ s = FlattenSeq(W)
  OBVIOUS
<1>3. AreLines(W) /\ AreLines(L) /\ IsRun(o) /\ IsRun(a) /\ k \in Nat /\ m \in Nat /\ Grown(a, o, s)
  <2>1. AreLines(W) /\ AreLines(L) /\ IsRun(o) /\ Grown(a, o, s)
    BY <1>1, <1>2 DEF WireFits, Shaped
  <2> QED
    BY <1>1, <1>2, <2>1, WholeIsLines
<1>4. Len(s) - Len(o) = Len(a) /\ Len(a) > 0
  <2>1. Len(s) - Len(o) = Len(a)
    BY <1>3, EndsIsSuffix
  <2> QED
    BY <1>1, <1>2, <2>1
<1>5. L # <<>>
  <2> SUFFICES ASSUME L = <<>> PROVE FALSE
    OBVIOUS
  <2>1. a = <<>>
    BY <1>2 DEF FlattenSeq
  <2>2. Len(a) = 0
    BY <2>1
  <2> QED
    BY <1>4, <2>2
<1>6. k <= m /\ (\A i \in 1..(k - 1) : W[i] = L[i]) /\ Len(W[k]) > 1 /\ k # 0
  <2>1. k <= m /\ (\A i \in 1..(k - 1) : W[i] = L[i]) /\ Len(W[k]) > 1
    BY <1>1, <1>2, <1>5 DEF Shaped
  <2>2. k # 0
    BY <1>1, <1>3, <1>5 DEF AreLines
  <2> QED
    BY <2>1, <2>2
<1> DEFINE glued == {i \in DOMAIN W : Len(W[i]) > 1}
<1>7. glued \in SUBSET Nat /\ DOMAIN W = 1..m /\ k \in glued
  <2>1. DOMAIN W = 1..m
    BY <1>1, <1>3 DEF AreLines
  <2>2. k \in 1..m
    BY <1>3, <1>6
  <2> QED
    BY <1>6, <2>1, <2>2
<1>8. PICK i : i = CHOOSE j \in glued : \A h \in glued : j <= h
  OBVIOUS
<1>9. i \in glued /\ i <= k
  <2>1. \E j \in glued : \A h \in glued : j <= h
    <3>1. glued # {} /\ glued \in SUBSET Nat
      BY <1>7
    <3> HIDE DEF glued
    <3> QED
      BY <3>1, LeastNumber
  <2>2. i \in glued /\ \A h \in glued : i <= h
    BY <1>8, <2>1
  <2> QED
    BY <1>7, <2>2
<1>10. PICK n : n = i - 1
  OBVIOUS
<1>11. n \in Nat /\ n < k /\ n <= m
  <2>1. i \in 1..m
    BY <1>7, <1>9
  <2> QED
    BY <1>3, <1>6, <1>9, <1>10, <2>1
<1>12. LoadedFrom(d) = FlattenSeq(SubSeq(W, 1, n))
  BY <1>1, <1>7, <1>8, <1>10 DEF LoadedFrom
<1>13. SubSeq(W, 1, n) = SubSeq(L, 1, n)
  <2>1. PICK x, y : x = SubSeq(W, 1, n) /\ y = SubSeq(L, 1, n)
    OBVIOUS
  <2>2. \A j \in 1..n : W[j] \in Seq(Nat) /\ L[j] \in Seq(Nat) /\ W[j] = L[j]
    <3> SUFFICES ASSUME NEW j \in 1..n PROVE W[j] \in Seq(Nat) /\ L[j] \in Seq(Nat) /\ W[j] = L[j]
      OBVIOUS
    <3>1. j \in 1..m /\ j \in 1..k /\ j \in 1..(k - 1)
      BY <1>3, <1>11
    <3>2. L \in Seq(Seq(Nat))
      BY <1>3 DEF AreLines
    <3>3. L[j] \in Seq(Nat)
      BY <1>1, <3>1, <3>2
    <3> QED
      BY <1>6, <3>1, <3>3
  <2>3. x \in Seq(Seq(Nat)) /\ Len(x) = n /\ \A j \in 1..n : x[j] = W[j]
    BY <1>11, <2>1, <2>2, SubSeqProperties
  <2>4. y \in Seq(Seq(Nat)) /\ Len(y) = n /\ \A j \in 1..n : y[j] = L[j]
    BY <1>11, <2>1, <2>2, SubSeqProperties
  <2>5. x = y
    <3>1. x \in Seq(Seq(Nat)) /\ y \in Seq(Seq(Nat)) /\ Len(x) = Len(y)
      BY <2>3, <2>4
    <3>2. \A j \in 1..Len(x) : x[j] = y[j]
      BY <2>2, <2>3, <2>4
    <3> QED
      BY <3>1, <3>2, SeqEqual
  <2> QED
    BY <2>1, <2>5
<1>14. Len(FlattenSeq(SubSeq(L, 1, n))) < Len(a)
  BY <1>1, <1>2, <1>3, <1>11, LinesAreFewer
<1> QED
  BY <1>1, <1>2, <1>4, <1>12, <1>13, <1>14

LEMMA ForksHold == ASSUME BranchesInv, ForkInv PROVE ContinuedForkLosesItsTail /\ ForkIsAPrefix
<1>1. \A d \in DOMAIN wires : WireFits(wires[d], own[d]) /\ (d # Original => ForkFits(wires, own, forked, d))
  BY DEF ForkInv, FilesFit
<1>2. \A d : Twice(d) <=> TwiceIn(forked, d)
  BY NamesAreNames
<1>3. ASSUME NEW d \in DOMAIN wires, d = Original
      PROVE  LoadedFrom(d) = own[d] /\ Len(FlattenSeq(wires[d].lines)) - Len(own[d]) = 0
  <2>1. /\ FlattenSeq(wires[d].lines) = own[d]
        /\ \A i \in DOMAIN wires[d].lines : Len(wires[d].lines[i]) = 1
    BY <1>3 DEF ForkInv, OriginalFits
  <2>2. {i \in DOMAIN wires[d].lines : Len(wires[d].lines[i]) > 1} = {}
    <3>1. ~ (1 > 1)
      OBVIOUS
    <3> QED
      BY <2>1, <3>1
  <2>3. LoadedFrom(d) = FlattenSeq(SubSeq(wires[d].lines, 1, Len(wires[d].lines)))
    BY <2>2 DEF LoadedFrom
  <2>4. SubSeq(wires[d].lines, 1, Len(wires[d].lines)) = wires[d].lines
    BY <1>1, WholeIsLines DEF WireFits
  <2>5. PICK n : n = Len(own[d])
    OBVIOUS
  <2>6. n \in Nat
    BY <1>1, <2>5 DEF WireFits, IsRun
  <2>7. n - n = 0
    BY <2>6
  <2> QED
    BY <2>1, <2>3, <2>4, <2>5, <2>7
<1>4. ASSUME NEW d \in DOMAIN wires, ~ Twice(d), d # Original, own[d] # <<>>,
             Len(FlattenSeq(wires[d].lines)) - Len(own[d]) > 0
      PROVE  Len(LoadedFrom(d)) < Len(FlattenSeq(wires[d].lines)) - Len(own[d])
  <2>1. PICK L : Shaped(wires[d], own[d], L)
    BY <1>1, <1>2, <1>4 DEF ForkFits
  <2> QED
    BY <1>1, <1>4, <2>1, ReadBeforeGlued
<1>5. ContinuedForkLosesItsTail
  <2> SUFFICES ASSUME NEW d \in DOMAIN wires, ~ Twice(d)
               PROVE  /\ d = Original => LoadedFrom(d) = own[d]
                      /\ Len(FlattenSeq(wires[d].lines)) - Len(own[d]) > 0 /\ own[d] # <<>> =>
                           Len(LoadedFrom(d)) < Len(FlattenSeq(wires[d].lines)) - Len(own[d])
    BY DEF ContinuedForkLosesItsTail
  <2>1. CASE d = Original
    <3>1. LoadedFrom(d) = own[d] /\ Len(FlattenSeq(wires[d].lines)) - Len(own[d]) = 0
      BY <1>3, <2>1
    <3>2. ~ (0 > 0)
      OBVIOUS
    <3> QED
      BY <3>1, <3>2
  <2>2. CASE d # Original
    BY <1>4, <2>2
  <2> QED
    BY <2>1, <2>2
<1>6. ASSUME NEW d \in DOMAIN wires, d # Original, Front(d) \in DOMAIN wires, ~ Twice(d), ~ Twice(Front(d))
      PROVE  LET all == FlattenSeq(wires[d].lines)
             IN /\ IsSuffix(own[d], all)
                /\ IsPrefix(SubSeq(all, 1, Len(all) - Len(own[d])), FlattenSeq(wires[Front(d)].lines))
  <2>1. PICK L : /\ Shaped(wires[d], own[d], L)
                 /\ OpensWith(FlattenSeq(L), FlattenSeq(wires[Front(d)].lines))
    BY <1>1, <1>2, <1>6 DEF ForkFits
  <2>2. PICK a, o, s, t : a = FlattenSeq(L) /\ o = own[d] /\ s = FlattenSeq(wires[d].lines)
                          /\ t = FlattenSeq(wires[Front(d)].lines)
    OBVIOUS
  <2>3. Grown(a, o, s) /\ IsRun(o) /\ AreLines(L) /\ OpensWith(a, t)
    BY <1>1, <2>1, <2>2 DEF Shaped, WireFits
  <2>4. IsRun(a)
    BY <2>2, <2>3, WholeIsLines
  <2>5. IsSuffix(o, s) /\ SubSeq(s, 1, Len(s) - Len(o)) = a
    BY <2>3, <2>4, EndsIsSuffix
  <2>6. IsPrefix(a, t)
    BY <2>3, <2>4, OpensIsPrefix
  <2> QED
    BY <2>2, <2>5, <2>6
<1>7. \A d \in DOMAIN listed : listed[d] <= Last(d)[1]
  BY DEF ForkInv, ListedFits
<1>8. ForkIsAPrefix
  BY <1>6, <1>7 DEF ForkIsAPrefix
<1> QED
  BY <1>5, <1>8

-----------------------------------------------------------------------------
(***************************************************************************)
(* Memories.  What an order arranges is there once, each before the others *)
(* that the order puts behind it; so what is trimmed is before all that    *)
(* stays.                                                                  *)
(***************************************************************************)
\* R puts the elements of P in one order.
PutsInOrder(R, P) ==
  /\ \A i \in P : <<i, i>> \notin R
  /\ \A i, j \in P : i # j => <<i, j>> \in R \/ <<j, i>> \in R
  /\ \A i, j, k \in P : <<i, j>> \in R /\ <<j, k>> \in R => <<i, k>> \in R

\* s is m at the positions q, which are those of P in the order R.
ArrangedBy(s, m, P, R, q) ==
  /\ q \in [1..Cardinality(P) -> P] /\ s = [k \in 1..Cardinality(P) |-> m[q[k]]]
  /\ \A p \in P : \E k \in 1..Cardinality(P) : q[k] = p
  /\ \A k, l \in 1..Cardinality(P) : k < l => <<q[k], q[l]>> \in R

LEMMA Arranging ==
  ASSUME NEW m, NEW P, IsFiniteSet(P), NEW R, PutsInOrder(R, P)
  PROVE  Cardinality(P) \in Nat /\ \E q : ArrangedBy(Arranged(m, P, R), m, P, R, q)
<1> DEFINE n == Cardinality(P)
           Prior(i) == {j \in P : <<j, i>> \in R}
           place == [i \in P |-> Cardinality(Prior(i))]
           q == [k \in 1..n |-> CHOOSE i \in P : Cardinality(Prior(i)) = k - 1]
<1>1. n \in Nat
  BY FS_CardinalityType
<1>2. ASSUME NEW p \in P
      PROVE  IsFiniteSet(Prior(p)) /\ place[p] \in 0..(n - 1) /\ place[p] \in Nat
  <2>1. Prior(p) \in SUBSET (P \ {p})
    BY DEF PutsInOrder
  <2>2. IsFiniteSet(P \ {p}) /\ Cardinality(P \ {p}) = n - 1
    BY <1>1, FS_RemoveElement
  <2>3. IsFiniteSet(Prior(p)) /\ Cardinality(Prior(p)) <= Cardinality(P \ {p})
    BY <2>1, <2>2, FS_Subset
  <2>4. Cardinality(Prior(p)) \in Nat
    BY <2>3, FS_CardinalityType
  <2> HIDE DEF n, Prior
  <2> QED
    BY <1>1, <2>2, <2>3, <2>4
<1>3. ASSUME NEW p \in P, NEW r \in P, <<p, r>> \in R
      PROVE  place[p] < place[r]
  <2>1. Prior(p) \in SUBSET Prior(r)
    BY <1>3 DEF PutsInOrder
  <2>2. p \in Prior(r) /\ p \notin Prior(p)
    BY <1>3 DEF PutsInOrder
  <2>3. Cardinality(Prior(p)) <= Cardinality(Prior(r)) /\ Cardinality(Prior(p)) # Cardinality(Prior(r))
    BY <1>2, <2>1, <2>2, FS_Subset
  <2>4. place[p] \in Nat /\ place[r] \in Nat
    BY <1>2
  <2>5. place[p] <= place[r] /\ place[p] # place[r]
    BY <2>3
  <2> HIDE DEF place
  <2> QED
    BY <2>4, <2>5
<1>4. ASSUME NEW p \in P, NEW r \in P, place[p] = place[r]
      PROVE  p = r
  <2>1. place[p] \in Nat /\ ~ (place[p] < place[r]) /\ ~ (place[r] < place[p])
    <3>1. place[p] \in Nat
      BY <1>2
    <3> HIDE DEF place
    <3> QED
      BY <1>4, <3>1
  <2> HIDE DEF place
  <2> QED
    BY <1>3, <2>1 DEF PutsInOrder
<1>5. ASSUME NEW k \in 1..n
      PROVE  \E p \in P : place[p] = k - 1
  <2> DEFINE T == (0..(n - 1)) \ {k - 1}
  <2>1. SUFFICES ASSUME \A p \in P : place[p] # k - 1 PROVE FALSE
    OBVIOUS
  <2>2. /\ IsFiniteSet(0..(n - 1)) /\ Cardinality(0..(n - 1)) = n
    <3>1. n >= 1 /\ n - 1 \in Int /\ ~ (0 > n - 1)
      BY <1>1
    <3> HIDE DEF n
    <3>2. Cardinality(0..(n - 1)) = (n - 1) - 0 + 1 /\ IsFiniteSet(0..(n - 1))
      BY <3>1, FS_Interval
    <3> QED
      BY <1>1, <3>2
  <2>3. IsFiniteSet(T) /\ Cardinality(T) < n
    <3>1. k - 1 \in 0..(n - 1)
      BY <1>1
    <3> DEFINE I == 0..(n - 1)
               x == k - 1
    <3>2. IsFiniteSet(I) /\ Cardinality(I) = n /\ x \in I /\ T = I \ {x}
      BY <2>2, <3>1
    <3> HIDE DEF n, T, I, x
    <3>3. IsFiniteSet(T) /\ Cardinality(T) = n - 1
      BY <3>2, FS_RemoveElement
    <3> QED
      BY <1>1, <3>3
  <2>4. place \in [P -> T]
    <3>1. \A p \in P : place[p] \in T
      BY <1>2, <2>1
    <3> QED
      BY <3>1
  <2> HIDE DEF place, T
  <2>5. \E p, r \in P : p # r /\ place[p] = place[r]
    BY <1>1, <2>3, <2>4, FS_PigeonHole
  <2> QED
    BY <1>4, <2>5
<1>6. \A k \in 1..n : q[k] \in P /\ place[q[k]] = k - 1
  <2> SUFFICES ASSUME NEW k \in 1..n PROVE q[k] \in P /\ place[q[k]] = k - 1
    OBVIOUS
  <2>1. \E p \in P : Cardinality(Prior(p)) = k - 1
    BY <1>5
  <2> HIDE DEF Prior
  <2>2. q[k] \in P /\ Cardinality(Prior(q[k])) = k - 1
    BY <2>1
  <2> QED
    BY <2>2
<1>7. Arranged(m, P, R) = [k \in 1..n |-> m[q[k]]]
  BY DEF Arranged
<1>10. q \in [1..n -> P]
  BY <1>6
<1>9. \A p \in P : place[p] \in 0..(n - 1) /\ place[p] \in Nat
  BY <1>2
<1> HIDE DEF q, place
<1>11. ASSUME NEW p \in P PROVE \E k \in 1..n : q[k] = p
  <2>1. PICK k : k = place[p] + 1
    OBVIOUS
  <2>2. k \in 1..n /\ place[p] = k - 1
    BY <1>1, <1>9, <2>1
  <2>3. place[q[k]] = place[p] /\ q[k] \in P
    BY <1>6, <2>2
  <2>4. q[k] = p
    BY <1>4, <2>3
  <2> QED
    BY <2>2, <2>4
<1>12. ASSUME NEW k \in 1..n, NEW l \in 1..n, k < l PROVE <<q[k], q[l]>> \in R
  <2>1. place[q[k]] = k - 1 /\ place[q[l]] = l - 1 /\ q[k] \in P /\ q[l] \in P
    BY <1>6
  <2>2. ~ (l - 1 < k - 1) /\ l - 1 # k - 1
    BY <1>1, <1>12
  <2>3. q[k] # q[l]
    BY <2>1, <2>2
  <2>4. <<q[l], q[k]>> \notin R
    BY <1>3, <2>1, <2>2
  <2> QED
    BY <2>1, <2>3, <2>4 DEF PutsInOrder
<1>13. ArrangedBy(Arranged(m, P, R), m, P, R, q)
  BY <1>7, <1>10, <1>11, <1>12 DEF ArrangedBy
<1> QED
  BY <1>1, <1>13

Memories == [id : Nat, weight : Nat]

LEMMA OrdersPut ==
  ASSUME NEW m \in Seq(Memories), NEW P \in SUBSET DOMAIN m
  PROVE  /\ IsFiniteSet(P) /\ PutsInOrder(AsTheyCame(m), P)
         /\ PutsInOrder(LeastFirst(m), P) /\ PutsInOrder(MostFirst(m), P)
<1>1. DOMAIN m = 1..Len(m) /\ Len(m) \in Nat
  OBVIOUS
<1>2. IsFiniteSet(P)
  <2>1. PICK n : n = Len(m)
    OBVIOUS
  <2>2. n \in Nat /\ P \in SUBSET (1..n)
    BY <1>1, <2>1
  <2>3. IsFiniteSet(1..n)
    BY <2>2, FS_Interval
  <2> QED
    BY <2>2, <2>3, FS_Subset
<1>3. \A i \in P : i \in DOMAIN m /\ i \in Nat /\ m[i].weight \in Nat /\ m[i].id \in Nat
  <2>1. \A i \in P : i \in 1..Len(m) /\ m[i] \in Memories
    BY <1>1
  <2> QED
    BY <1>1, <2>1 DEF Memories
<1>4. \A i, j \in P : <<i, j>> \in AsTheyCame(m) <=> i < j
  BY <1>3 DEF AsTheyCame
<1>5. \A i, j \in P : <<i, j>> \in MostFirst(m) <=>
        m[i].weight > m[j].weight \/ (m[i].weight = m[j].weight /\ i < j)
  BY <1>3 DEF MostFirst
<1>6. \A i, j \in P : <<i, j>> \in LeastFirst(m) <=>
        \/ m[i].weight < m[j].weight
        \/ m[i].weight = m[j].weight /\ (m[i].id < m[j].id \/ (m[i].id = m[j].id /\ i < j))
  BY <1>3 DEF LeastFirst
<1>7. PutsInOrder(AsTheyCame(m), P)
  BY <1>3, <1>4 DEF PutsInOrder
<1>8. PutsInOrder(MostFirst(m), P)
  <2>1. PICK R : R = MostFirst(m)
    OBVIOUS
  <2>2. \A i \in P : <<i, i>> \notin R
    BY <1>3, <1>5, <2>1
  <2>3. \A i, j \in P : i # j => <<i, j>> \in R \/ <<j, i>> \in R
    BY <1>3, <1>5, <2>1
  <2>4. ASSUME NEW i \in P, NEW j \in P, NEW k \in P, <<i, j>> \in R, <<j, k>> \in R PROVE <<i, k>> \in R
    <3>1. PICK x, y, z : x = m[i].weight /\ y = m[j].weight /\ z = m[k].weight
      OBVIOUS
    <3>2. /\ x \in Nat /\ y \in Nat /\ z \in Nat /\ i \in Nat /\ j \in Nat /\ k \in Nat
          /\ x > y \/ (x = y /\ i < j)
          /\ y > z \/ (y = z /\ j < k)
      BY <1>3, <1>5, <2>1, <2>4, <3>1
    <3>3. x > z \/ (x = z /\ i < k)
      BY <3>2
    <3> QED
      BY <1>5, <2>1, <3>1, <3>3
  <2> QED
    BY <2>1, <2>2, <2>3, <2>4 DEF PutsInOrder
<1>9. PutsInOrder(LeastFirst(m), P)
  <2>1. PICK R : R = LeastFirst(m)
    OBVIOUS
  <2>2. \A i \in P : <<i, i>> \notin R
    BY <1>3, <1>6, <2>1
  <2>3. \A i, j \in P : i # j => <<i, j>> \in R \/ <<j, i>> \in R
    BY <1>3, <1>6, <2>1
  <2>4. ASSUME NEW i \in P, NEW j \in P, NEW k \in P, <<i, j>> \in R, <<j, k>> \in R PROVE <<i, k>> \in R
    <3>1. PICK x, y, z, a, b, d : /\ x = m[i].weight /\ y = m[j].weight /\ z = m[k].weight
                                  /\ a = m[i].id /\ b = m[j].id /\ d = m[k].id
      OBVIOUS
    <3>2. /\ x \in Nat /\ y \in Nat /\ z \in Nat /\ i \in Nat /\ j \in Nat /\ k \in Nat
          /\ a \in Nat /\ b \in Nat /\ d \in Nat
          /\ x < y \/ (x = y /\ (a < b \/ (a = b /\ i < j)))
          /\ y < z \/ (y = z /\ (b < d \/ (b = d /\ j < k)))
      BY <1>3, <1>6, <2>1, <2>4, <3>1
    <3>3. x < z \/ (x = z /\ (a < d \/ (a = d /\ i < k)))
      BY <3>2
    <3> QED
      BY <1>6, <2>1, <3>1, <3>3
  <2> QED
    BY <2>1, <2>2, <2>3, <2>4 DEF PutsInOrder
<1> QED
  BY <1>2, <1>7, <1>8, <1>9

\* s holds m at the positions P, in the order R.
Follows(m, P, R, x, y) == \E i, j \in P : x = m[i] /\ y = m[j] /\ <<i, j>> \in R
Rearranges(s, m, P, R) ==
  /\ s \in Seq(Memories) /\ Len(s) = Cardinality(P)
  /\ \A p \in P : \E k \in DOMAIN s : s[k] = m[p]
  /\ \A k, l \in DOMAIN s : k < l => Follows(m, P, R, s[k], s[l])
  /\ \A k \in DOMAIN s : \E i \in P : s[k] = m[i]

LEMMA ArrangedHolds ==
  ASSUME NEW m \in Seq(Memories), NEW P \in SUBSET DOMAIN m, IsFiniteSet(P), NEW R, PutsInOrder(R, P)
  PROVE  Rearranges(Arranged(m, P, R), m, P, R)
<1>1. PICK n, s : n = Cardinality(P) /\ s = Arranged(m, P, R)
  OBVIOUS
<1>2. n \in Nat
  BY <1>1, Arranging
<1>3. PICK q : ArrangedBy(s, m, P, R, q)
  BY <1>1, Arranging
<1>4. /\ q \in [1..n -> P] /\ s = [k \in 1..n |-> m[q[k]]]
      /\ \A p \in P : \E k \in 1..n : q[k] = p
      /\ \A k, l \in 1..n : k < l => <<q[k], q[l]>> \in R
  BY <1>1, <1>3 DEF ArrangedBy
<1>5. \A k \in 1..n : q[k] \in P /\ m[q[k]] \in Memories /\ s[k] = m[q[k]]
  <2>1. \A p \in P : m[p] \in Memories
    OBVIOUS
  <2> QED
    BY <1>4, <2>1
<1>6. s \in Seq(Memories) /\ Len(s) = n /\ DOMAIN s = 1..n
  <2>1. s \in [1..n -> Memories]
    BY <1>4, <1>5
  <2>2. s \in Seq(Memories)
    BY <1>2, <2>1
  <2>3. Len(s) = n
    BY <1>2, <2>1, LenOfPath
  <2> QED
    BY <2>1, <2>2, <2>3
<1>7. \A p \in P : \E k \in DOMAIN s : s[k] = m[p]
  BY <1>4, <1>5, <1>6
<1>8. \A k \in DOMAIN s : \E i \in P : s[k] = m[i]
  BY <1>5, <1>6
<1>9. \A k, l \in DOMAIN s : k < l => Follows(m, P, R, s[k], s[l])
  BY <1>4, <1>5, <1>6 DEF Follows
<1> QED
  BY <1>1, <1>6, <1>7, <1>8, <1>9 DEF Rearranges

\* At most max_entries of m are in s, and they are worth most.
KeepsTheBest(s, m) ==
  /\ s \in Seq(Memories) /\ Len(s) <= MaxMemories
  /\ \A i \in DOMAIN m : (\A k \in DOMAIN s : s[k] # m[i]) =>
       \A k \in DOMAIN s : m[i].weight <= s[k].weight

LEMMA TrimmedHolds ==
  ASSUME NEW m \in Seq(Memories)
  PROVE  KeepsTheBest(Trimmed(m), m)
<1>1. PICK n : n = Len(m)
  OBVIOUS
<1>2. n \in Nat /\ DOMAIN m = 1..n /\ MaxMemories \in Nat \ {0}
  BY <1>1, RecordsAssumption
<1>3. CASE n <= MaxMemories
  <2>1. Trimmed(m) = m
    BY <1>1, <1>3 DEF Trimmed
  <2> QED
    BY <1>1, <1>3, <2>1 DEF KeepsTheBest
<1>4. CASE ~ (n <= MaxMemories)
  <2>1. PICK a, t, b : a = Arranged(m, DOMAIN m, LeastFirst(m)) /\ t = Trimmed(m) /\ b = n - MaxMemories
    OBVIOUS
  <2>2. t = SubSeq(a, b + 1, n)
    BY <1>1, <1>4, <2>1 DEF Trimmed
  <2>3. b \in Nat /\ n - (b + 1) + 1 = MaxMemories /\ b + 1 <= n
    BY <1>2, <1>4, <2>1
  <2>4. PutsInOrder(LeastFirst(m), DOMAIN m) /\ IsFiniteSet(DOMAIN m) /\ Cardinality(DOMAIN m) = n
    <3>1. Cardinality(1..n) = n
      BY <1>2, FS_Interval
    <3> QED
      BY <1>2, <3>1, OrdersPut
  <2>5. /\ a \in Seq(Memories) /\ Len(a) = n
        /\ \A p \in DOMAIN m : \E k \in DOMAIN a : a[k] = m[p]
        /\ \A k, l \in DOMAIN a : k < l => Follows(m, DOMAIN m, LeastFirst(m), a[k], a[l])
    <3>1. Rearranges(a, m, DOMAIN m, LeastFirst(m))
      BY <2>1, <2>4, ArrangedHolds
    <3> QED
      BY <2>4, <3>1 DEF Rearranges
  <2>6. DOMAIN a = 1..n /\ \A k \in 1..n : a[k] \in Memories
    BY <2>5
  <2>7. \A k, l \in 1..n : k < l => a[k].weight <= a[l].weight
    <3> SUFFICES ASSUME NEW k \in 1..n, NEW l \in 1..n, k < l PROVE a[k].weight <= a[l].weight
      OBVIOUS
    <3>1. PICK i \in DOMAIN m, j \in DOMAIN m : a[k] = m[i] /\ a[l] = m[j] /\ <<i, j>> \in LeastFirst(m)
      <4>1. Follows(m, DOMAIN m, LeastFirst(m), a[k], a[l])
        BY <2>5, <2>6
      <4> QED
        BY <4>1 DEF Follows
    <3>2. m[i].weight < m[j].weight \/ m[i].weight = m[j].weight
      BY <3>1 DEF LeastFirst
    <3>3. m[i].weight \in Nat /\ m[j].weight \in Nat
      <4>1. m[i] \in Memories /\ m[j] \in Memories
        OBVIOUS
      <4> QED
        BY <4>1 DEF Memories
    <3> QED
      BY <3>1, <3>2, <3>3
  <2>8. /\ t \in Seq(Memories) /\ Len(t) = MaxMemories
        /\ \A k \in 1..MaxMemories : t[k] = a[b + k] /\ b + k \in 1..n
    <3>1. \A i \in (b + 1)..n : i \in 1..n
      BY <2>3
    <3>2. \A i \in (b + 1)..n : a[i] \in Memories
      BY <2>6, <3>1
    <3>3. b + 1 \in Int /\ n \in Int
      BY <1>2, <2>3
    <3>4. PICK x, y : x = b + 1 /\ y = n
      OBVIOUS
    <3>5. /\ t \in Seq(Memories) /\ Len(t) = IF x <= y THEN y - x + 1 ELSE 0
          /\ \A k \in 1..(y - x + 1) : t[k] = a[x + k - 1]
      BY <2>2, <3>2, <3>3, <3>4, SubSeqProperties
    <3>6. Len(t) = MaxMemories /\ y - x + 1 = MaxMemories
      BY <2>3, <3>4, <3>5
    <3>7. \A k \in 1..MaxMemories : x + k - 1 = b + k /\ b + k \in 1..n
      BY <1>2, <2>1, <2>3, <3>4
    <3> QED
      BY <3>5, <3>6, <3>7
  <2>9. DOMAIN t = 1..MaxMemories
    BY <2>8
  <2>10. ASSUME NEW i \in DOMAIN m, \A k \in DOMAIN t : t[k] # m[i], NEW k \in DOMAIN t
         PROVE  m[i].weight <= t[k].weight
    <3>1. PICK j \in 1..n : a[j] = m[i]
      BY <2>5, <2>6
    <3>2. j < b + k /\ b + k \in 1..n /\ t[k] = a[b + k]
      <4>1. b + k \in 1..n /\ t[k] = a[b + k]
        BY <2>8, <2>9
      <4>2. ASSUME j > b PROVE FALSE
        <5>1. j - b \in 1..MaxMemories /\ b + (j - b) = j
          BY <1>2, <2>1, <2>3, <4>2
        <5>2. t[j - b] = a[j]
          BY <2>8, <5>1
        <5> QED
          BY <2>9, <2>10, <3>1, <5>1, <5>2
      <4>3. j <= b /\ k \in Nat \ {0}
        BY <1>2, <2>3, <2>9, <4>2
      <4> QED
        BY <2>3, <4>1, <4>3
    <3> QED
      BY <2>7, <3>1, <3>2
  <2>11. MaxMemories <= MaxMemories
    BY <1>2
  <2> QED
    BY <2>1, <2>8, <2>10, <2>11 DEF KeepsTheBest
<1> QED
  BY <1>3, <1>4

\* The entries in the file and in the memory of every holder.
MemoriesFit ==
  keeper = "memory" =>
    file.data \in Seq(Memories) /\ \A h \in Holders : held[h] \in Seq(Memories)

LEMMA SomeStay ==
  ASSUME NEW m \in Seq(Memories), NEW P \in SUBSET DOMAIN m
  PROVE  /\ Arranged(m, P, AsTheyCame(m)) \in Seq(Memories)
         /\ \A p \in P : \E k \in DOMAIN Arranged(m, P, AsTheyCame(m)) : Arranged(m, P, AsTheyCame(m))[k] = m[p]
<1>1. IsFiniteSet(P) /\ PutsInOrder(AsTheyCame(m), P)
  BY OrdersPut
<1>2. Rearranges(Arranged(m, P, AsTheyCame(m)), m, P, AsTheyCame(m))
  BY <1>1, ArrangedHolds
<1> QED
  BY <1>2 DEF Rearranges

LEMMA CallsKeepMemories ==
  ASSUME NEW m \in Seq(Memories), now \in Nat, NEW c \in MemoryCalls
  PROVE  MemoryAfter(c, m) \in Seq(Memories)
<1>0. c.name \in {"remember", "recall", "forget", "weigh"} /\ c.key \in Nat /\ c.arg \in Nat
  <2>1. RecordsAssumption
    BY RecordsAssumption
  <2>2. CASE c \in {Call("remember", now, i) : i \in 1..2}
    BY <2>2 DEF Call
  <2>3. CASE c = Call("recall", 0, 0)
    BY <2>3 DEF Call
  <2>4. CASE c \in {Call(n, i, 2) : n \in {"forget", "weigh"}, i \in 0..MaxNow}
    <3>1. PICK n \in {"forget", "weigh"}, i \in 0..MaxNow : c = Call(n, i, 2)
      BY <2>4
    <3>2. i \in Nat
      BY RecordsAssumption
    <3> QED
      BY <3>1, <3>2 DEF Call
  <2> QED
    BY <2>2, <2>3, <2>4 DEF MemoryCalls
<1>1. CASE c.name = "remember"
  <2>1. PICK e : e = [id |-> c.key, weight |-> c.arg]
    OBVIOUS
  <2>2. e \in Memories
    BY <1>0, <2>1 DEF Memories
  <2>3. Fresh(m) \in Seq(Memories)
    BY SomeStay DEF Fresh
  <2>4. Append(Fresh(m), e) \in Seq(Memories)
    BY <2>2, <2>3, AppendProperties
  <2>5. Trimmed(Append(Fresh(m), e)) \in Seq(Memories)
    BY <2>4, TrimmedHolds DEF KeepsTheBest
  <2> QED
    BY <1>1, <2>1, <2>5 DEF MemoryAfter
<1>2. CASE c.name = "recall"
  <2>1. IsFiniteSet(DOMAIN m) /\ PutsInOrder(MostFirst(m), DOMAIN m)
    BY OrdersPut
  <2>2. Rearranges(Arranged(m, DOMAIN m, MostFirst(m)), m, DOMAIN m, MostFirst(m))
    BY <2>1, ArrangedHolds
  <2> QED
    BY <1>2, <2>2 DEF MemoryAfter, Rearranges
<1>3. CASE c.name = "forget"
  <2>1. Arranged(m, {i \in DOMAIN m : m[i].id # c.key}, AsTheyCame(m)) \in Seq(Memories)
    BY SomeStay
  <2> QED
    BY <1>3, <2>1 DEF MemoryAfter
<1>4. CASE c.name = "weigh"
  <2>1. PICK f : f = FirstOf(m, c.key)
    OBVIOUS
  <2>2. PICK s : s = IF f = 0 THEN m ELSE [m EXCEPT ![f].weight = c.arg]
    OBVIOUS
  <2>3. MemoryAfter(c, m) = s
    BY <1>4, <2>1, <2>2 DEF MemoryAfter
  <2>4. CASE f = 0
    BY <2>2, <2>3, <2>4
  <2>5. CASE f # 0
    <3>1. PICK n : n = Len(m)
      OBVIOUS
    <3>2. n \in Nat /\ DOMAIN m = 1..n /\ \A i \in 1..n : m[i] \in Memories
      BY <3>1
    <3>3. s = [i \in 1..n |-> IF i = f THEN [m[i] EXCEPT !.weight = c.arg] ELSE m[i]]
      BY <2>2, <2>5, <3>2
    <3>4. \A i \in 1..n : [m[i] EXCEPT !.weight = c.arg] \in Memories
      BY <1>0, <3>2 DEF Memories
    <3>5. s \in [1..n -> Memories]
      BY <3>2, <3>3, <3>4
    <3> QED
      BY <2>3, <3>2, <3>5
  <2> QED
    BY <2>4, <2>5
<1> QED
  BY <1>0, <1>1, <1>2, <1>3, <1>4

LEMMA MemoriesFitFirst == RecordsInit => MemoriesFit
<1> SUFFICES ASSUME RecordsInit, keeper = "memory"
             PROVE  file.data \in Seq(Memories) /\ \A h \in Holders : held[h] \in Seq(Memories)
  BY DEF MemoriesFit
<1>1. NewObject(keeper) = <<>> /\ <<>> \in Seq(Memories)
  BY DEF NewObject
<1> QED
  BY <1>1 DEF RecordsInit

LEMMA MemoriesFitStep == ASSUME RecordsInv, MemoriesFit, [RecordsNext]_recordVars PROVE MemoriesFit'
<1>0. keeper' = keeper
  BY DEF RecordsNext, Open, Leave, Change, EndWrite, TimePasses, recordVars
<1> SUFFICES ASSUME keeper = "memory"
             PROVE  file'.data \in Seq(Memories) /\ \A h \in Holders : held'[h] \in Seq(Memories)
  BY <1>0 DEF MemoriesFit
<1>1. /\ file.data \in Seq(Memories) /\ \A h \in Holders : held[h] \in Seq(Memories)
      /\ NewObject(keeper) \in Seq(Memories)
  BY DEF MemoriesFit, NewObject
<1>2. held = [h \in Holders |-> held[h]] /\ file = [is |-> file.is, data |-> file.data] /\ now \in Nat
      /\ writer \in Holders \cup {"nobody"}
  BY RecordsAssumption DEF RecordsInv, RecordsTypeOK
<1>3. ASSUME NEW h \in Holders, Open(h)
      PROVE  file'.data \in Seq(Memories) /\ \A x \in Holders : held'[x] \in Seq(Memories)
  BY <1>1, <1>2, <1>3 DEF Open
<1>4. ASSUME NEW h \in Holders, Leave(h)
      PROVE  file'.data \in Seq(Memories) /\ \A x \in Holders : held'[x] \in Seq(Memories)
  BY <1>1, <1>2, <1>4 DEF Leave
<1>5. ASSUME NEW h \in Holders, NEW c \in CallsOf(keeper), Change(h, c)
      PROVE  file'.data \in Seq(Memories) /\ \A x \in Holders : held'[x] \in Seq(Memories)
  <2>1. c \in MemoryCalls /\ After(keeper, c, held[h]) = MemoryAfter(c, held[h])
    BY DEF CallsOf, After
  <2>2. After(keeper, c, held[h]) \in Seq(Memories)
    BY <1>1, <1>2, <2>1, CallsKeepMemories
  <2>3. held' = [held EXCEPT ![h] = After(keeper, c, held[h])] /\ file' = [file EXCEPT !.is = "torn"]
    BY <1>5 DEF Change
  <2> QED
    BY <1>1, <1>2, <2>2, <2>3
<1>6. CASE EndWrite
  BY <1>1, <1>2, <1>6 DEF EndWrite
<1>7. CASE TimePasses \/ UNCHANGED recordVars
  BY <1>1, <1>7 DEF TimePasses, recordVars
<1> QED
  BY <1>3, <1>4, <1>5, <1>6, <1>7 DEF RecordsNext

LEMMA TrimHolds == ASSUME RecordsInv, MemoriesFit PROVE TrimKeepsTheBest
<1> SUFFICES ASSUME keeper = "memory", NEW h \in open, NEW w \in 1..2
             PROVE  LET new == [id |-> now, weight |-> w]
                        was == ToSet(held[h]) \cup {new}
                        kept == ToSet(MemoryAfter(Call("remember", now, w), held[h]))
                    IN /\ Len(MemoryAfter(Call("remember", now, w), held[h])) <= MaxMemories
                       /\ \A e \in was \ kept : now - e.id >= 2 \/ \A k \in kept : e.weight <= k.weight
  BY DEF TrimKeepsTheBest
<1>1. now \in Nat /\ held[h] \in Seq(Memories)
  BY RecordsAssumption DEF RecordsInv, RecordsTypeOK, MemoriesFit
<1>2. PICK m, e1 : m = held[h] /\ e1 = [id |-> now, weight |-> w]
  OBVIOUS
<1>3. e1 \in Memories
  BY <1>1, <1>2 DEF Memories
<1>4. PICK f, g, s : f = Fresh(m) /\ g = Append(f, e1) /\ s = Trimmed(g)
  OBVIOUS
<1>5. /\ f \in Seq(Memories)
      /\ \A p \in {i \in DOMAIN m : now - m[i].id < 2} : \E k \in DOMAIN f : f[k] = m[p]
  <2>1. PICK P : P = {i \in DOMAIN m : now - m[i].id < 2}
    OBVIOUS
  <2>2. f = Arranged(m, P, AsTheyCame(m)) /\ m \in Seq(Memories) /\ P \in SUBSET DOMAIN m
    BY <1>1, <1>2, <1>4, <2>1 DEF Fresh
  <2>3. f \in Seq(Memories) /\ \A p \in P : \E k \in DOMAIN f : f[k] = m[p]
    BY <2>2, SomeStay
  <2> QED
    BY <2>1, <2>3
<1>6. g \in Seq(Memories) /\ Len(g) = Len(f) + 1 /\ Len(f) \in Nat /\ g[Len(f) + 1] = e1
      /\ \A i \in 1..Len(f) : g[i] = f[i]
  BY <1>3, <1>4, <1>5, AppendProperties
<1>7. /\ s \in Seq(Memories) /\ Len(s) <= MaxMemories
      /\ \A i \in DOMAIN g : (\A k \in DOMAIN s : s[k] # g[i]) =>
           \A k \in DOMAIN s : g[i].weight <= s[k].weight
  <2>1. KeepsTheBest(s, g)
    BY <1>4, <1>6, TrimmedHolds
  <2> QED
    BY <2>1 DEF KeepsTheBest
<1>8. MemoryAfter(Call("remember", now, w), m) = s
  BY <1>2, <1>4 DEF MemoryAfter, Call
<1>9. DOMAIN g = 1..(Len(f) + 1) /\ DOMAIN f = 1..Len(f)
  BY <1>5, <1>6
<1>10. ASSUME NEW e \in (ToSet(m) \cup {e1}) \ ToSet(s), ~ (now - e.id >= 2), NEW k \in ToSet(s)
       PROVE  e.weight <= k.weight
  <2>1. \E i \in DOMAIN g : g[i] = e
    <3>1. CASE e = e1
      <4>1. Len(f) + 1 \in 1..(Len(f) + 1)
        BY <1>6
      <4> QED
        BY <1>6, <1>9, <3>1, <4>1
    <3>2. CASE e \in ToSet(m)
      <4>1. PICK i \in DOMAIN m : m[i] = e
        BY <3>2 DEF ToSet
      <4>2. e \in Memories
        BY <1>1, <1>2, <4>1
      <4>3. now - e.id < 2
        BY <1>1, <1>10, <4>2 DEF Memories
      <4>4. PICK j \in DOMAIN f : f[j] = e
        BY <1>5, <4>1, <4>3
      <4>5. j \in 1..Len(f) /\ j \in 1..(Len(f) + 1)
        BY <1>6, <1>9, <4>4
      <4> QED
        BY <1>6, <1>9, <4>4, <4>5
    <3> QED
      BY <3>1, <3>2
  <2>2. PICK i \in DOMAIN g : g[i] = e
    BY <2>1
  <2>3. \A j \in DOMAIN s : s[j] # e
    BY DEF ToSet
  <2>4. PICK j \in DOMAIN s : s[j] = k
    BY DEF ToSet
  <2> QED
    BY <1>7, <2>2, <2>3, <2>4
<1> QED
  BY <1>2, <1>7, <1>8, <1>10

-----------------------------------------------------------------------------
(***************************************************************************)
(* The contents of all files together.                                     *)
(***************************************************************************)
ContentsInv ==
  /\ FilesInv /\ PatchInv /\ OnItsWay /\ TreeFits /\ ForkInv /\ MemoriesFit

LEMMA ContentsFirst == FilesInit => ContentsInv
<1> SUFFICES ASSUME FilesInit PROVE ContentsInv
  OBVIOUS
<1>1. BranchesInit /\ RecordsInit
  BY DEF FilesInit
<1>2. PatchInv /\ OnItsWay
  BY PatchInitially, OnItsWayFirst, NoPatchFits DEF FilesInit
<1> QED
  BY <1>1, <1>2, FilesInitially, TreeFitsFirst, ForkInvFirst, MemoriesFitFirst DEF ContentsInv

LEMMA ContentsKeep == ContentsInv /\ [FilesNext]_FilesVars => ContentsInv'
<1> SUFFICES ASSUME ContentsInv, [FilesNext]_FilesVars PROVE ContentsInv'
  OBVIOUS
<1>1. FileStep
  BY OneSubjectMoves
<1>2. FilesInv'
  BY FilesKeep DEF ContentsInv
<1>3. BranchesInv /\ RecordsInv
  BY DEF ContentsInv, FilesInv
<1>4. TreeFits' /\ ForkInv'
  BY <1>1, <1>3, TreeFitsStep, ForkInvStep DEF FileStep, ContentsInv
<1>5. MemoriesFit'
  BY <1>1, <1>3, MemoriesFitStep DEF FileStep, ContentsInv
<1>6. PatchInv' /\ OnItsWay'
  BY <1>1, PatchStep, OnItsWayStep DEF FileStep, ContentsInv
<1> QED
  BY <1>2, <1>4, <1>5, <1>6 DEF ContentsInv

\* Forks, the tree of sessions, the memories that are kept, the pages of a file
\* and patches: what is computed over whole sequences.
THEOREM ContentsAreHeld == FilesSpec => []ContentsHold
<1>1. ContentsInv => ContentsHold
  <2> SUFFICES ASSUME ContentsInv PROVE ContentsHold
    OBVIOUS
  <2>1. BranchesInv /\ RecordsInv /\ ToolsInv
    BY DEF ContentsInv, FilesInv
  <2>2. ContinuedForkLosesItsTail /\ ForkIsAPrefix
    BY <2>1, ForksHold DEF ContentsInv
  <2>3. TreeIsATree
    BY <2>1, TreeHolds DEF ContentsInv
  <2>4. TrimKeepsTheBest
    BY <2>1, TrimHolds DEF ContentsInv
  <2>5. PagesTile
    BY <2>1, PagesHold
  <2>6. PatchesApply
    BY OnItsWayArrives DEF ContentsInv
  <2> QED
    BY <2>2, <2>3, <2>4, <2>5, <2>6 DEF ContentsHold, BranchesHold
<1> QED
  BY ContentsFirst, ContentsKeep, <1>1, PTL DEF FilesSpec
=============================================================================
