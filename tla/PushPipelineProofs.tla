------------------------- MODULE PushPipelineProofs -------------------------
(***************************************************************************)
(* The sensor, and the sensor and the console together, for every set of   *)
(* payloads and connections, every size of the envelopes, every capacity   *)
(* of the spool and every retry budget.                                    *)
(*                                                                         *)
(* Each step of the pipeline is a step of the sensor against some network  *)
(* and a step of the console against some client, or leaves that side      *)
(* alone: the pipeline implements both components, and what is proved of   *)
(* either holds of it.  What joins them is the open connection (ConnInv):  *)
(* the request the sensor waits for is about the file it is sending, so    *)
(* the answer it acts on is an answer about that file.                     *)
(*                                                                         *)
(* Last come the merges, for every fleet and every trigger.  To the ingest *)
(* path a merge is invisible: AutoMerge implements ConsoleIngest, so its   *)
(* invariant and its append-only ledger are at hand.  Because rows of the  *)
(* ledger never go away, what a task knew when it was triggered, and what  *)
(* it read later, is still true when it writes its row; TaskInv says what  *)
(* a task knows at each of its steps.                                      *)
(***************************************************************************)
EXTENDS PushPipeline, AutoMerge, ConsoleIngestProofs, SequenceTheorems, NaturalsInduction,
        WellFoundedInduction

-----------------------------------------------------------------------------
(* The sensor *)

(* What _cmd_push knows while it runs: its envelope is nowhere but in memory
   and its exit code is still to come; the files it has left to send are
   distinct and still in the spool; it awaits an answer only for a file it
   has, and sends only within its retry budget. *)
JobInv ==
    /\ job.phase = "idle" => job = IdleJob
    /\ job.phase # "idle" =>
          /\ job.cur \in Payloads
          /\ job.cur \notin Spooled \cup exported \cup delivered \cup evicted \cup lost
          /\ exit = [code |-> -1, pid |-> job.cur]
    /\ job.phase = "push" => job.todo = <<>>
    /\ \A i \in DOMAIN job.todo : job.todo[i] \in ToSet(spool)
    /\ \A i, j \in DOMAIN job.todo : job.todo[i].pid = job.todo[j].pid => i = j
    /\ job.waiting => job.phase = "push" \/ job.todo # <<>>
    /\ ~job.waiting => job.tries < MaxTries

(* Only what was built is anywhere, and an exported envelope is never pushed
   by this host. *)
TraceInv ==
    /\ \A p \in Payloads :
          p \in {job.cur} \cup Spooled \cup exported \cup delivered \cup evicted \cup lost
              => built[p] \in Time
    /\ exported \cap (Spooled \cup delivered \cup evicted \cup lost) = {}

AgentInv ==
    /\ AgentTypeOK
    /\ SpoolBounded
    /\ JobInv
    /\ TraceInv
    /\ NothingLostSilently
    /\ ExitIsTruthful

-----------------------------------------------------------------------------
(* The byte count *)

(* A set of naturals that is not empty has a least element: the provers'
   substitute for induction, as the case of the least counterexample. *)
LEMMA LeastNat ==
    ASSUME NEW T \in SUBSET Nat, T # {}
    PROVE  \E n \in T : \A m \in T : n <= m
  <1>1. \E x \in T : \A y \in T : ~(<<y, x>> \in OpToRel(<, Nat))
    BY NatLessThanWellFounded, WFMin
  <1>2. PICK x \in T : \A y \in T : ~(<<y, x>> \in OpToRel(<, Nat))
    BY <1>1
  <1>3. \A y \in T : ~(y < x)
    BY <1>2 DEF OpToRel
  <1>4. QED
    BY <1>3

(* f is the running byte count of the first n files. *)
IsSum(f, files, n) ==
    /\ f \in [0..n -> Nat]
    /\ f[0] = 0
    /\ \A i \in 1..n : f[i] = f[i - 1] + Size[files[i].pid]

LEMMA SizeType ==
    ASSUME NEW s \in Seq(File), NEW i \in 1..Len(s)
    PROVE  Size[s[i].pid] \in Nat
  <1>1. s[i] \in File
    OBVIOUS
  <1>2. s[i].pid \in Payloads
    BY <1>1 DEF File
  <1>3. QED
    BY <1>2, AgentAssumption

LEMMA SumExists ==
    ASSUME NEW s \in Seq(File), NEW k \in 0..Len(s)
    PROVE  \E f : IsSum(f, s, k)
  <1> DEFINE T == {n \in 0..Len(s) : ~\E f : IsSum(f, s, n)}
  <1>1. SUFFICES ASSUME T # {} PROVE FALSE
    OBVIOUS
  <1>2. T \in SUBSET Nat
    OBVIOUS
  <1>3. PICK n \in T : \A m \in T : n <= m
    BY <1>1, <1>2, LeastNat
  <1>4. IsSum([i \in 0..0 |-> 0], s, 0)
    BY DEF IsSum
  <1>5. n # 0
    BY <1>3, <1>4
  <1>6. n - 1 \in 0..Len(s) /\ n - 1 \notin T
    BY <1>3, <1>5
  <1>7. PICK f : IsSum(f, s, n - 1)
    BY <1>6
  <1> DEFINE g == [i \in 0..n |-> IF i = n THEN f[n - 1] + Size[s[n].pid]
                                           ELSE f[i]]
  <1>8. Size[s[n].pid] \in Nat
    BY <1>3, <1>5, SizeType
  <1>9. IsSum(g, s, n)
    <2>1. f \in [0..(n - 1) -> Nat] /\ f[0] = 0
      BY <1>7 DEF IsSum
    <2>2. \A i \in 1..(n - 1) : f[i] = f[i - 1] + Size[s[i].pid]
      BY <1>7 DEF IsSum
    <2>3. g \in [0..n -> Nat] /\ g[0] = 0
      BY <2>1, <1>5, <1>6, <1>8
    <2>4. ASSUME NEW i \in 1..n PROVE g[i] = g[i - 1] + Size[s[i].pid]
      BY <2>1, <2>2, <1>6
    <2>5. QED
      BY <2>3, <2>4 DEF IsSum
  <1>10. QED
    BY <1>3, <1>9

(* Sums is what its recursive equation says. *)
LEMMA SumsIsSum ==
    ASSUME NEW s \in Seq(File)
    PROVE  IsSum(Sums(s), s, Len(s))
  <1> DEFINE F(g) == [n \in 0..Len(s) |->
                        IF n = 0 THEN 0 ELSE g[n - 1] + Size[s[n].pid]]
  <1>1. PICK f : IsSum(f, s, Len(s))
    BY SumExists
  <1>2. f = F(f)
    BY <1>1 DEF IsSum
  <1>3. Sums(s) = CHOOSE g : g = F(g)
    BY DEF Sums
  <1>4. Sums(s) = F(Sums(s))
    BY <1>2, <1>3
  <1> DEFINE h == Sums(s)
  <1> HIDE DEF h
  <1>5. h = F(h)
    BY <1>4 DEF h
  <1> DEFINE T == {n \in 0..Len(s) : h[n] # f[n]}
  <1>6. T = {}
    <2>1. SUFFICES ASSUME T # {} PROVE FALSE
      OBVIOUS
    <2>0. T \in SUBSET Nat
      OBVIOUS
    <2>2. PICK n \in T : \A m \in T : n <= m
      BY <2>1, <2>0, LeastNat
    <2>3. n # 0
      BY <1>5, <1>2, <2>2
    <2>4. n - 1 \in 0..Len(s) /\ h[n - 1] = f[n - 1]
      BY <2>2, <2>3
    <2>5. h[n] = h[n - 1] + Size[s[n].pid]
      BY <1>5, <2>2, <2>3
    <2>6. f[n] = f[n - 1] + Size[s[n].pid]
      BY <1>2, <2>2, <2>3
    <2>7. QED
      BY <2>2, <2>4, <2>5, <2>6
  <1>7. h = f
    <2>1. \A n \in 0..Len(s) : h[n] = f[n]
      BY <1>6
    <2>2. DOMAIN h = 0..Len(s) /\ h = [n \in DOMAIN h |-> h[n]]
      BY <1>5
    <2>3. DOMAIN f = 0..Len(s) /\ f = [n \in DOMAIN f |-> f[n]]
      BY <1>2
    <2> HIDE DEF F
    <2>4. QED
      BY <2>1, <2>2, <2>3
  <1>8. QED
    BY <1>1, <1>7 DEF h

LEMMA BytesOfNone == Bytes(<<>>) = 0
  <1>1. <<>> \in Seq(File) /\ Len(<<>>) = 0
    OBVIOUS
  <1>2. QED
    BY <1>1, SumsIsSum DEF Bytes, IsSum

(* Taking one file away does not make the rest larger. *)
LEMMA BytesOfFewer ==
    ASSUME NEW s \in Seq(File), NEW t \in Seq(File), NEW i \in 1..Len(s),
           Len(s) = Len(t) + 1,
           \A j \in 1..Len(t) : t[j] = IF j < i THEN s[j] ELSE s[j + 1]
    PROVE  Bytes(t) <= Bytes(s)
  <1> DEFINE f == Sums(s)
             g == Sums(t)
  <1>1. IsSum(f, s, Len(s)) /\ IsSum(g, t, Len(t))
    BY SumsIsSum
  <1> HIDE DEF f, g
  <1>2. \A n \in 1..Len(s) : f[n] = f[n - 1] + Size[s[n].pid]
    BY <1>1 DEF IsSum
  <1>3. \A n \in 1..Len(t) : g[n] = g[n - 1] + Size[t[n].pid]
    BY <1>1 DEF IsSum
  <1>4. f \in [0..Len(s) -> Nat] /\ g \in [0..Len(t) -> Nat]
          /\ f[0] = 0 /\ g[0] = 0
    BY <1>1 DEF IsSum
  <1>5. \A n \in 1..Len(s) : Size[s[n].pid] \in Nat
    BY SizeType
  <1> DEFINE Good(n) == (n < i => g[n] = f[n]) /\ g[n] <= f[n + 1]
             T == {n \in 0..Len(t) : ~Good(n)}
  <1>6. T = {}
    <2>1. SUFFICES ASSUME T # {} PROVE FALSE
      OBVIOUS
    <2>0. T \in SUBSET Nat
      OBVIOUS
    <2> HIDE DEF Good
    <2>2. PICK n \in T : \A m \in T : n <= m
      BY <2>1, <2>0, LeastNat
    <2>b. Len(t) \in Nat /\ n \in 0..Len(t)
      BY <2>2
    <2>3. n \in 0..Len(t) /\ n + 1 \in 1..Len(s) /\ f[n + 1] \in Nat
            /\ f[n] \in Nat /\ g[n] \in Nat
      <3>1. n \in 0..Len(t) /\ n \in 0..Len(s)
              /\ n + 1 \in 1..Len(s) /\ n + 1 \in 0..Len(s)
        BY <2>b
      <3>2. QED
        BY <3>1, <1>4
    <2>4. f[n + 1] = f[n] + Size[s[n + 1].pid] /\ Size[s[n + 1].pid] \in Nat
      <3>1. f[n + 1] = f[(n + 1) - 1] + Size[s[n + 1].pid]
        BY <1>2, <2>3
      <3>2. QED
        BY <3>1, <1>5, <2>3
    <2>5. CASE n = 0
      BY <2>5, <1>4, <2>2, <2>3 DEF Good
    <2>6. CASE n # 0
      <3>1. n - 1 \in 0..Len(t) /\ n - 1 \in 0..Len(s) /\ n \in 1..Len(t) /\ n \in 1..Len(s)
        BY <2>3, <2>6
      <3>2. Good(n - 1)
        BY <3>1, <2>2
      <3>3. g[n - 1] \in Nat /\ f[n - 1] \in Nat
        BY <3>1, <1>4
      <3>4. g[n] = g[n - 1] + Size[t[n].pid]
        BY <3>1, <1>3
      <3>5. f[n] = f[n - 1] + Size[s[n].pid] /\ Size[s[n].pid] \in Nat
        BY <3>1, <1>2, <1>5
      <3>6. CASE n < i
        <4>1. t[n] = s[n] /\ g[n - 1] = f[n - 1]
          BY <3>1, <3>2, <3>6 DEF Good
        <4>2. g[n] = f[n]
          BY <4>1, <3>4, <3>5
        <4>3. Good(n)
          BY <4>2, <2>3, <2>4 DEF Good
        <4>4. QED
          BY <4>3, <2>2
      <3>7. CASE ~(n < i)
        <4>1. t[n] = s[n + 1]
          BY <3>1, <3>7
        <4>2. g[n - 1] <= f[n]
          BY <3>1, <3>2 DEF Good
        <4>3. Size[t[n].pid] = Size[s[n + 1].pid]
          BY <4>1
        <4>4. g[n] <= f[n + 1]
          <5>1. f[n + 1] = f[n] + Size[t[n].pid] /\ Size[t[n].pid] \in Nat
            BY <4>3, <2>4
          <5>2. QED
            BY <4>2, <5>1, <3>3, <3>4, <2>3
        <4>5. Good(n)
          BY <4>4, <3>7 DEF Good
        <4>6. QED
          BY <4>5, <2>2
      <3>8. QED
        BY <3>6, <3>7
    <2>7. QED
      BY <2>5, <2>6
  <1>7. Good(Len(t))
    BY <1>6
  <1>8. QED
    BY <1>7 DEF Bytes, f, g

LEMMA BytesType ==
    ASSUME NEW s \in Seq(File)
    PROVE  Bytes(s) \in Nat
  <1>1. Len(s) \in 0..Len(s)
    OBVIOUS
  <1>2. QED
    BY <1>1, SumsIsSum DEF Bytes, IsSum

-----------------------------------------------------------------------------
(* The spool directory *)

(* No two files of one payload. *)
Distinct(files) ==
    \A i, j \in DOMAIN files : files[i].pid = files[j].pid => i = j

LEMMA DropFacts ==
    ASSUME NEW s \in Seq(File), NEW n \in 0..Len(s)
    PROVE  /\ Drop(s, n) \in Seq(File)
           /\ Len(Drop(s, n)) = Len(s) - n
           /\ \A j \in 1..(Len(s) - n) : Drop(s, n)[j] = s[j + n]
  <1>1. \A i \in (n + 1)..Len(s) : s[i] \in File
    OBVIOUS
  <1>2. n + 1 \in Int /\ Len(s) \in Int
    OBVIOUS
  <1> DEFINE t == SubSeq(s, n + 1, Len(s))
  <1>3. /\ t \in Seq(File)
        /\ Len(t) = IF n + 1 <= Len(s) THEN Len(s) - (n + 1) + 1 ELSE 0
        /\ \A i \in 1..(Len(s) - (n + 1) + 1) : t[i] = s[(n + 1) + i - 1]
    BY <1>1, <1>2, SubSeqProperties
  <1> HIDE DEF t
  <1>4. Len(t) = Len(s) - n
    BY <1>3
  <1>5. ASSUME NEW j \in 1..(Len(s) - n) PROVE t[j] = s[j + n]
    BY <1>3
  <1>6. QED
    BY <1>3, <1>4, <1>5 DEF Drop, t

(* _evict_if_full stops, and what it leaves has room for one more file. *)
LEMMA EvictFacts ==
    ASSUME NEW s \in Seq(File)
    PROVE  /\ EvictCount(s) \in 0..Len(s)
           /\ Evict(s) \in Seq(File)
           /\ Len(Evict(s)) = Len(s) - EvictCount(s)
           /\ \A j \in 1..Len(Evict(s)) : Evict(s)[j] = s[j + EvictCount(s)]
           /\ Len(Evict(s)) < MaxFiles
           /\ Bytes(Evict(s)) <= MaxBytes
  <1> DEFINE Stop(n) == n = Len(s) \/ ~Full(Drop(s, n))
             T == {n \in 0..Len(s) : Stop(n)}
             Goal(n) == Stop(n) /\ \A m \in 0..(n - 1) : Full(Drop(s, m))
  <1>1. T \in SUBSET Nat /\ T # {}
    <2>1. Len(s) \in T
      OBVIOUS
    <2>2. QED
      BY <2>1
  <1>2. PICK n \in T : \A m \in T : n <= m
    BY <1>1, LeastNat
  <1>3. n \in 0..Len(s) /\ Goal(n)
    BY <1>2
  <1>4. EvictCount(s) = CHOOSE k \in 0..Len(s) : Goal(k)
    BY DEF EvictCount
  <1> DEFINE k == EvictCount(s)
  <1> HIDE DEF Goal
  <1>5. k \in 0..Len(s) /\ Goal(k)
    BY <1>3, <1>4
  <1>6. Stop(k)
    BY <1>5 DEF Goal
  <1> HIDE DEF k
  <1>7. /\ Drop(s, k) \in Seq(File)
        /\ Len(Drop(s, k)) = Len(s) - k
        /\ \A j \in 1..(Len(s) - k) : Drop(s, k)[j] = s[j + k]
    BY <1>5, DropFacts
  <1>8. Len(Drop(s, k)) < MaxFiles /\ Bytes(Drop(s, k)) <= MaxBytes
    <2>1. CASE k = Len(s)
      <3>1. Len(Drop(s, k)) = 0
        BY <1>7, <2>1
      <3>2. Drop(s, k) = <<>>
        BY <3>1, <1>7, EmptySeq
      <3>3. QED
        BY <3>1, <3>2, BytesOfNone, AgentAssumption
    <2>2. CASE ~Full(Drop(s, k))
      <3>1. Bytes(Drop(s, k)) \in Nat
        BY <1>7, BytesType
      <3>2. QED
        BY <2>2, <3>1, <1>7, AgentAssumption DEF Full
    <2>3. QED
      BY <1>6, <2>1, <2>2
  <1>9. QED
    BY <1>5, <1>7, <1>8 DEF Evict, k

(* Unlinking removes that file and no other. *)
LEMMA UnlinkFacts ==
    ASSUME NEW s \in Seq(File), Distinct(s), NEW i \in 1..Len(s)
    PROVE  /\ Unlink(s, s[i].pid) \in Seq(File)
           /\ Len(Unlink(s, s[i].pid)) = Len(s) - 1
           /\ \A j \in 1..(Len(s) - 1) :
                 Unlink(s, s[i].pid)[j] = IF j < i THEN s[j] ELSE s[j + 1]
  <1>1. i = CHOOSE k \in DOMAIN s : s[k].pid = s[i].pid
    BY DEF Distinct
  <1>2. Unlink(s, s[i].pid) = RemoveAt(s, i)
    BY <1>1 DEF Unlink
  <1> DEFINE u == SubSeq(s, 1, i - 1)
             v == SubSeq(s, i + 1, Len(s))
  <1>3. /\ u \in Seq(File) /\ Len(u) = i - 1
        /\ \A j \in 1..(i - 1) : u[j] = s[j]
    <2>1. \A j \in 1..(i - 1) : s[j] \in File
      OBVIOUS
    <2>2. /\ u \in Seq(File)
          /\ Len(u) = IF 1 <= i - 1 THEN (i - 1) - 1 + 1 ELSE 0
          /\ \A j \in 1..((i - 1) - 1 + 1) : u[j] = s[1 + j - 1]
      BY <2>1, SubSeqProperties
    <2> HIDE DEF u
    <2>3. Len(u) = i - 1
      BY <2>2
    <2>4. ASSUME NEW j \in 1..(i - 1) PROVE u[j] = s[j]
      BY <2>2
    <2>5. QED
      BY <2>2, <2>3, <2>4
  <1>4. /\ v \in Seq(File) /\ Len(v) = Len(s) - i
        /\ \A j \in 1..(Len(s) - i) : v[j] = s[j + i]
    BY DropFacts DEF Drop
  <1> HIDE DEF u, v
  <1>5. /\ u \o v \in Seq(File)
        /\ Len(u \o v) = Len(u) + Len(v)
        /\ \A j \in 1..(Len(u) + Len(v)) :
              (u \o v)[j] = IF j <= Len(u) THEN u[j] ELSE v[j - Len(u)]
    BY <1>3, <1>4, ConcatProperties
  <1>6. RemoveAt(s, i) = u \o v
    BY DEF RemoveAt, u, v
  <1>7. Len(u \o v) = Len(s) - 1
    BY <1>3, <1>4, <1>5
  <1>8. ASSUME NEW j \in 1..(Len(s) - 1)
        PROVE  (u \o v)[j] = IF j < i THEN s[j] ELSE s[j + 1]
    <2>1. (u \o v)[j] = IF j <= i - 1 THEN u[j] ELSE v[j - (i - 1)]
      BY <1>3, <1>4, <1>5
    <2>2. CASE j < i
      BY <2>1, <2>2, <1>3
    <2>3. CASE ~(j < i)
      <3>1. j - (i - 1) \in 1..(Len(s) - i)
        BY <2>3
      <3>2. v[j - (i - 1)] = s[(j - (i - 1)) + i]
        BY <1>4, <3>1
      <3>3. (j - (i - 1)) + i = j + 1
        OBVIOUS
      <3>4. QED
        BY <2>1, <2>3, <3>2, <3>3
    <2>4. QED
      BY <2>2, <2>3
  <1>9. QED
    BY <1>2, <1>5, <1>6, <1>7, <1>8

(* _spool_payload of a payload that has no file yet. *)
LEMMA SpoolFileStep ==
    ASSUME NEW f \in File, spool \in Seq(File), Distinct(spool),
           f.pid \notin Spooled, SpoolFile(f)
    PROVE  /\ spool' \in Seq(File)
           /\ SpoolBounded'
           /\ spool' # <<>> /\ Last(spool') = f
           /\ Spooled' \cup evicted' = Spooled \cup evicted \cup {f.pid}
           /\ Spooled' \subseteq Spooled \cup {f.pid}
           /\ evicted \subseteq evicted' /\ evicted' \subseteq evicted \cup Spooled
           /\ \A i \in DOMAIN spool :
                 \/ spool[i] \in ToSet(spool')
                 \/ \A j \in 1..i : spool[j].pid \in evicted'
                                       /\ spool[j] \notin ToSet(spool')
           /\ ToSet(spool') = {g \in ToSet(spool) :
                                 g.pid \notin {spool[i].pid : i \in 1..EvictCount(spool)}}
                              \cup {f}
  <1> DEFINE n == EvictCount(spool)
             t == Evict(spool)
             L == Len(spool)
  <1>1. /\ n \in 0..L
        /\ t \in Seq(File)
        /\ Len(t) = L - n
        /\ \A j \in 1..Len(t) : t[j] = spool[j + n]
        /\ Len(t) < MaxFiles
        /\ Bytes(t) <= MaxBytes
    BY EvictFacts
  <1>2. /\ spool' = Append(t, f)
        /\ evicted' = evicted \cup {spool[i].pid : i \in 1..n}
    BY DEF SpoolFile
  <1> HIDE DEF n, t
  <1>3. /\ spool' \in Seq(File) /\ spool' # <<>>
        /\ Len(spool') = (L - n) + 1
        /\ \A i \in 1..(L - n) : spool'[i] = spool[i + n]
        /\ spool'[(L - n) + 1] = f
    <2>1. /\ Append(t, f) \in Seq(File) /\ Append(t, f) # <<>>
          /\ Len(Append(t, f)) = Len(t) + 1
          /\ \A i \in 1..Len(t) : Append(t, f)[i] = t[i]
          /\ Append(t, f)[Len(t) + 1] = f
      BY <1>1, AppendProperties
    <2>2. QED
      BY <2>1, <1>1, <1>2
  <1>4. \A i \in 1..L : spool[i].pid # f.pid
    BY DEF Spooled, ToSet
  <1>5. SpoolBounded'
    <2>1. Len(spool') <= MaxFiles
      BY <1>1, <1>3, AgentAssumption
    <2>2. SubSeq(spool', 1, Len(spool') - 1) = t
      <3>1. Len(spool') - 1 = Len(t)
        BY <1>1, <1>3
      <3>2. SubSeq(Append(t, f), 1, Len(t)) = t
        BY <1>1
      <3>3. QED
        BY <3>1, <3>2, <1>2
    <2>3. Bytes(SubSeq(spool', 1, Len(spool') - 1)) <= MaxBytes
      BY <2>2, <1>1
    <2>4. ASSUME NEW i \in DOMAIN spool', NEW j \in DOMAIN spool',
                 spool'[i].pid = spool'[j].pid
          PROVE  i = j
      <3>1. /\ i \in 1..((L - n) + 1) /\ j \in 1..((L - n) + 1)
            /\ L \in Nat /\ n \in 0..L
        BY <1>1, <1>3
      <3>2. CASE i <= L - n /\ j <= L - n
        <4>1. /\ i + n \in DOMAIN spool /\ j + n \in DOMAIN spool
              /\ spool[i + n].pid = spool[j + n].pid
          <5>1. /\ i + n \in 1..L /\ j + n \in 1..L
                /\ i \in 1..(L - n) /\ j \in 1..(L - n)
            BY <3>1, <3>2
          <5>2. spool'[i] = spool[i + n] /\ spool'[j] = spool[j + n]
            BY <5>1, <1>3
          <5>3. QED
            BY <5>1, <5>2, <2>4
        <4>2. i + n = j + n
          BY <4>1 DEF Distinct
        <4>3. QED
          BY <4>2, <3>1
      <3>3. CASE i = (L - n) + 1 /\ j <= L - n
        <4>1. j + n \in 1..L /\ spool'[j] = spool[j + n] /\ spool'[i] = f
          BY <3>1, <3>3, <1>3
        <4>2. QED
          BY <4>1, <2>4, <1>4
      <3>4. CASE j = (L - n) + 1 /\ i <= L - n
        <4>1. i + n \in 1..L /\ spool'[i] = spool[i + n] /\ spool'[j] = f
          BY <3>1, <3>4, <1>3
        <4>2. QED
          BY <4>1, <2>4, <1>4
      <3>5. QED
        BY <3>1, <3>2, <3>3, <3>4
    <2>5. QED
      BY <2>1, <2>3, <2>4 DEF SpoolBounded
  <1>6. Last(spool') = f
    BY <1>3 DEF Last
  <1>7. ASSUME NEW i \in (n + 1)..L
        PROVE  spool[i] \in ToSet(spool')
    <2>1. i - n \in 1..(L - n) /\ (i - n) + n = i
      BY <1>1
    <2>2. spool'[i - n] = spool[(i - n) + n]
      BY <2>1, <1>3
    <2>3. i - n \in 1..Len(spool')
      BY <2>1, <1>1, <1>3
    <2>4. spool[i] = spool'[i - n] /\ i - n \in DOMAIN spool'
      BY <2>1, <2>2, <2>3, <1>3
    <2>5. QED
      BY <2>4 DEF ToSet
  <1>8. f \in ToSet(spool')
    <2>1. (L - n) + 1 \in DOMAIN spool'
      BY <1>1, <1>3
    <2>2. QED
      BY <2>1, <1>3 DEF ToSet
  <1>9. ASSUME NEW g \in ToSet(spool')
        PROVE  g = f \/ \E i \in (n + 1)..L : g = spool[i]
    <2>1. PICK k \in DOMAIN spool' : g = spool'[k]
      BY DEF ToSet
    <2>2. k \in 1..((L - n) + 1)
      BY <1>1, <1>3
    <2>3. CASE k = (L - n) + 1
      BY <2>1, <2>3, <1>3
    <2>4. CASE k <= L - n
      <3>1. k \in 1..(L - n) /\ k + n \in (n + 1)..L
        BY <2>2, <2>4, <1>1
      <3>2. g = spool[k + n]
        BY <2>1, <3>1, <1>3
      <3>3. QED
        BY <3>1, <3>2
    <2>5. QED
      BY <2>2, <2>3, <2>4, <1>1
  <1>10. ASSUME NEW j \in 1..n, j <= L
         PROVE  spool[j] \notin ToSet(spool')
    <2>1. SUFFICES ASSUME spool[j] \in ToSet(spool') PROVE FALSE
      OBVIOUS
    <2>2. j \in 1..L /\ spool[j] # f
      BY <1>1, <1>4, <1>10
    <2>3. PICK i \in (n + 1)..L : spool[j] = spool[i]
      BY <2>1, <2>2, <1>9
    <2>4. i \in DOMAIN spool /\ j \in DOMAIN spool /\ i # j
      BY <2>2, <1>1
    <2>5. QED
      BY <2>3, <2>4 DEF Distinct
  <1>11. \A i \in DOMAIN spool :
            \/ spool[i] \in ToSet(spool')
            \/ \A j \in 1..i : spool[j].pid \in evicted'
                                  /\ spool[j] \notin ToSet(spool')
    <2>1. TAKE i \in DOMAIN spool
    <2>2. CASE i \in (n + 1)..L
      BY <2>2, <1>7
    <2>3. CASE i \notin (n + 1)..L
      <3>1. i \in 1..n /\ i <= L
        BY <2>3, <1>1
      <3>2. \A j \in 1..i : j \in 1..n /\ j <= L
        BY <3>1, <1>1
      <3>3. QED
        BY <3>2, <1>2, <1>10
    <2>4. QED
      BY <2>2, <2>3
  <1>12. Spooled' = {f.pid} \cup {spool[i].pid : i \in (n + 1)..L}
    BY <1>7, <1>8, <1>9 DEF Spooled
  <1>13. Spooled = {spool[i].pid : i \in 1..L}
    BY DEF Spooled, ToSet
  <1>14. 1..L = (1..n) \cup ((n + 1)..L)
    BY <1>1
  <1>15. ToSet(spool') = {g \in ToSet(spool) : g.pid \notin {spool[i].pid : i \in 1..n}}
                         \cup {f}
    <2>1. ASSUME NEW g \in ToSet(spool), g.pid \notin {spool[i].pid : i \in 1..n}
          PROVE  g \in ToSet(spool')
      <3>1. PICK i \in 1..L : g = spool[i]
        BY DEF ToSet
      <3>2. i \in (n + 1)..L
        BY <3>1, <2>1, <1>14
      <3>3. QED
        BY <3>1, <3>2, <1>7
    <2>2. ASSUME NEW i \in (n + 1)..L
          PROVE  spool[i] \in ToSet(spool)
                 /\ spool[i].pid \notin {spool[j].pid : j \in 1..n}
      <3>1. i \in DOMAIN spool
        BY <1>1
      <3>2. \A j \in 1..n : j \in DOMAIN spool /\ j # i
        BY <1>1
      <3>3. QED
        BY <3>1, <3>2 DEF Distinct, ToSet
    <2>3. QED
      BY <2>1, <2>2, <1>8, <1>9
  <1>16. QED
    <2>1. \A i \in 1..L : i \in 1..n \/ i \in (n + 1)..L
      BY <1>14
    <2>2. \A i \in 1..n : i \in 1..L
      BY <1>14
    <2>3. \A i \in (n + 1)..L : i \in 1..L
      BY <1>14
    <2>4. Spooled' \cup evicted' = Spooled \cup evicted \cup {f.pid}
      BY <2>1, <2>2, <2>3, <1>2, <1>12, <1>13
    <2>5. /\ Spooled' \subseteq Spooled \cup {f.pid}
          /\ evicted \subseteq evicted' /\ evicted' \subseteq evicted \cup Spooled
      BY <2>2, <2>3, <1>2, <1>12, <1>13
    <2>6. QED
      BY <2>4, <2>5, <1>3, <1>5, <1>6, <1>11, <1>15 DEF n

(* _flush_spool's unlink. *)
LEMMA UnlinkStep ==
    ASSUME spool \in Seq(File), SpoolBounded, NEW p \in Spooled,
           spool' = Unlink(spool, p)
    PROVE  /\ spool' \in Seq(File)
           /\ SpoolBounded'
           /\ ToSet(spool') = {f \in ToSet(spool) : f.pid # p}
           /\ Spooled' = Spooled \ {p}
  <1> DEFINE L == Len(spool)
  <1>1. Distinct(spool) /\ Bytes(SubSeq(spool, 1, L - 1)) <= MaxBytes
          /\ L <= MaxFiles
    BY DEF SpoolBounded, Distinct
  <1>2. PICK i \in 1..L : spool[i].pid = p
    BY DEF Spooled, ToSet
  <1>3. /\ spool' \in Seq(File)
        /\ Len(spool') = L - 1
        /\ \A j \in 1..(L - 1) : spool'[j] = IF j < i THEN spool[j] ELSE spool[j + 1]
    BY <1>1, <1>2, UnlinkFacts
  <1>4. DOMAIN spool = 1..L /\ DOMAIN spool' = 1..(L - 1) /\ L \in Nat \ {0}
    BY <1>2, <1>3
  <1>5. ASSUME NEW a \in DOMAIN spool', NEW b \in DOMAIN spool',
               spool'[a].pid = spool'[b].pid
        PROVE  a = b
    <2> DEFINE Old(j) == IF j < i THEN j ELSE j + 1
    <2>1. /\ Old(a) \in DOMAIN spool /\ spool'[a] = spool[Old(a)]
          /\ Old(b) \in DOMAIN spool /\ spool'[b] = spool[Old(b)]
      BY <1>3, <1>4
    <2>2. Old(a) = Old(b)
      <3> HIDE DEF Old
      <3>1. QED
        BY <2>1, <1>5, <1>1 DEF Distinct
    <2>3. QED
      BY <2>2, <1>4
  <1>6. Bytes(SubSeq(spool', 1, Len(spool') - 1)) <= MaxBytes
    <2>1. CASE L = 1
      <3> DEFINE t == SubSeq(spool', 1, Len(spool') - 1)
      <3>1. t = <<>>
        BY <2>1, <1>3, SubSeqEmpty
      <3> HIDE DEF t
      <3>2. Bytes(t) <= MaxBytes
        BY <3>1, BytesOfNone, AgentAssumption
      <3>3. QED
        BY <3>2 DEF t
    <2>2. CASE L > 1
      <3> DEFINE s == SubSeq(spool, 1, L - 1)
                 t == SubSeq(spool', 1, L - 2)
                 k == IF i = L THEN L - 1 ELSE i
      <3>1. /\ s \in Seq(File) /\ Len(s) = L - 1
            /\ \A j \in 1..(L - 1) : s[j] = spool[j]
        <4>1. \A j \in 1..(L - 1) : spool[j] \in File
          BY <1>4
        <4>2. QED
          BY <4>1, <2>2
      <3>2. /\ t \in Seq(File) /\ Len(t) = L - 2
            /\ \A j \in 1..(L - 2) : t[j] = spool'[j]
        <4>1. \A j \in 1..(L - 2) : spool'[j] \in File
          BY <1>3, <1>4
        <4>2. QED
          BY <4>1, <2>2, <1>3
      <3> HIDE DEF s, t
      <3>3. k \in 1..Len(s) /\ Len(s) = Len(t) + 1
        BY <2>2, <3>1, <3>2
      <3>4. ASSUME NEW j \in 1..Len(t)
            PROVE  t[j] = IF j < k THEN s[j] ELSE s[j + 1]
        <4>1. j \in 1..(L - 2) /\ j \in 1..(L - 1) /\ j + 1 \in 1..(L - 1)
          BY <2>2, <3>2, <1>4
        <4>2. t[j] = IF j < i THEN spool[j] ELSE spool[j + 1]
          BY <4>1, <3>2, <1>3
        <4>3. s[j] = spool[j] /\ s[j + 1] = spool[j + 1]
          BY <4>1, <3>1
        <4>4. j < i <=> j < k
          <5>1. CASE i = L
            BY <4>1, <5>1, <1>4
          <5>2. CASE i # L
            BY <5>2
          <5>3. QED
            BY <5>1, <5>2
        <4>5. QED
          BY <4>2, <4>3, <4>4
      <3> HIDE DEF k
      <3>5. Bytes(t) <= Bytes(s)
        BY <3>1, <3>2, <3>3, <3>4, BytesOfFewer
      <3>6. Bytes(t) \in Nat /\ Bytes(s) \in Nat /\ Bytes(s) <= MaxBytes
        BY <3>1, <3>2, <1>1, BytesType DEF s
      <3>7. Len(spool') - 1 = L - 2
        BY <1>3, <1>4
      <3>8. QED
        BY <3>5, <3>6, <3>7, AgentAssumption DEF t
    <2>3. QED
      BY <2>1, <2>2, <1>4
  <1>7. SpoolBounded'
    BY <1>1, <1>3, <1>4, <1>5, <1>6, AgentAssumption DEF SpoolBounded
  <1>8. ToSet(spool') = {f \in ToSet(spool) : f.pid # p}
    <2>1. ASSUME NEW j \in 1..(L - 1)
          PROVE  spool'[j] \in ToSet(spool) /\ spool'[j].pid # p
      <3>1. CASE j < i
        <4>1. j \in DOMAIN spool /\ spool'[j] = spool[j] /\ j # i
          BY <3>1, <1>3, <1>4
        <4>2. QED
          BY <4>1, <1>1, <1>2 DEF ToSet, Distinct
      <3>2. CASE ~(j < i)
        <4>1. j + 1 \in DOMAIN spool /\ spool'[j] = spool[j + 1] /\ j + 1 # i
          BY <3>2, <1>3, <1>4
        <4>2. QED
          BY <4>1, <1>1, <1>2 DEF ToSet, Distinct
      <3>3. QED
        BY <3>1, <3>2
    <2>2. ASSUME NEW j \in 1..L, spool[j].pid # p
          PROVE  spool[j] \in ToSet(spool')
      <3>1. CASE j < i
        <4>1. j \in DOMAIN spool' /\ spool'[j] = spool[j]
          BY <3>1, <1>3, <1>4
        <4>2. QED
          BY <4>1 DEF ToSet
      <3>2. CASE ~(j < i)
        <4>1. j - 1 \in DOMAIN spool' /\ spool'[j - 1] = spool[j]
          BY <3>2, <2>2, <1>2, <1>3, <1>4
        <4>2. QED
          BY <4>1 DEF ToSet
      <3>3. QED
        BY <3>1, <3>2
    <2>3. QED
      BY <2>1, <2>2, <1>4 DEF ToSet
  <1>9. Spooled' = Spooled \ {p}
    BY <1>8 DEF Spooled
  <1>10. QED
    BY <1>3, <1>7, <1>8, <1>9

-----------------------------------------------------------------------------
(* Every step keeps the invariant. *)

LEMMA SpooledType ==
    ASSUME spool \in Seq(File)
    PROVE  Spooled \subseteq Payloads
  <1>1. \A f \in ToSet(spool) : f \in File
    BY DEF ToSet
  <1>2. \A f \in File : f.pid \in Payloads
    BY DEF File
  <1>3. QED
    BY <1>1, <1>2 DEF Spooled

LEMMA JobFields ==
    ASSUME job \in Job
    PROVE  /\ job.phase \in Phase /\ job.cur \in Payloads \cup {None}
           /\ job.todo \in Seq(File) /\ job.tries \in 0..MaxTries
           /\ job.waiting \in BOOLEAN
           /\ job = [phase |-> job.phase, cur |-> job.cur, todo |-> job.todo,
                     tries |-> job.tries, waiting |-> job.waiting]
  BY DEF Job

LEMMA IdleJobType ==
    /\ IdleJob \in Job /\ IdleJob.phase = "idle" /\ IdleJob.cur = None
    /\ IdleJob.todo = <<>> /\ IdleJob.tries = 0 /\ IdleJob.waiting = FALSE
  <1>1. <<>> \in Seq(File) /\ 0 \in 0..MaxTries /\ "idle" \in Phase
    BY AgentAssumption DEF Phase
  <1>2. QED
    BY <1>1 DEF IdleJob, Job

LEMMA AgentInitInv == AgentInit => AgentInv
  <1> SUFFICES ASSUME AgentInit PROVE AgentInv
    OBVIOUS
  <1>1. /\ built = [p \in Payloads |-> Never] /\ spool = <<>> /\ job = IdleJob
        /\ exit = [code |-> -1, pid |-> None]
        /\ exported = {} /\ delivered = {} /\ evicted = {} /\ lost = {}
        /\ clock = 1
    BY DEF AgentInit
  <1>2. ToSet(spool) = {} /\ Spooled = {} /\ spool \in Seq(File) /\ Len(spool) = 0
    BY <1>1 DEF ToSet, Spooled
  <1>3. AgentTypeOK
    <2>1. 1 \in Time /\ Never \in Stamp
      BY PushAssumption DEF Time, Stamp, Never
    <2>2. QED
      BY <1>1, <1>2, <2>1, IdleJobType DEF AgentTypeOK
  <1>4. SpoolBounded
    <2> DEFINE t == SubSeq(spool, 1, Len(spool) - 1)
    <2>1. t = <<>>
      BY <1>2, SubSeqEmpty
    <2> HIDE DEF t
    <2>2. Bytes(t) <= MaxBytes
      BY <2>1, BytesOfNone, AgentAssumption
    <2>3. QED
      BY <2>2, <1>1, <1>2, AgentAssumption DEF SpoolBounded, t
  <1>5. JobInv
    BY <1>1, <1>2, IdleJobType, AgentAssumption DEF JobInv
  <1>6. TraceInv
    BY <1>1, <1>2, IdleJobType, AgentAssumption DEF TraceInv
  <1>7. NothingLostSilently /\ ExitIsTruthful
    BY <1>1 DEF NothingLostSilently, ExitIsTruthful
  <1>8. QED
    BY <1>3, <1>4, <1>5, <1>6, <1>7 DEF AgentInv

LEMMA StartPushStep ==
    ASSUME AgentInv, NEW p \in Payloads, StartPush(p)
    PROVE  AgentInv'
  <1> DEFINE j == [phase |-> "flush", cur |-> p, todo |-> spool, tries |-> 0,
                   waiting |-> FALSE]
  <1>1. /\ job.phase = "idle" /\ built[p] = Never
        /\ built' = [built EXCEPT ![p] = clock]
        /\ job' = j
        /\ exit' = [code |-> -1, pid |-> p]
        /\ UNCHANGED <<spool, exported, delivered, evicted, lost, clock>>
    BY DEF StartPush, IdleJob
  <1>2. AgentTypeOK /\ SpoolBounded /\ TraceInv /\ NothingLostSilently
    BY DEF AgentInv
  <1>3. Never \notin Time /\ Time \subseteq Stamp
    BY PushAssumption DEF Never, Time, Stamp
  <1>4. Spooled' = Spooled /\ ToSet(spool)' = ToSet(spool) /\ SpoolBounded'
    BY <1>1, <1>2 DEF Spooled, SpoolBounded
  <1>5. built' \in [Payloads -> Stamp] /\ built'[p] \in Time
          /\ \A q \in Payloads \ {p} : built'[q] = built[q]
    BY <1>1, <1>2, <1>3 DEF AgentTypeOK
  <1>6. j \in Job /\ spool \in Seq(File)
    <2>1. spool \in Seq(File) /\ "flush" \in Phase /\ 0 \in 0..MaxTries
      BY <1>2, AgentAssumption DEF AgentTypeOK, Phase
    <2>2. QED
      BY <2>1 DEF Job
  <1>7. AgentTypeOK'
    BY <1>1, <1>2, <1>5, <1>6 DEF AgentTypeOK
  <1>8. p \notin Spooled \cup exported \cup delivered \cup evicted \cup lost
    BY <1>1, <1>2, <1>3 DEF TraceInv
  <1>9. JobInv'
    <2>1. \A i \in DOMAIN spool : spool[i] \in ToSet(spool)
      BY DEF ToSet
    <2>2. \A i, k \in DOMAIN spool : spool[i].pid = spool[k].pid => i = k
      BY <1>2 DEF SpoolBounded
    <2>3. QED
      BY <1>1, <1>4, <1>8, <2>1, <2>2, AgentAssumption DEF JobInv
  <1>10. TraceInv'
    BY <1>1, <1>2, <1>4, <1>5 DEF TraceInv
  <1>11. NothingLostSilently'
    BY <1>1, <1>2, <1>4, <1>5 DEF NothingLostSilently
  <1>12. ExitIsTruthful'
    BY <1>1 DEF ExitIsTruthful
  <1>13. QED
    BY <1>4, <1>7, <1>9, <1>10, <1>11, <1>12 DEF AgentInv

LEMMA ExportStep ==
    ASSUME AgentInv, NEW p \in Payloads, ExportResults(p)
    PROVE  AgentInv'
  <1>1. /\ built[p] = Never
        /\ built' = [built EXCEPT ![p] = clock]
        /\ exported' = exported \cup {p}
        /\ UNCHANGED <<spool, job, exit, delivered, evicted, lost, clock>>
    BY DEF ExportResults
  <1>2. AgentTypeOK /\ SpoolBounded /\ TraceInv /\ NothingLostSilently /\ JobInv
          /\ ExitIsTruthful
    BY DEF AgentInv
  <1>3. Never \notin Time /\ Time \subseteq Stamp
    BY PushAssumption DEF Never, Time, Stamp
  <1>4. Spooled' = Spooled /\ ToSet(spool)' = ToSet(spool) /\ SpoolBounded'
    BY <1>1, <1>2 DEF Spooled, SpoolBounded
  <1>5. built' \in [Payloads -> Stamp] /\ built'[p] \in Time
          /\ \A q \in Payloads \ {p} : built'[q] = built[q]
    BY <1>1, <1>2, <1>3 DEF AgentTypeOK
  <1>6. AgentTypeOK'
    BY <1>1, <1>2, <1>5 DEF AgentTypeOK
  <1>7. p \notin {job.cur} \cup Spooled \cup delivered \cup evicted \cup lost
    BY <1>1, <1>2, <1>3 DEF TraceInv
  <1>8. JobInv'
    BY <1>1, <1>2, <1>4, <1>7 DEF JobInv
  <1>9. TraceInv'
    BY <1>1, <1>2, <1>4, <1>5, <1>7 DEF TraceInv
  <1>10. NothingLostSilently'
    BY <1>1, <1>2, <1>4, <1>5 DEF NothingLostSilently
  <1>11. ExitIsTruthful'
    BY <1>1, <1>2 DEF ExitIsTruthful
  <1>12. QED
    BY <1>4, <1>6, <1>8, <1>9, <1>10, <1>11 DEF AgentInv

(* A step inside a push that touches no file. *)
LEMMA InsidePush ==
    ASSUME AgentInv, job' \in Job, job.phase # "idle", job'.phase # "idle",
           job'.cur = job.cur, job'.todo = job.todo,
           job'.phase = "push" => job.todo = <<>>,
           job'.waiting => job'.phase = "push" \/ job.todo # <<>>,
           ~job'.waiting => job'.tries < MaxTries,
           UNCHANGED <<built, spool, exit, exported, delivered, evicted, lost, clock>>
    PROVE  AgentInv'
  <1>1. AgentTypeOK /\ SpoolBounded /\ TraceInv /\ NothingLostSilently /\ JobInv
    BY DEF AgentInv
  <1>2. Spooled' = Spooled /\ ToSet(spool)' = ToSet(spool) /\ SpoolBounded'
    BY <1>1 DEF Spooled, SpoolBounded
  <1>3. AgentTypeOK'
    BY <1>1 DEF AgentTypeOK
  <1>4. JobInv'
    BY <1>1, <1>2 DEF JobInv
  <1>5. TraceInv' /\ NothingLostSilently' /\ ExitIsTruthful'
    BY <1>1, <1>2 DEF TraceInv, NothingLostSilently, ExitIsTruthful
  <1>6. QED
    BY <1>2, <1>3, <1>4, <1>5 DEF AgentInv

LEMMA SendStep ==
    ASSUME AgentInv, Send
    PROVE  AgentInv'
  <1>1. /\ ~job.waiting
        /\ job.phase = "push" \/ (job.phase = "flush" /\ job.todo # <<>>)
        /\ job' = [job EXCEPT !.waiting = TRUE, !.tries = @ + 1]
        /\ UNCHANGED <<built, spool, exit, exported, delivered, evicted, lost, clock>>
    BY DEF Send, CanSend
  <1>2. job \in Job /\ JobInv
    BY DEF AgentInv, AgentTypeOK
  <1>3. job.tries + 1 \in 0..MaxTries
    BY <1>1, <1>2, JobFields, AgentAssumption DEF JobInv
  <1>4. /\ job' \in Job /\ job'.phase = job.phase /\ job'.cur = job.cur
        /\ job'.todo = job.todo /\ job'.waiting = TRUE
    BY <1>1, <1>2, <1>3, JobFields DEF Job
  <1>5. QED
    BY <1>1, <1>2, <1>4, InsidePush DEF JobInv

LEMMA FlushDoneStep ==
    ASSUME AgentInv, FlushDone
    PROVE  AgentInv'
  <1>1. /\ job.phase = "flush" /\ job.todo = <<>>
        /\ job' = [job EXCEPT !.phase = "push"]
        /\ UNCHANGED <<built, spool, exit, exported, delivered, evicted, lost, clock>>
    BY DEF FlushDone
  <1>2. job \in Job /\ JobInv
    BY DEF AgentInv, AgentTypeOK
  <1>3. /\ job' \in Job /\ job'.phase = "push" /\ job'.cur = job.cur
        /\ job'.todo = job.todo /\ job'.waiting = job.waiting
        /\ job'.tries = job.tries
    BY <1>1, <1>2, JobFields DEF Job, Phase
  <1>4. QED
    BY <1>1, <1>2, <1>3, InsidePush DEF JobInv

LEMMA RetryStep ==
    ASSUME AgentInv, NEW o \in Outcome, Retry(o)
    PROVE  AgentInv'
  <1>1. /\ job.waiting /\ job.tries < MaxTries
        /\ job' = [job EXCEPT !.waiting = FALSE]
        /\ UNCHANGED <<built, spool, exit, exported, delivered, evicted, lost, clock>>
    BY DEF Retry, MayRetry
  <1>2. job \in Job /\ JobInv
    BY DEF AgentInv, AgentTypeOK
  <1>3. job.phase # "idle"
    BY <1>1, <1>2, IdleJobType DEF JobInv
  <1>4. /\ job' \in Job /\ job'.phase = job.phase /\ job'.cur = job.cur
        /\ job'.todo = job.todo /\ job'.waiting = FALSE
        /\ job'.tries = job.tries
    BY <1>1, <1>2, JobFields DEF Job
  <1>5. QED
    BY <1>1, <1>2, <1>3, <1>4, InsidePush DEF JobInv

(* The file a flush is sending. *)
LEMMA TargetInSpool ==
    ASSUME job \in Job, JobInv, job.waiting, job.phase = "flush"
    PROVE  /\ job.todo # <<>> /\ Target = job.todo[1]
           /\ Target \in ToSet(spool) /\ Target.pid \in Spooled
           /\ Tail(job.todo) \in Seq(File)
           /\ Len(Tail(job.todo)) = Len(job.todo) - 1
           /\ \A i \in 1..Len(Tail(job.todo)) : Tail(job.todo)[i] = job.todo[i + 1]
  <1>1. job.todo # <<>> /\ job.todo \in Seq(File)
    BY JobFields DEF JobInv
  <1>2. Target = Head(job.todo) /\ Target = job.todo[1] /\ 1 \in DOMAIN job.todo
    BY <1>1 DEF Target
  <1>3. Target \in ToSet(spool)
    BY <1>2 DEF JobInv
  <1>4. QED
    BY <1>1, <1>2, <1>3, HeadTailProperties DEF Spooled

LEMMA SettleFlushStep ==
    ASSUME AgentInv, NEW o \in Outcome, SettleFlush(o)
    PROVE  AgentInv'
  <1> DEFINE p == Target.pid
             rest == Tail(job.todo)
  <1>1. /\ job.waiting /\ job.phase = "flush"
        /\ \/ spool' = Unlink(spool, p) /\ delivered' = delivered \cup {p}
           \/ UNCHANGED <<spool, delivered>>
        /\ job' = [job EXCEPT !.todo = rest, !.tries = 0, !.waiting = FALSE]
        /\ UNCHANGED <<built, exit, exported, evicted, lost, clock>>
    BY DEF SettleFlush
  <1>2. AgentTypeOK /\ SpoolBounded /\ TraceInv /\ NothingLostSilently /\ JobInv
    BY DEF AgentInv
  <1>3. job \in Job /\ spool \in Seq(File)
    BY <1>2 DEF AgentTypeOK
  <1>4. /\ job.todo # <<>> /\ Target = job.todo[1]
        /\ Target \in ToSet(spool) /\ p \in Spooled
        /\ rest \in Seq(File)
        /\ Len(rest) = Len(job.todo) - 1
        /\ \A i \in 1..Len(rest) : rest[i] = job.todo[i + 1]
    BY <1>1, <1>2, <1>3, TargetInSpool
  <1> HIDE DEF p, rest
  <1>5. /\ spool' \in Seq(File) /\ SpoolBounded'
        /\ \/ /\ delivered' = delivered \cup {p}
              /\ ToSet(spool)' = {f \in ToSet(spool) : f.pid # p}
              /\ Spooled' = Spooled \ {p}
           \/ /\ delivered' = delivered
              /\ ToSet(spool)' = ToSet(spool)
              /\ Spooled' = Spooled
    <2>1. CASE spool' = Unlink(spool, p) /\ delivered' = delivered \cup {p}
      BY <2>1, <1>2, <1>3, <1>4, UnlinkStep
    <2>2. CASE UNCHANGED <<spool, delivered>>
      BY <2>2, <1>2, <1>3 DEF SpoolBounded, Spooled
    <2>3. QED
      BY <1>1, <2>1, <2>2
  <1>6. /\ job' \in Job /\ job'.phase = "flush" /\ job'.cur = job.cur
        /\ job'.todo = rest /\ job'.tries = 0 /\ job'.waiting = FALSE
    <2>1. 0 \in 0..MaxTries
      BY AgentAssumption
    <2>2. QED
      BY <2>1, <1>1, <1>3, <1>4, JobFields DEF Job
  <1>7. p \in Payloads
    <2>1. Target \in File
      BY <1>3, <1>4 DEF ToSet
    <2>2. QED
      BY <2>1 DEF File, p
  <1>8. AgentTypeOK'
    BY <1>1, <1>2, <1>5, <1>6, <1>7 DEF AgentTypeOK
  <1>9. Len(job.todo) \in Nat /\ DOMAIN job.todo = 1..Len(job.todo)
          /\ DOMAIN rest = 1..Len(rest)
    BY <1>3, <1>4, JobFields
  <1>10. ASSUME NEW i \in DOMAIN rest
         PROVE  /\ i + 1 \in DOMAIN job.todo /\ rest[i] = job.todo[i + 1]
                /\ rest[i] \in ToSet(spool)'
    <2>1. i + 1 \in DOMAIN job.todo /\ 1 \in DOMAIN job.todo /\ i + 1 # 1
            /\ rest[i] = job.todo[i + 1]
      BY <1>4, <1>9
    <2>2. rest[i] \in ToSet(spool) /\ rest[i].pid # job.todo[1].pid
      BY <2>1, <1>2 DEF JobInv
    <2>3. QED
      BY <2>1, <2>2, <1>4, <1>5 DEF p
  <1>11. ASSUME NEW i \in DOMAIN rest, NEW k \in DOMAIN rest, rest[i].pid = rest[k].pid
         PROVE  i = k
    <2>1. i + 1 = k + 1
      BY <1>2, <1>10, <1>11 DEF JobInv
    <2>2. QED
      BY <2>1, <1>9
  <1>12. p # job.cur
    BY <1>1, <1>2, <1>4 DEF JobInv
  <1>13. JobInv'
    <2>1. job'.cur \notin Spooled' \cup exported' \cup delivered' \cup evicted' \cup lost'
      BY <1>1, <1>2, <1>5, <1>6, <1>12 DEF JobInv
    <2>2. job'.cur \in Payloads /\ exit' = [code |-> -1, pid |-> job'.cur]
      BY <1>1, <1>2, <1>6 DEF JobInv
    <2>3. QED
      BY <2>1, <2>2, <1>6, <1>10, <1>11, AgentAssumption DEF JobInv
  <1>14. TraceInv'
    BY <1>1, <1>2, <1>4, <1>5, <1>6 DEF TraceInv
  <1>15. NothingLostSilently'
    BY <1>1, <1>2, <1>5, <1>6 DEF NothingLostSilently
  <1>16. ExitIsTruthful'
    BY <1>6 DEF ExitIsTruthful
  <1>17. QED
    BY <1>5, <1>8, <1>13, <1>14, <1>15, <1>16 DEF AgentInv

(* The push is over: nothing of it is left but its traces. *)
LEMMA BackToIdle ==
    ASSUME job' = IdleJob
    PROVE  /\ JobInv' /\ job' \in Job
           /\ job'.phase = "idle" /\ job'.cur = None
  <1>1. job'.todo = <<>> /\ DOMAIN job'.todo = {} /\ job'.tries < MaxTries
          /\ job'.phase = "idle" /\ job'.cur = None /\ job'.waiting = FALSE
          /\ job' \in Job
    BY IdleJobType, AgentAssumption
  <1>2. QED
    BY <1>1 DEF JobInv

LEMMA SettlePushStep ==
    ASSUME AgentInv, NEW o \in Outcome, SettlePush(o)
    PROVE  AgentInv'
  <1> DEFINE p == job.cur
  <1>1. /\ job.waiting /\ job.phase = "push"
        /\ exit' = [code |-> ExitCode(o), pid |-> p]
        /\ job' = IdleJob
        /\ UNCHANGED <<built, exported, lost, clock>>
    BY DEF SettlePush
  <1>2. AgentTypeOK /\ SpoolBounded /\ TraceInv /\ NothingLostSilently /\ JobInv
    BY DEF AgentInv
  <1>3. /\ p \in Payloads
        /\ p \notin Spooled \cup exported \cup delivered \cup evicted \cup lost
        /\ spool \in Seq(File) /\ Distinct(spool)
    BY <1>1, <1>2 DEF JobInv, AgentTypeOK, SpoolBounded, Distinct
  <1>4. JobInv' /\ job' \in Job /\ job'.phase = "idle" /\ job'.cur = None
    BY <1>1, BackToIdle
  <1>5. Whole(p) \in File /\ Whole(p).pid = p
    BY <1>3 DEF Whole, File
  <1>6. Spooled \subseteq Payloads
    BY <1>3, SpooledType
  <1> HIDE DEF p
  <1>7. CASE o \in Accepted
    <2>1. delivered' = delivered \cup {p} /\ UNCHANGED <<spool, evicted>>
      BY <1>7 DEF SettlePush, p
    <2>2. Spooled' = Spooled /\ SpoolBounded'
      BY <2>1, <1>2 DEF Spooled, SpoolBounded
    <2>3. ExitCode(o) = 0
      BY <1>7 DEF ExitCode, Accepted
    <2>4. AgentTypeOK'
      BY <1>1, <1>2, <1>3, <1>4, <2>1, <2>3 DEF AgentTypeOK
    <2>5. TraceInv'
      BY <1>1, <1>2, <1>3, <1>4, <2>1, <2>2, AgentAssumption DEF TraceInv, p
    <2>6. NothingLostSilently'
      BY <1>1, <1>2, <1>4, <2>1, <2>2 DEF NothingLostSilently, p
    <2>7. ExitIsTruthful'
      BY <1>1, <2>1, <2>3 DEF ExitIsTruthful
    <2>8. QED
      BY <1>4, <2>2, <2>4, <2>5, <2>6, <2>7 DEF AgentInv
  <1>8. CASE o \notin Accepted
    <2>1. SpoolFile(Whole(p)) /\ UNCHANGED delivered
      BY <1>8 DEF SettlePush, p
    <2>2. /\ spool' \in Seq(File) /\ SpoolBounded'
          /\ spool' # <<>> /\ Last(spool') = Whole(p)
          /\ Spooled' \cup evicted' = Spooled \cup evicted \cup {p}
          /\ Spooled' \subseteq Spooled \cup {p}
          /\ evicted \subseteq evicted' /\ evicted' \subseteq evicted \cup Spooled
      BY <2>1, <1>3, <1>5, SpoolFileStep
    <2>3. ExitCode(o) \in {2, 3, 4}
      BY <1>8 DEF ExitCode, Accepted, Outcome
    <2>4. AgentTypeOK'
      BY <1>1, <1>2, <1>3, <1>4, <1>6, <2>1, <2>2, <2>3 DEF AgentTypeOK
    <2>5. TraceInv'
      BY <1>1, <1>2, <1>3, <1>4, <2>1, <2>2, AgentAssumption DEF TraceInv, p
    <2>6. NothingLostSilently'
      BY <1>1, <1>2, <1>4, <2>1, <2>2 DEF NothingLostSilently, p
    <2>7. ExitIsTruthful'
      BY <1>1, <2>2, <2>3 DEF ExitIsTruthful
    <2>8. QED
      BY <1>4, <2>2, <2>4, <2>5, <2>6, <2>7 DEF AgentInv
  <1>9. QED
    BY <1>7, <1>8

LEMMA AgentCrashStep ==
    ASSUME AgentInv, AgentCrash
    PROVE  AgentInv'
  <1>1. /\ job.phase # "idle"
        /\ lost' = lost \cup {job.cur}
        /\ job' = IdleJob
        /\ UNCHANGED <<built, spool, exit, exported, delivered, evicted, clock>>
    BY DEF AgentCrash
  <1>2. AgentTypeOK /\ SpoolBounded /\ TraceInv /\ NothingLostSilently /\ JobInv
    BY DEF AgentInv
  <1>3. /\ job.cur \in Payloads /\ job.cur \notin exported
        /\ exit = [code |-> -1, pid |-> job.cur]
    BY <1>1, <1>2 DEF JobInv
  <1>4. JobInv' /\ job' \in Job /\ job'.phase = "idle" /\ job'.cur = None
    BY <1>1, BackToIdle
  <1>5. Spooled' = Spooled /\ SpoolBounded'
    BY <1>1, <1>2 DEF Spooled, SpoolBounded
  <1>6. AgentTypeOK'
    BY <1>1, <1>2, <1>3, <1>4 DEF AgentTypeOK
  <1>7. TraceInv'
    BY <1>1, <1>2, <1>3, <1>4, <1>5, AgentAssumption DEF TraceInv
  <1>8. NothingLostSilently'
    BY <1>1, <1>2, <1>4, <1>5 DEF NothingLostSilently
  <1>9. ExitIsTruthful'
    BY <1>1, <1>3 DEF ExitIsTruthful
  <1>10. QED
    BY <1>4, <1>5, <1>6, <1>7, <1>8, <1>9 DEF AgentInv

LEMMA CrashWhileSpoolingStep ==
    ASSUME AgentInv, NEW o \in Outcome, CrashWhileSpooling(o)
    PROVE  AgentInv'
  <1> DEFINE p == job.cur
  <1>1. /\ job.waiting /\ job.phase = "push"
        /\ SpoolFile(Torn(p))
        /\ lost' = lost \cup {p}
        /\ job' = IdleJob
        /\ UNCHANGED <<built, exit, exported, delivered, clock>>
    BY DEF CrashWhileSpooling
  <1>2. AgentTypeOK /\ SpoolBounded /\ TraceInv /\ NothingLostSilently /\ JobInv
    BY DEF AgentInv
  <1>3. /\ p \in Payloads
        /\ p \notin Spooled \cup exported \cup delivered \cup evicted \cup lost
        /\ exit = [code |-> -1, pid |-> p]
        /\ spool \in Seq(File) /\ Distinct(spool)
    BY <1>1, <1>2 DEF JobInv, AgentTypeOK, SpoolBounded, Distinct
  <1>4. JobInv' /\ job' \in Job /\ job'.phase = "idle" /\ job'.cur = None
    BY <1>1, BackToIdle
  <1>5. Torn(p) \in File /\ Torn(p).pid = p
    BY <1>3 DEF Torn, File
  <1>6. Spooled \subseteq Payloads
    BY <1>3, SpooledType
  <1>7. /\ spool' \in Seq(File) /\ SpoolBounded'
        /\ Spooled' \cup evicted' = Spooled \cup evicted \cup {p}
        /\ Spooled' \subseteq Spooled \cup {p}
        /\ evicted \subseteq evicted' /\ evicted' \subseteq evicted \cup Spooled
    <2> HIDE DEF p
    <2>1. QED
      BY <1>1, <1>3, <1>5, SpoolFileStep
  <1> HIDE DEF p
  <1>8. AgentTypeOK'
    BY <1>1, <1>2, <1>3, <1>4, <1>6, <1>7 DEF AgentTypeOK
  <1>9. TraceInv'
    BY <1>1, <1>2, <1>3, <1>4, <1>7, AgentAssumption DEF TraceInv, p
  <1>10. NothingLostSilently'
    BY <1>1, <1>2, <1>4, <1>7 DEF NothingLostSilently, p
  <1>11. ExitIsTruthful'
    BY <1>1, <1>3 DEF ExitIsTruthful
  <1>12. QED
    BY <1>4, <1>7, <1>8, <1>9, <1>10, <1>11 DEF AgentInv

(* The clock runs, or nothing happens. *)
LEMMA AgentRests ==
    ASSUME AgentInv, UNCHANGED agentVars, clock' \in Time
    PROVE  AgentInv'
  <1>1. AgentTypeOK /\ SpoolBounded /\ TraceInv /\ NothingLostSilently /\ JobInv
          /\ ExitIsTruthful
    BY DEF AgentInv
  <1>2. UNCHANGED <<built, spool, job, exit, exported, delivered, evicted, lost>>
    BY DEF agentVars
  <1>3. Spooled' = Spooled /\ ToSet(spool)' = ToSet(spool) /\ SpoolBounded'
    BY <1>1, <1>2 DEF Spooled, SpoolBounded
  <1>4. AgentTypeOK' /\ JobInv' /\ TraceInv'
    BY <1>1, <1>2, <1>3 DEF AgentTypeOK, JobInv, TraceInv
  <1>5. NothingLostSilently' /\ ExitIsTruthful'
    BY <1>1, <1>2, <1>3 DEF NothingLostSilently, ExitIsTruthful
  <1>6. QED
    BY <1>3, <1>4, <1>5 DEF AgentInv

LEMMA TickInTime ==
    ASSUME clock \in Time, Tick
    PROVE  clock' \in Time
  BY PushAssumption DEF Tick, Time

LEMMA AgentStep ==
    ASSUME AgentInv, AgentNext
    PROVE  AgentInv'
  <1>1. ASSUME NEW p \in Payloads, StartPush(p) PROVE AgentInv'
    BY <1>1, StartPushStep
  <1>2. ASSUME NEW p \in Payloads, ExportResults(p) PROVE AgentInv'
    BY <1>2, ExportStep
  <1>3. CASE Send
    BY <1>3, SendStep
  <1>4. CASE FlushDone
    BY <1>4, FlushDoneStep
  <1>5. ASSUME NEW o \in Outcome, HandleOutcome(o) PROVE AgentInv'
    BY <1>5, RetryStep, SettleFlushStep, SettlePushStep DEF HandleOutcome
  <1>6. ASSUME NEW o \in Outcome, CrashWhileSpooling(o) PROVE AgentInv'
    BY <1>6, CrashWhileSpoolingStep
  <1>7. CASE AgentCrash
    BY <1>7, AgentCrashStep
  <1>8. CASE Tick /\ UNCHANGED agentVars
    <2>1. clock' \in Time
      BY <1>8, TickInTime DEF AgentInv, AgentTypeOK
    <2>2. QED
      BY <2>1, <1>8, AgentRests
  <1>9. QED
    BY <1>1, <1>2, <1>3, <1>4, <1>5, <1>6, <1>7, <1>8 DEF AgentNext

-----------------------------------------------------------------------------
(* The theorems *)

(* AgentInv is an invariant of the sensor against every console and network. *)
THEOREM AgentInvariant == AgentSpec => []AgentInv
  <1>1. AgentInv /\ UNCHANGED <<agentVars, clock>> => AgentInv'
    <2>1. AgentInv => clock \in Time
      BY DEF AgentInv, AgentTypeOK
    <2>2. QED
      BY <2>1, AgentRests
  <1>2. AgentInv /\ [AgentNext]_<<agentVars, clock>> => AgentInv'
    BY <1>1, AgentStep
  <1>3. QED
    BY <1>2, AgentInitInv, PTL DEF AgentSpec

(* The spool, the command and its retry count have their types: no push makes
   more than MaxTries attempts for one file. *)
THEOREM AgentTypes == AgentSpec => []AgentTypeOK
  <1>1. AgentInv => AgentTypeOK
    BY DEF AgentInv
  <1>2. QED
    BY <1>1, AgentInvariant, PTL

(* _evict_if_full bounds the spool: at most MaxFiles files, one per payload,
   and all but the newest within MaxBytes, for every size of the files. *)
THEOREM SpoolIsBounded == AgentSpec => []SpoolBounded
  <1>1. AgentInv => SpoolBounded
    BY DEF AgentInv
  <1>2. QED
    BY <1>1, AgentInvariant, PTL

(* Every envelope that was built is accounted for. *)
THEOREM NothingIsLostSilently == AgentSpec => []NothingLostSilently
  <1>1. AgentInv => NothingLostSilently
    BY DEF AgentInv
  <1>2. QED
    BY <1>1, AgentInvariant, PTL

(* The exit code of `quirk sensor push' is true. *)
THEOREM ExitCodeIsTruthful == AgentSpec => []ExitIsTruthful
  <1>1. AgentInv => ExitIsTruthful
    BY DEF AgentInv
  <1>2. QED
    BY <1>1, AgentInvariant, PTL

(* What LeavesOnlyWhenAccepted says of one step. *)
LeavesOpenly ==
    \A i \in DOMAIN spool :
       \/ spool[i] \in ToSet(spool')
       \/ job.waiting /\ job.phase = "flush" /\ Target.pid = spool[i].pid
             /\ spool[i].pid \in delivered'
       \/ \A j \in 1..i : spool[j].pid \in evicted' /\ spool[j] \notin ToSet(spool')

LEMMA SpoolingIsOpen ==
    ASSUME AgentInv, NEW f \in File, f.pid = job.cur, job.phase = "push",
           SpoolFile(f)
    PROVE  LeavesOpenly
  <1>1. spool \in Seq(File) /\ Distinct(spool) /\ f.pid \notin Spooled
    BY DEF AgentInv, AgentTypeOK, SpoolBounded, Distinct, JobInv
  <1>2. QED
    BY <1>1, SpoolFileStep DEF LeavesOpenly

LEMMA UnlinkingIsOpen ==
    ASSUME AgentInv, NEW o \in Outcome, SettleFlush(o)
    PROVE  LeavesOpenly
  <1>1. job.waiting /\ job.phase = "flush" /\ JobInv /\ SpoolBounded
          /\ job \in Job /\ spool \in Seq(File)
    BY DEF SettleFlush, AgentInv, AgentTypeOK
  <1>2. Target.pid \in Spooled
    BY <1>1, TargetInSpool
  <1>3. CASE spool' = Unlink(spool, Target.pid)
             /\ delivered' = delivered \cup {Target.pid}
    <2>1. ToSet(spool') = {f \in ToSet(spool) : f.pid # Target.pid}
      BY <1>1, <1>2, <1>3, UnlinkStep
    <2>2. ASSUME NEW i \in DOMAIN spool
          PROVE  spool[i] \in ToSet(spool') \/ spool[i].pid = Target.pid
      BY <2>1 DEF ToSet
    <2>3. QED
      BY <2>2, <1>1, <1>3 DEF LeavesOpenly
  <1>4. CASE UNCHANGED <<spool, delivered>>
    BY <1>4 DEF LeavesOpenly, ToSet
  <1>5. QED
    BY <1>3, <1>4 DEF SettleFlush

(* A file leaves the spool only when it was just accepted, or by an eviction
   that took every older file with it. *)
THEOREM FilesLeaveOpenly == AgentSpec => LeavesOnlyWhenAccepted
  <1>1. ASSUME spool' = spool PROVE LeavesOpenly
    BY <1>1 DEF LeavesOpenly, ToSet
  <1>2. ASSUME AgentInv, AgentNext PROVE LeavesOpenly
    <2>1. CASE \E p \in Payloads : StartPush(p) \/ ExportResults(p)
      BY <2>1, <1>1 DEF StartPush, ExportResults
    <2>2. CASE Send \/ FlushDone \/ AgentCrash \/ (Tick /\ UNCHANGED agentVars)
      BY <2>2, <1>1 DEF Send, FlushDone, AgentCrash, agentVars
    <2>3. ASSUME NEW o \in Outcome, HandleOutcome(o) PROVE LeavesOpenly
      <3>1. CASE Retry(o)
        BY <3>1, <1>1 DEF Retry
      <3>2. CASE SettleFlush(o)
        BY <3>2, <1>2, UnlinkingIsOpen
      <3>3. CASE SettlePush(o) /\ o \in Accepted
        BY <3>3, <1>1 DEF SettlePush
      <3>4. CASE SettlePush(o) /\ o \notin Accepted
        <4>1. SpoolFile(Whole(job.cur)) /\ job.phase = "push"
          BY <3>4 DEF SettlePush
        <4>2. job.cur \in Payloads
          BY <4>1, <1>2 DEF AgentInv, JobInv
        <4>3. Whole(job.cur) \in File /\ Whole(job.cur).pid = job.cur
          BY <4>2 DEF Whole, File
        <4>4. QED
          BY <4>1, <4>3, <1>2, SpoolingIsOpen
      <3>5. QED
        BY <2>3, <3>1, <3>2, <3>3, <3>4 DEF HandleOutcome
    <2>4. ASSUME NEW o \in Outcome, CrashWhileSpooling(o) PROVE LeavesOpenly
      <3>1. SpoolFile(Torn(job.cur)) /\ job.phase = "push"
        BY <2>4 DEF CrashWhileSpooling
      <3>2. job.cur \in Payloads
        BY <3>1, <1>2 DEF AgentInv, JobInv
      <3>3. Torn(job.cur) \in File /\ Torn(job.cur).pid = job.cur
        BY <3>2 DEF Torn, File
      <3>4. QED
        BY <3>1, <3>3, <1>2, SpoolingIsOpen
    <2>5. QED
      BY <1>2, <2>1, <2>2, <2>3, <2>4 DEF AgentNext
  <1>3. AgentInv /\ [AgentNext]_<<agentVars, clock>> => [LeavesOpenly]_agentVars
    BY <1>2
  <1>4. AgentSpec => [][LeavesOpenly]_agentVars
    BY <1>3, AgentInvariant, PTL DEF AgentSpec
  <1>5. QED
    BY <1>4 DEF LeavesOnlyWhenAccepted, LeavesOpenly

-----------------------------------------------------------------------------
(* The pipeline *)

(* The sensor waits for an answer only on a connection about the file it is
   sending; every envelope the console has been shown was built. *)
ConnInv ==
    /\ conn \in Requests \cup {NoOne}
    /\ conn \in Requests =>
          /\ job.waiting
          /\ req[conn].pc # "idle" => req[conn].pid = Target.pid
    /\ \A w \in Requests : req[w].pc # "idle" => built[req[w].pid] # Never
    /\ imp.pc # "idle" => built[imp.pid] # Never

PipelineInv ==
    /\ AgentInv
    /\ ConsoleInv
    /\ ConnInv
    /\ DeliveredIsStored

-----------------------------------------------------------------------------
(* The two sides of a step *)

LEMMA StatusOutcomes ==
    ASSUME NEW code
    PROVE  /\ StatusOutcome(code) \in Outcome
           /\ StatusOutcome(code) \in Accepted => code \in {200, 409}
  BY DEF StatusOutcome, Outcome, Accepted

LEMMA TargetIsBuilt ==
    ASSUME AgentInv, Send
    PROVE  Target.pid \in Payloads /\ built[Target.pid] \in Time
  <1>1. job \in Job /\ JobInv /\ TraceInv /\ spool \in Seq(File)
    BY DEF AgentInv, AgentTypeOK
  <1>2. CASE job.phase = "flush" /\ job.todo # <<>>
    <2>1. job.todo \in Seq(File) /\ Target = job.todo[1] /\ 1 \in DOMAIN job.todo
      BY <1>1, <1>2, JobFields DEF Target
    <2>2. Target \in ToSet(spool) /\ Target \in File
      BY <1>1, <2>1 DEF JobInv
    <2>3. Target.pid \in Payloads /\ Target.pid \in Spooled
      BY <2>2 DEF Spooled, File
    <2>4. QED
      BY <1>1, <2>3 DEF TraceInv
  <1>3. CASE job.phase = "push"
    <2>1. Target.pid = job.cur /\ job.cur \in Payloads
      BY <1>1, <1>3 DEF Target, Whole, JobInv
    <2>2. QED
      BY <1>1, <2>1 DEF TraceInv
  <1>4. QED
    BY <1>2, <1>3 DEF Send, CanSend

(* Nothing but the clock's own step moves the clock. *)
LEMMA ConsoleKeepsClock ==
    ASSUME ConsoleStep
    PROVE  clock' = clock
  <1>1. ASSUME NEW w \in Requests, Serve(w) PROVE clock' = clock
    BY <1>1
    DEF Serve, CheckEnvelope, InsertPush, LockTimeout, CommitWithAudit, PersistHardware,
        CommitFails, CommitAudit, CommitAuditFails, TriggerRaises, Refuse
  <1>2. ASSUME NEW w \in Requests, Answer(w) \/ Release(w) PROVE clock' = clock
    BY <1>2 DEF Answer, Release
  <1>3. CASE Operator
    BY <1>3
    DEF Operator, Enroll, RevokeSensor, ImportInsert, ImportFails, ImportCommit,
        ImportHardwareFails
  <1>4. CASE \E p \in exported : ImportResults(p)
    BY <1>4 DEF ImportResults
  <1>5. CASE ConsoleCrash
    BY <1>5 DEF ConsoleCrash, DropRequests
  <1>6. QED
    BY <1>1, <1>2, <1>3, <1>4, <1>5 DEF ConsoleStep

LEMMA SensorKeepsClock ==
    /\ Send => clock' = clock
    /\ \A o \in Outcome : HandleOutcome(o) \/ CrashWhileSpooling(o) => clock' = clock
    /\ SensorStep => clock' = clock
    /\ AgentCrash => clock' = clock
  <1>1. Send \/ AgentCrash \/ SensorStep => clock' = clock
    BY DEF Send, AgentCrash, SensorStep, StartPush, ExportResults, FlushDone
  <1>2. ASSUME NEW o \in Outcome, HandleOutcome(o) \/ CrashWhileSpooling(o)
        PROVE  clock' = clock
    BY <1>2 DEF HandleOutcome, Retry, SettleFlush, SettlePush, CrashWhileSpooling
  <1>3. QED
    BY <1>1, <1>2

(* What a step is to the sensor. *)
LEMMA SensorSide ==
    ASSUME [PipelineNext]_pipelineVars
    PROVE  [AgentNext]_<<agentVars, clock>>
  <1>1. ASSUME NEW w \in Requests, Post(w) PROVE AgentNext
    BY <1>1 DEF Post, AgentNext
  <1>2. CASE PostFails
    BY <1>2 DEF PostFails, AgentNext
  <1>3. CASE GiveUpWaiting
    <2>1. "net" \in Outcome
      BY DEF Outcome
    <2>2. QED
      BY <1>3, <2>1 DEF GiveUpWaiting, AgentNext
  <1>4. CASE GetAnswer
    <2>1. PICK o \in Outcome : HandleOutcome(o) \/ CrashWhileSpooling(o)
      BY <1>4, StatusOutcomes DEF GetAnswer
    <2>2. QED
      BY <2>1 DEF AgentNext
  <1>5. CASE ConnectionCut
    <2>1. "other" \in Outcome
      BY DEF Outcome
    <2>2. QED
      BY <1>5, <2>1 DEF ConnectionCut, AgentNext
  <1>6. CASE SensorStep
    BY <1>6 DEF SensorStep, AgentNext
  <1>7. CASE SensorDies
    BY <1>7 DEF SensorDies, AgentNext
  <1>8. CASE ConsoleStep
    BY <1>8, ConsoleKeepsClock DEF ConsoleStep
  <1>9. CASE Tick /\ UNCHANGED <<agentVars, consoleVars, conn>>
    BY <1>9 DEF AgentNext
  <1>10. CASE UNCHANGED pipelineVars
    BY <1>10 DEF pipelineVars
  <1>11. QED
    BY <1>1, <1>2, <1>3, <1>4, <1>5, <1>6, <1>7, <1>8, <1>9, <1>10 DEF PipelineNext

(* What a step is to the console. *)
LEMMA ConsoleSide ==
    ASSUME AgentInv, [PipelineNext]_pipelineVars
    PROVE  [ConsoleNext]_<<consoleVars, clock>>
  <1>1. ASSUME NEW w \in Requests, Post(w) PROVE ConsoleNext
    <2>1. Target.pid \in Payloads /\ built[Target.pid] \in Time
      BY <1>1, TargetIsBuilt DEF Post
    <2>2. PICK b \in Body : b = IF Target.intact THEN "intact" ELSE "unreadable"
      BY DEF Body
    <2>3. Authenticate(w, Target.pid, Agent, built[Target.pid], b)
      BY <1>1, <2>2 DEF Post
    <2>4. QED
      BY <2>1, <2>3, AgentAssumption DEF ConsoleNext
  <1>2. CASE PostFails \/ GiveUpWaiting \/ ConnectionCut \/ SensorStep \/ SensorDies
    <2>1. "net" \in Outcome /\ "other" \in Outcome
      BY DEF Outcome
    <2>2. UNCHANGED consoleVars
      BY <1>2 DEF PostFails, GiveUpWaiting, ConnectionCut, SensorStep, SensorDies
    <2>3. clock' = clock
      BY <1>2, <2>1, SensorKeepsClock
      DEF PostFails, GiveUpWaiting, ConnectionCut, SensorDies
    <2>4. QED
      BY <2>2, <2>3
  <1>3. CASE GetAnswer
    BY <1>3 DEF GetAnswer, ConsoleNext
  <1>4. CASE ConsoleStep
    <2>1. exported \subseteq Payloads
      BY DEF AgentInv, AgentTypeOK
    <2>2. QED
      BY <1>4, <2>1 DEF ConsoleStep, ConsoleNext
  <1>5. CASE Tick /\ UNCHANGED <<agentVars, consoleVars, conn>>
    BY <1>5 DEF ConsoleNext
  <1>6. CASE UNCHANGED pipelineVars
    BY <1>6 DEF pipelineVars
  <1>7. QED
    BY <1>1, <1>2, <1>3, <1>4, <1>5, <1>6 DEF PipelineNext

-----------------------------------------------------------------------------
(* The open connection *)

(* req' takes every request it has, and its payload, from req. *)
SameRequests ==
    \A v \in Requests : req'[v].pc # "idle" =>
        req[v].pc # "idle" /\ req'[v].pid = req[v].pid

LEMMA UpdateKeepsPid ==
    ASSUME req \in [Requests -> Request], NEW w \in Requests, NEW r,
           req[w].pc # "idle", r.pid = req[w].pid, req' = [req EXCEPT ![w] = r]
    PROVE  SameRequests
  BY DEF SameRequests

LEMMA ReplyKeepsPid ==
    ASSUME req \in [Requests -> Request], NEW w \in Requests, NEW c \in Code,
           req[w].pc # "idle", Reply(w, c)
    PROVE  SameRequests
  <1> DEFINE r == Answered(req[w].pid, c)
  <1>1. r.pid = req[w].pid
    BY DEF Answered, AtStep
  <1>2. req' = [req EXCEPT ![w] = r]
    BY DEF Reply
  <1> HIDE DEF r
  <1>3. QED
    BY <1>1, <1>2, UpdateKeepsPid

LEMMA ServeKeepsPid ==
    ASSUME req \in [Requests -> Request], NEW w \in Requests, Serve(w) \/ Answer(w)
    PROVE  SameRequests /\ imp' = imp
  <1>1. imp' = imp
    BY DEF Serve, Answer, CheckEnvelope, InsertPush, LockTimeout, CommitWithAudit,
           PersistHardware, CommitFails, CommitAudit, CommitAuditFails, TriggerRaises,
           Refuse, importVars
  <1> SUFFICES SameRequests
    BY <1>1
  <1>2. ASSUME NEW pc, req[w].pc # "idle", req' = [req EXCEPT ![w].pc = pc]
        PROVE  SameRequests
    <2> DEFINE r == [req[w] EXCEPT !.pc = pc]
    <2>1. r.pid = req[w].pid
      BY DEF Request
    <2>2. req' = [req EXCEPT ![w] = r]
      BY <1>2
    <2> HIDE DEF r
    <2>3. QED
      BY <1>2, <2>1, <2>2, UpdateKeepsPid
  <1>3. ASSUME req[w].pc = "reading",
               req' = [req EXCEPT ![w] = AtStep("waiting", req[w].pid, clock, 0)]
        PROVE  SameRequests
    <2> DEFINE r == AtStep("waiting", req[w].pid, clock, 0)
    <2>1. r.pid = req[w].pid
      BY DEF AtStep
    <2>2. req' = [req EXCEPT ![w] = r]
      BY <1>3
    <2> HIDE DEF r
    <2>3. QED
      BY <1>3, <2>1, <2>2, UpdateKeepsPid
  <1>4. ASSUME NEW c \in Code, req[w].pc # "idle", Refuse(w, c) PROVE SameRequests
    BY <1>4, ReplyKeepsPid DEF Refuse
  <1>5. CASE CheckEnvelope(w)
    <2>1. CASE req' = [req EXCEPT ![w] = AtStep("waiting", req[w].pid, clock, 0)]
      BY <1>3, <1>5, <2>1 DEF CheckEnvelope
    <2>2. CASE \E c \in Code : Refuse(w, c)
      BY <1>4, <1>5, <2>2 DEF CheckEnvelope
    <2>3. QED
      BY <1>5, <2>1, <2>2, RefusalCodes DEF CheckEnvelope
  <1>6. CASE InsertPush(w)
    <2>1. CASE \E c \in Code : Refuse(w, c)
      BY <1>4, <1>6, <2>1 DEF InsertPush
    <2>2. CASE req' = [req EXCEPT ![w].pc = "inserted"]
      BY <1>2, <1>6, <2>2 DEF InsertPush
    <2>3. QED
      BY <1>6, <2>1, <2>2, RefusalCodes DEF InsertPush
  <1>7. CASE LockTimeout(w) \/ CommitFails(w) \/ CommitAuditFails(w)
    <2>1. PICK c \in Code : Refuse(w, c)
      BY <1>7, RefusalCodes DEF LockTimeout, CommitFails, CommitAuditFails
    <2>2. QED
      BY <1>4, <1>7, <2>1 DEF LockTimeout, CommitFails, CommitAuditFails
  <1>8. CASE CommitWithAudit(w) \/ PersistHardware(w) \/ CommitAudit(w)
    BY <1>2, <1>8 DEF CommitWithAudit, PersistHardware, CommitAudit
  <1>9. CASE TriggerRaises(w) \/ Answer(w)
    <2>1. PICK c \in Code : Reply(w, c)
      BY <1>9 DEF TriggerRaises, Answer, Code
    <2>2. QED
      BY <1>9, <2>1, ReplyKeepsPid DEF TriggerRaises, Answer
  <1>10. QED
    BY <1>1, <1>5, <1>6, <1>7, <1>8, <1>9 DEF Serve

LEMMA ReleaseKeepsPid ==
    ASSUME req \in [Requests -> Request], NEW w \in Requests, Release(w)
    PROVE  SameRequests /\ imp' = imp
  BY IdleType DEF Release, SameRequests, importVars

LEMMA OperatorKeepsPid ==
    ASSUME ConsoleInv, Operator
    PROVE  /\ req' = req
           /\ imp'.pc # "idle" => imp.pc # "idle" /\ imp'.pid = imp.pid
  <1>1. imp \in ImportState /\ IdleImport.pc = "idle"
    BY DEF ConsoleInv, ConsoleTypeOK, IdleImport
  <1>2. CASE \E s \in Sensors : Enroll(s) \/ RevokeSensor(s)
    BY <1>2 DEF Enroll, RevokeSensor, importVars
  <1>3. CASE ImportInsert
    BY <1>1, <1>3 DEF ImportInsert, ImportState
  <1>4. CASE ImportFails \/ ImportCommit \/ ImportHardwareFails
    BY <1>1, <1>4 DEF ImportFails, ImportCommit, ImportHardwareFails
  <1>5. QED
    BY <1>2, <1>3, <1>4 DEF Operator

(* A step of the console that opens no connection. *)
LEMMA ConnKept ==
    ASSUME ConnInv, SameRequests, UNCHANGED <<agentVars, conn>>,
           imp'.pc # "idle" => built[imp'.pid] # Never
    PROVE  ConnInv'
  <1>1. job' = job /\ built' = built /\ Target' = Target /\ conn' = conn
    BY DEF agentVars, Target
  <1>2. QED
    BY <1>1 DEF ConnInv, SameRequests

LEMMA ConsoleStepConn ==
    ASSUME AgentInv, ConsoleInv, ConnInv, ConsoleStep
    PROVE  ConnInv'
  <1>1. req \in [Requests -> Request] /\ UNCHANGED <<agentVars, conn>>
          /\ (imp.pc # "idle" => built[imp.pid] # Never)
    BY DEF ConsoleInv, ConsoleTypeOK, ConsoleStep, ConnInv
  <1>2. ASSUME NEW w \in Requests, Serve(w) \/ Answer(w) \/ Release(w)
        PROVE  ConnInv'
    BY <1>1, <1>2, ServeKeepsPid, ReleaseKeepsPid, ConnKept
  <1>3. CASE Operator
    BY <1>1, <1>3, OperatorKeepsPid, ConnKept DEF SameRequests
  <1>4. ASSUME NEW p \in exported, ImportResults(p) PROVE ConnInv'
    <2>1. built[p] # Never
      <3>1. p \in Payloads /\ TraceInv
        BY DEF AgentInv, AgentTypeOK
      <3>2. built[p] \in Time
        BY <3>1 DEF TraceInv
      <3>3. QED
        BY <3>2, PushAssumption DEF Time, Never
    <2>2. SameRequests /\ imp'.pid = p
      BY <1>4 DEF ImportResults, SameRequests
    <2>3. QED
      BY <1>1, <2>1, <2>2, ConnKept
  <1>5. CASE ConsoleCrash
    <2>1. SameRequests /\ imp' = imp
      BY <1>5, IdleType DEF ConsoleCrash, DropRequests, SameRequests, importVars
    <2>2. QED
      BY <1>1, <2>1, ConnKept
  <1>6. QED
    BY <1>2, <1>3, <1>4, <1>5 DEF ConsoleStep

(* A step after which the sensor waits for no request. *)
LEMMA ConnClosed ==
    ASSUME ConnInv, SameRequests, conn' = NoOne, imp' = imp,
           \A p \in Payloads : built[p] # Never => built'[p] # Never,
           \A w \in Requests : req[w].pc # "idle" => req[w].pid \in Payloads,
           imp.pc # "idle" => imp.pid \in Payloads
    PROVE  ConnInv'
  BY ConsoleAssumption DEF ConnInv, SameRequests

LEMMA HandledStaysBuilt ==
    /\ Send => built' = built
    /\ \A o \in Outcome : HandleOutcome(o) \/ CrashWhileSpooling(o) => built' = built
    /\ AgentCrash => built' = built
  <1>1. Send \/ AgentCrash => built' = built
    BY DEF Send, AgentCrash
  <1>2. ASSUME NEW o \in Outcome, HandleOutcome(o) \/ CrashWhileSpooling(o)
        PROVE  built' = built
    BY <1>2 DEF HandleOutcome, Retry, SettleFlush, SettlePush, CrashWhileSpooling
  <1>3. QED
    BY <1>1, <1>2

LEMMA PostConn ==
    ASSUME AgentInv, ConsoleInv, ConnInv, NEW w \in Requests, Post(w)
    PROVE  ConnInv'
  <1> DEFINE p == Target.pid
  <1>1. p \in Payloads /\ built[p] \in Time
    BY TargetIsBuilt DEF Post
  <1>2. /\ job' = [job EXCEPT !.waiting = TRUE, !.tries = @ + 1] /\ built' = built
        /\ conn' = w /\ imp' = imp
    BY DEF Post, Send, Authenticate, importVars
  <1>3. job \in Job /\ req \in [Requests -> Request]
    BY DEF AgentInv, AgentTypeOK, ConsoleInv, ConsoleTypeOK
  <1>4. job'.waiting = TRUE /\ Target' = Target
    BY <1>2, <1>3, JobFields DEF Target
  <1>5. built[p] # Never
    BY <1>1, PushAssumption DEF Time, Never
  <1>6. /\ req'[w].pid = p
        /\ \A v \in Requests \ {w} : req'[v] = req[v]
    BY <1>3 DEF Post, Authenticate, Answered, AtStep
  <1> HIDE DEF p
  <1>7. QED
    BY <1>2, <1>4, <1>5, <1>6 DEF ConnInv, p

LEMMA PipelineConn ==
    ASSUME AgentInv, ConsoleInv, ConnInv, [PipelineNext]_pipelineVars
    PROVE  ConnInv'
  <1>1. /\ \A w \in Requests : req[w].pc # "idle" => req[w].pid \in Payloads
        /\ imp.pc # "idle" => imp.pid \in Payloads
        /\ req \in [Requests -> Request]
        /\ "net" \in Outcome /\ "other" \in Outcome
    BY DEF ConsoleInv, ConsoleTypeOK, RequestInv, ImportInv, Outcome
  <1>2. ASSUME NEW w \in Requests, Post(w) PROVE ConnInv'
    BY <1>2, PostConn
  <1>3. CASE PostFails \/ GiveUpWaiting \/ ConnectionCut \/ SensorDies
    <2>1. conn' = NoOne /\ req' = req /\ imp' = imp
      BY <1>3
      DEF PostFails, GiveUpWaiting, ConnectionCut, SensorDies, consoleVars, importVars
    <2>2. built' = built
      BY <1>1, <1>3, HandledStaysBuilt
      DEF PostFails, GiveUpWaiting, ConnectionCut, SensorDies
    <2>3. SameRequests
      BY <2>1 DEF SameRequests
    <2>4. QED
      BY <1>1, <2>1, <2>2, <2>3, ConnClosed
  <1>4. CASE GetAnswer
    <2>1. conn' = NoOne /\ SameRequests /\ imp' = imp
      BY <1>1, <1>4, ReleaseKeepsPid DEF GetAnswer
    <2>2. built' = built
      BY <1>4, HandledStaysBuilt, StatusOutcomes DEF GetAnswer
    <2>3. QED
      BY <1>1, <2>1, <2>2, ConnClosed
  <1>5. CASE SensorStep
    <2>1. conn' = conn /\ req' = req /\ imp' = imp
      BY <1>5 DEF SensorStep, consoleVars, importVars
    <2>2. CASE \E p \in Payloads : ExportResults(p)
      <3>1. job' = job /\ Target' = Target
        BY <2>2 DEF ExportResults, Target
      <3>2. PICK p \in Payloads : ExportResults(p)
        BY <2>2
      <3>3. clock \in Time /\ built \in [Payloads -> Stamp]
        BY DEF AgentInv, AgentTypeOK
      <3>4. \A q \in Payloads : built[q] # Never => built'[q] # Never
        BY <3>2, <3>3, PushAssumption DEF ExportResults, Time, Never
      <3>5. QED
        BY <1>1, <2>1, <3>1, <3>4 DEF ConnInv
    <2>3. CASE (\E p \in Payloads : StartPush(p)) \/ FlushDone
      <3>1. ~job.waiting
        BY <2>3, IdleJobType DEF StartPush, FlushDone, AgentInv, JobInv
      <3>2. conn' = NoOne
        BY <3>1, <2>1 DEF ConnInv
      <3>3. clock \in Time /\ built \in [Payloads -> Stamp]
        BY DEF AgentInv, AgentTypeOK
      <3>4. \A q \in Payloads : built[q] # Never => built'[q] # Never
        BY <2>3, <3>3, PushAssumption DEF StartPush, FlushDone, Time, Never
      <3>5. SameRequests
        BY <2>1 DEF SameRequests
      <3>6. QED
        BY <1>1, <2>1, <3>2, <3>4, <3>5, ConnClosed
    <2>4. QED
      BY <1>5, <2>2, <2>3 DEF SensorStep
  <1>6. CASE ConsoleStep
    BY <1>6, ConsoleStepConn
  <1>7. CASE UNCHANGED <<agentVars, consoleVars, conn>>
    <2>1. SameRequests /\ imp' = imp
      BY <1>7 DEF SameRequests, consoleVars, importVars
    <2>2. QED
      BY <1>7, <2>1, ConnKept DEF ConnInv
  <1>8. QED
    BY <1>2, <1>3, <1>4, <1>5, <1>6, <1>7 DEF PipelineNext, pipelineVars

-----------------------------------------------------------------------------
(* What the sensor lets go of is stored. *)

(* A step of the sensor's on the outcome o of a POST. *)
LEMMA DeliveredGrows ==
    ASSUME AgentInv, NEW o \in Outcome, HandleOutcome(o) \/ CrashWhileSpooling(o)
    PROVE  \/ delivered' = delivered
           \/ /\ o \in Accepted /\ job.waiting
              /\ Target.pid \in Payloads /\ delivered' = delivered \cup {Target.pid}
  <1>1. job \in Job /\ JobInv /\ spool \in Seq(File)
    BY DEF AgentInv, AgentTypeOK
  <1>2. CASE Retry(o) \/ CrashWhileSpooling(o)
    BY <1>2 DEF Retry, CrashWhileSpooling
  <1>3. CASE SettleFlush(o)
    <2>1. CASE o \in Accepted
      <3>1. job.waiting /\ job.phase = "flush" /\ delivered' = delivered \cup {Target.pid}
        BY <1>3, <2>1 DEF SettleFlush
      <3>2. Target.pid \in Spooled
        BY <1>1, <3>1, TargetInSpool
      <3>3. QED
        BY <1>1, <2>1, <3>1, <3>2, SpooledType
    <2>2. CASE o \notin Accepted
      BY <1>3, <2>2 DEF SettleFlush
    <2>3. QED
      BY <2>1, <2>2
  <1>4. CASE SettlePush(o)
    <2>1. CASE o \in Accepted
      <3>1. job.waiting /\ job.phase = "push" /\ delivered' = delivered \cup {job.cur}
        BY <1>4, <2>1 DEF SettlePush
      <3>2. Target.pid = job.cur /\ job.cur \in Payloads
        BY <1>1, <3>1 DEF Target, Whole, JobInv
      <3>3. QED
        BY <2>1, <3>1, <3>2
    <2>2. CASE o \notin Accepted
      BY <1>4, <2>2 DEF SettlePush
    <2>3. QED
      BY <2>1, <2>2
  <1>5. QED
    BY <1>2, <1>3, <1>4 DEF HandleOutcome

(* An acceptance the sensor acts on is one of the console's, about the file
   it has sent. *)
LEMMA AcceptedIsStored ==
    ASSUME AgentInv, ConsoleInv, ConnInv, GetAnswer
    PROVE  \/ delivered' = delivered
           \/ /\ Target.pid \in Payloads /\ Stored(Target.pid)
              /\ delivered' = delivered \cup {Target.pid}
  <1> DEFINE o == StatusOutcome(req[conn].code)
  <1>1. conn \in Requests /\ req[conn].pc = "done"
          /\ (HandleOutcome(o) \/ CrashWhileSpooling(o))
    BY DEF GetAnswer
  <1>2. o \in Outcome /\ (o \in Accepted => req[conn].code \in {200, 409})
    BY StatusOutcomes
  <1> HIDE DEF o
  <1>3. req[conn].code \in {200, 409} => Stored(Target.pid)
    BY <1>1 DEF ConnInv, ConsoleInv, AnswerIsTruthful
  <1>4. QED
    BY <1>1, <1>2, <1>3, DeliveredGrows

LEMMA PipelineDelivered ==
    ASSUME AgentInv, ConsoleInv, ConnInv, DeliveredIsStored, [PipelineNext]_pipelineVars
    PROVE  \/ delivered' = delivered
           \/ /\ GetAnswer
              /\ Target.pid \in Payloads /\ Stored(Target.pid)
              /\ delivered' = delivered \cup {Target.pid}
  <1>1. CASE GetAnswer
    BY <1>1, AcceptedIsStored
  <1>2. ASSUME NEW o \in Outcome, o \notin Accepted, HandleOutcome(o) \/ CrashWhileSpooling(o)
        PROVE  delivered' = delivered
    BY <1>2, DeliveredGrows
  <1>3. CASE GiveUpWaiting \/ ConnectionCut
    <2>1. "net" \in Outcome \ Accepted /\ "other" \in Outcome \ Accepted
      BY DEF Outcome, Accepted
    <2>2. QED
      BY <1>2, <1>3, <2>1 DEF GiveUpWaiting, ConnectionCut
  <1>4. CASE (\E w \in Requests : Post(w)) \/ PostFails \/ SensorStep \/ SensorDies
    BY <1>4 DEF Post, PostFails, SensorStep, SensorDies, Send, StartPush, ExportResults,
                FlushDone, AgentCrash
  <1>5. CASE UNCHANGED agentVars
    BY <1>5 DEF agentVars
  <1>6. CASE ConsoleStep
    BY <1>5, <1>6 DEF ConsoleStep
  <1>7. QED
    BY <1>1, <1>3, <1>4, <1>5, <1>6 DEF PipelineNext, pipelineVars

LEMMA PipelineInductive ==
    ASSUME PipelineInv, [PipelineNext]_pipelineVars
    PROVE  PipelineInv'
  <1>1. AgentInv /\ ConsoleInv /\ ConnInv /\ DeliveredIsStored
    BY DEF PipelineInv
  <1>2. [AgentNext]_<<agentVars, clock>>
    BY SensorSide
  <1>3. [ConsoleNext]_<<consoleVars, clock>>
    BY <1>1, ConsoleSide
  <1>4. AgentInv'
    <2>1. CASE UNCHANGED <<agentVars, clock>>
      BY <1>1, <2>1, AgentRests DEF AgentInv, AgentTypeOK
    <2>2. QED
      BY <1>1, <1>2, <2>1, AgentStep
  <1>5. ConsoleInv'
    BY <1>1, <1>3, ConsoleInductive
  <1>6. ConnInv'
    BY <1>1, PipelineConn
  <1>7. DeliveredIsStored'
    <2>1. ASSUME NEW p \in delivered' PROVE p \in Payloads /\ Stored(p)
      <3>1. delivered \subseteq Payloads
        BY <1>1 DEF AgentInv, AgentTypeOK
      <3>2. QED
        BY <1>1, <2>1, <3>1, PipelineDelivered DEF DeliveredIsStored
    <2>2. ASSUME NEW p \in delivered' PROVE Stored(p)' /\ endpoints'[p] = 1
      <3>1. p \in Payloads /\ Stored(p)
        BY <2>1
      <3>2. received'[p] = received[p]
        BY <1>1, <1>3, <3>1, LedgerStep
      <3>3. Stored(p)'
        BY <3>1, <3>2 DEF Stored
      <3>4. QED
        BY <1>5, <3>1, <3>3 DEF ConsoleInv, IngestedOnce
    <2>3. QED
      BY <2>2 DEF DeliveredIsStored
  <1>8. QED
    BY <1>4, <1>5, <1>6, <1>7 DEF PipelineInv

LEMMA PipelineInitially == PipelineInit => PipelineInv
  <1> SUFFICES ASSUME PipelineInit PROVE PipelineInv
    OBVIOUS
  <1>1. AgentInv /\ ConsoleInv
    BY AgentInitInv, ConsoleInitially DEF PipelineInit
  <1>2. ConnInv
    BY ConsoleAssumption, IdleType
    DEF PipelineInit, ConsoleInit, ConnInv, IdleImport
  <1>3. DeliveredIsStored
    BY DEF PipelineInit, AgentInit, DeliveredIsStored
  <1>4. QED
    BY <1>1, <1>2, <1>3 DEF PipelineInv

(* PipelineInv: both components' invariants, and the open connection. *)
THEOREM PipelineInvariant == PipelineSpec => []PipelineInv
  BY PipelineInitially, PipelineInductive, PTL DEF PipelineSpec

(* Joined by the network, each component still does only what its own
   specification allows: every theorem about the sensor against any network
   and the console against any client holds of the pipeline. *)
THEOREM PipelineImplementsComponents == PipelineSpec => AgentSpec /\ ConsoleSpec
  <1>1. PipelineInit => AgentInit /\ ConsoleInit
    BY DEF PipelineInit
  <1>2. PipelineInv /\ [PipelineNext]_pipelineVars =>
          [AgentNext]_<<agentVars, clock>> /\ [ConsoleNext]_<<consoleVars, clock>>
    BY SensorSide, ConsoleSide DEF PipelineInv
  <1>3. QED
    BY <1>1, <1>2, PipelineInvariant, PTL DEF PipelineSpec, AgentSpec, ConsoleSpec

(* A payload the sensor deleted is in the database with its findings, once. *)
THEOREM DeliveriesAreStored == PipelineSpec => []DeliveredIsStored
  <1>1. PipelineInv => DeliveredIsStored
    BY DEF PipelineInv
  <1>2. QED
    BY <1>1, PipelineInvariant, PTL

-----------------------------------------------------------------------------
(* The contract *)

(* PushContract's variables under the refinement mapping. *)
Made == {p \in Payloads : built[p] # Never}
Good == {f.pid : f \in {g \in ToSet(spool) : g.intact}}
Kept == (IF job.phase = "idle" THEN {} ELSE {job.cur}) \cup Good \cup exported
Dropped == evicted \cup lost

ContractVars == <<Made, Kept, endpoints, delivered, Dropped>>

LEMMA ContractVarsAre == Contract!vars = ContractVars
  BY DEF Contract!vars, ContractVars, Made, Kept, Good, Dropped

LEMMA MakesPayload ==
    ASSUME NEW p \in Payloads, p \notin Made, Made' = Made \cup {p},
           Kept' = Kept \cup {p}, UNCHANGED <<endpoints, delivered, Dropped>>
    PROVE  Contract!Next
  BY DEF Contract!Next, Contract!Make, Made, Kept, Good, Dropped

LEMMA StoresPayload ==
    ASSUME NEW p \in Payloads, p \in Made, endpoints[p] = 0,
           endpoints' = [endpoints EXCEPT ![p] = 1],
           UNCHANGED <<Made, Kept, delivered, Dropped>>
    PROVE  Contract!Next
  BY DEF Contract!Next, Contract!Store, Made, Kept, Good, Dropped

LEMMA AcknowledgesPayload ==
    ASSUME NEW p \in Payloads, endpoints[p] = 1,
           delivered' = delivered \cup {p}, Kept' = Kept \ {p},
           UNCHANGED <<Made, endpoints, Dropped>>
    PROVE  Contract!Next
  BY DEF Contract!Next, Contract!Acknowledge, Made, Kept, Good, Dropped

LEMMA GivesUpPayloads ==
    ASSUME NEW S \in SUBSET Payloads, S \subseteq Made,
           Dropped' = Dropped \cup S, Kept' = Kept \ S,
           UNCHANGED <<Made, endpoints, delivered>>
    PROVE  Contract!Next
  BY DEF Contract!Next, Contract!GiveUp, Made, Kept, Good, Dropped

LEMMA ContractInitially == PipelineInit => Contract!Init
  <1> SUFFICES ASSUME PipelineInit PROVE Contract!Init
    OBVIOUS
  <1>1. built = [p \in Payloads |-> Never] /\ spool = <<>> /\ job.phase = "idle"
          /\ exported = {} /\ delivered = {} /\ evicted = {} /\ lost = {}
          /\ endpoints = [p \in Payloads |-> 0]
    BY IdleJobType DEF PipelineInit, AgentInit, ConsoleInit
  <1>2. ToSet(spool) = {}
    BY <1>1 DEF ToSet
  <1>3. QED
    BY <1>1, <1>2 DEF Contract!Init

(* Everything the sensor has or had was made. *)
LEMMA AllWasMade ==
    ASSUME AgentInv
    PROVE  /\ Spooled \subseteq Made
           /\ job.phase # "idle" => job.cur \in Made
  <1>1. Spooled \subseteq Payloads /\ Never \notin Time
    BY SpooledType, PushAssumption DEF AgentInv, AgentTypeOK, Time, Never
  <1>2. QED
    BY <1>1 DEF AgentInv, TraceInv, JobInv, Made

(* A new envelope. *)
LEMMA NewEnvelope ==
    ASSUME AgentInv, NEW p \in Payloads, StartPush(p) \/ ExportResults(p),
           endpoints' = endpoints
    PROVE  Contract!Next
  <1>1. built[p] = Never /\ built' = [built EXCEPT ![p] = clock]
          /\ UNCHANGED <<spool, delivered, evicted, lost>>
    BY DEF StartPush, ExportResults
  <1>2. built \in [Payloads -> Stamp] /\ clock # Never
    BY PushAssumption DEF AgentInv, AgentTypeOK, Time, Never
  <1>3. p \notin Made /\ Made' = Made \cup {p}
    BY <1>1, <1>2 DEF Made
  <1>4. Good' = Good /\ Dropped' = Dropped
    BY <1>1 DEF Good, Dropped
  <1>5. Kept' = Kept \cup {p}
    <2>1. CASE StartPush(p)
      <3>1. job.phase = "idle" /\ job'.phase = "flush" /\ job'.cur = p
              /\ exported' = exported
        BY <2>1 DEF StartPush, IdleJob
      <3>2. QED
        BY <1>4, <3>1 DEF Kept
    <2>2. CASE ExportResults(p)
      BY <1>4, <2>2 DEF ExportResults, Kept
    <2>3. QED
      BY <2>1, <2>2
  <1>6. QED
    BY <1>1, <1>3, <1>4, <1>5, MakesPayload

(* The push dies. *)
LEMMA DyingPush ==
    ASSUME AgentInv, AgentCrash, endpoints' = endpoints
    PROVE  Contract!Next
  <1>1. /\ job.phase # "idle" /\ lost' = lost \cup {job.cur} /\ job' = IdleJob
        /\ UNCHANGED <<built, spool, exported, delivered, evicted>>
    BY DEF AgentCrash
  <1>2. job.cur \in Payloads /\ job.cur \notin Spooled \cup exported
    BY <1>1 DEF AgentInv, JobInv
  <1>3. {job.cur} \subseteq Made /\ {job.cur} \in SUBSET Payloads
    BY <1>1, <1>2, AllWasMade
  <1>4. Made' = Made /\ Dropped' = Dropped \cup {job.cur}
    BY <1>1 DEF Made, Dropped
  <1>5. Good' = Good /\ job.cur \notin Good
    BY <1>1, <1>2 DEF Good, Spooled
  <1>6. Kept' = Kept \ {job.cur}
    BY <1>1, <1>2, <1>5, IdleJobType DEF Kept
  <1>7. QED
    BY <1>1, <1>3, <1>4, <1>6, GivesUpPayloads

(* The push spools its envelope, whole or torn, and evicts others for it. *)
LEMMA SpoolingGivesUp ==
    ASSUME AgentInv, NEW f \in File, f.pid = job.cur, job.phase = "push", SpoolFile(f),
           job' = IdleJob, endpoints' = endpoints,
           lost' = IF f.intact THEN lost ELSE lost \cup {job.cur},
           UNCHANGED <<built, exported, delivered>>
    PROVE  Contract!Next
  <1> DEFINE E == {spool[i].pid : i \in 1..EvictCount(spool)}
             p == job.cur
             S == IF f.intact THEN E ELSE E \cup {p}
  <1>1. spool \in Seq(File) /\ Distinct(spool) /\ TraceInv /\ p \in Payloads
          /\ p \notin Spooled \cup exported
    BY DEF AgentInv, AgentTypeOK, SpoolBounded, Distinct, JobInv
  <1>2. ToSet(spool') = {g \in ToSet(spool) : g.pid \notin E} \cup {f}
    BY <1>1, SpoolFileStep
  <1>3. evicted' = evicted \cup E
    BY DEF SpoolFile
  <1>4. E \subseteq Spooled
    <2>1. EvictCount(spool) \in 0..Len(spool)
      BY <1>1, EvictFacts
    <2>2. \A i \in 1..EvictCount(spool) : i \in DOMAIN spool
      BY <1>1, <2>1
    <2>3. QED
      BY <2>2 DEF Spooled, ToSet
  <1> HIDE DEF E
  <1>5. S \subseteq Made /\ S \in SUBSET Payloads
    BY <1>1, <1>4, AllWasMade, SpooledType
  <1>6. Made' = Made /\ Dropped' = Dropped \cup S
    BY <1>3 DEF Made, Dropped
  <1>7. Good \subseteq Spooled
    BY DEF Good, Spooled
  <1>8. Good' = IF f.intact THEN (Good \ E) \cup {p} ELSE Good \ E
    BY <1>2 DEF Good
  <1>9. exported \cap Spooled = {}
    BY <1>1 DEF TraceInv
  <1>10. Kept' = Kept \ S
    BY <1>1, <1>4, <1>7, <1>8, <1>9, IdleJobType DEF Kept
  <1>11. QED
    BY <1>5, <1>6, <1>10, GivesUpPayloads

LEMMA HandlingOutcome ==
    ASSUME PipelineInv, NEW o \in Outcome, HandleOutcome(o) \/ CrashWhileSpooling(o),
           endpoints' = endpoints,
           o \in Accepted => Stored(Target.pid)
    PROVE  Contract!Next \/ UNCHANGED ContractVars
  <1>1. AgentInv /\ JobInv /\ SpoolBounded /\ job \in Job /\ spool \in Seq(File)
          /\ TraceInv
    BY DEF PipelineInv, AgentInv, AgentTypeOK
  <1>2. CASE Retry(o)
    <2>1. UNCHANGED <<built, spool, exported, delivered, evicted, lost>>
            /\ job' = [job EXCEPT !.waiting = FALSE]
      BY <1>2 DEF Retry
    <2>2. job'.phase = job.phase /\ job'.cur = job.cur
      BY <1>1, <2>1, JobFields
    <2>3. QED
      BY <2>1, <2>2 DEF ContractVars, Made, Kept, Good, Dropped
  <1>3. CASE SettleFlush(o)
    <2> DEFINE p == Target.pid
    <2>1. /\ job.waiting /\ job.phase = "flush"
          /\ job' = [job EXCEPT !.todo = Tail(@), !.tries = 0, !.waiting = FALSE]
          /\ UNCHANGED <<built, exported, evicted, lost>>
      BY <1>3 DEF SettleFlush
    <2>2. p \in Spooled /\ p \in Payloads /\ job.cur # p /\ p \notin exported
      <3>1. p \in Spooled
        BY <1>1, <2>1, TargetInSpool
      <3>2. QED
        BY <1>1, <2>1, <3>1, SpooledType DEF JobInv, TraceInv
    <2>3. job'.phase = job.phase /\ job'.cur = job.cur
      BY <1>1, <2>1, JobFields
    <2>4. Made' = Made /\ Dropped' = Dropped
      BY <2>1 DEF Made, Dropped
    <2>5. CASE o \notin Accepted
      <3>1. UNCHANGED <<spool, delivered>>
        BY <1>3, <2>5 DEF SettleFlush
      <3>2. QED
        BY <2>1, <2>3, <2>4, <3>1 DEF ContractVars, Kept, Good
    <2>6. CASE o \in Accepted
      <3>1. spool' = Unlink(spool, p) /\ delivered' = delivered \cup {p}
        BY <1>3, <2>6 DEF SettleFlush
      <3>2. ToSet(spool') = {f \in ToSet(spool) : f.pid # p}
        BY <1>1, <2>2, <3>1, UnlinkStep
      <3> HIDE DEF p
      <3>3. Good' = Good \ {p}
        BY <3>2 DEF Good
      <3>4. Kept' = Kept \ {p}
        BY <2>1, <2>2, <2>3, <3>3 DEF Kept
      <3>5. endpoints[p] = 1
        BY <2>2, <2>6 DEF PipelineInv, ConsoleInv, IngestedOnce, p
      <3>6. QED
        BY <2>2, <2>4, <3>1, <3>4, <3>5, AcknowledgesPayload
    <2>7. QED
      BY <2>5, <2>6
  <1>4. CASE SettlePush(o)
    <2> DEFINE p == job.cur
    <2>1. /\ job.phase = "push" /\ job' = IdleJob
          /\ UNCHANGED <<built, exported, lost>>
      BY <1>4 DEF SettlePush
    <2>2. p \in Payloads /\ p \notin Spooled \cup exported /\ p = Target.pid
      BY <1>1, <2>1 DEF JobInv, Target, Whole
    <2>3. CASE o \notin Accepted
      <3>1. SpoolFile(Whole(p)) /\ delivered' = delivered
        BY <1>4, <2>3 DEF SettlePush
      <3>2. Whole(p) \in File /\ Whole(p).pid = p /\ Whole(p).intact = TRUE
        BY <2>2 DEF Whole, File
      <3>3. QED
        BY <1>1, <2>1, <3>1, <3>2, SpoolingGivesUp
    <2>4. CASE o \in Accepted
      <3>1. delivered' = delivered \cup {p} /\ UNCHANGED <<spool, evicted>>
        BY <1>4, <2>4 DEF SettlePush
      <3>2. Made' = Made /\ Dropped' = Dropped
        BY <2>1, <3>1 DEF Made, Dropped
      <3>3. Good' = Good /\ p \notin Good
        BY <2>2, <3>1 DEF Good, Spooled
      <3>4. Kept' = Kept \ {p}
        BY <2>1, <2>2, <3>3, IdleJobType DEF Kept
      <3>5. endpoints[p] = 1
        BY <2>2, <2>4 DEF PipelineInv, ConsoleInv, IngestedOnce
      <3>6. QED
        BY <2>2, <3>1, <3>2, <3>4, <3>5, AcknowledgesPayload
    <2>5. QED
      BY <2>3, <2>4
  <1>5. CASE CrashWhileSpooling(o)
    <2>1. /\ job.phase = "push" /\ SpoolFile(Torn(job.cur))
          /\ lost' = lost \cup {job.cur} /\ job' = IdleJob
          /\ UNCHANGED <<built, exported, delivered>>
      BY <1>5 DEF CrashWhileSpooling
    <2>2. job.cur \in Payloads
      BY <1>1, <2>1 DEF JobInv
    <2>3. Torn(job.cur) \in File /\ Torn(job.cur).pid = job.cur
            /\ Torn(job.cur).intact = FALSE
      BY <2>2 DEF Torn, File
    <2>4. QED
      BY <1>1, <2>1, <2>3, SpoolingGivesUp
  <1>6. QED
    BY <1>2, <1>3, <1>4, <1>5 DEF HandleOutcome

(* The console stores a payload, or leaves the contract's state alone. *)
LEMMA ConsoleStores ==
    ASSUME PipelineInv, ConsoleStep
    PROVE  Contract!Next \/ UNCHANGED ContractVars
  <1>1. UNCHANGED <<Made, Kept, delivered, Dropped>>
    BY DEF ConsoleStep, agentVars, Made, Kept, Good, Dropped
  <1>2. CASE endpoints' = endpoints
    BY <1>1, <1>2 DEF ContractVars
  <1>3. ASSUME NEW p \in Payloads, NEW now, StoreRows(p, now), ~Stored(p), built[p] # Never
        PROVE  Contract!Next
    <2>1. endpoints[p] = 0 /\ endpoints' = [endpoints EXCEPT ![p] = @ + 1]
      BY <1>3 DEF PipelineInv, ConsoleInv, IngestedOnce, StoreRows
    <2>2. endpoints' = [endpoints EXCEPT ![p] = 1]
      BY <2>1
    <2>3. QED
      BY <1>1, <1>3, <2>1, <2>2, StoresPayload DEF Made
  <1>4. ASSUME NEW w \in Requests, req[w].pc = "inserted", StoreRows(req[w].pid, req[w].now)
        PROVE  Contract!Next
    <2>1. req[w].pid \in Payloads /\ ~Stored(req[w].pid) /\ built[req[w].pid] # Never
      BY <1>4 DEF PipelineInv, ConsoleInv, RequestInv, ConnInv
    <2>2. QED
      BY <1>3, <1>4, <2>1
  <1>5. ASSUME NEW w \in Requests, Serve(w)
        PROVE  Contract!Next \/ UNCHANGED ContractVars
    <2>1. CASE CommitWithAudit(w) \/ PersistHardware(w)
      BY <1>4, <2>1 DEF CommitWithAudit, PersistHardware
    <2>2. CASE ~(CommitWithAudit(w) \/ PersistHardware(w))
      BY <1>2, <1>5, <2>2
      DEF Serve, CheckEnvelope, InsertPush, LockTimeout, CommitFails, CommitAudit,
          CommitAuditFails, TriggerRaises, Refuse, dbVars
    <2>3. QED
      BY <2>1, <2>2
  <1>6. CASE ImportCommit
    <2>1. imp.pid \in Payloads /\ ~Stored(imp.pid) /\ built[imp.pid] # Never
      BY <1>6 DEF ImportCommit, PipelineInv, ConsoleInv, ImportInv, ConnInv
    <2>2. QED
      BY <1>3, <1>6, <2>1 DEF ImportCommit
  <1>7. CASE Operator
    BY <1>2, <1>6, <1>7
    DEF Operator, Enroll, RevokeSensor, ImportInsert, ImportFails, ImportHardwareFails, dbVars
  <1>8. CASE \E w \in Requests : Answer(w) \/ Release(w)
    BY <1>2, <1>8 DEF Answer, Release, dbVars
  <1>9. CASE (\E p \in exported : ImportResults(p)) \/ ConsoleCrash
    BY <1>2, <1>9 DEF ImportResults, ConsoleCrash, DropRequests, dbVars
  <1>10. QED
    BY <1>5, <1>7, <1>8, <1>9 DEF ConsoleStep

LEMMA ContractStep ==
    ASSUME PipelineInv, [PipelineNext]_pipelineVars
    PROVE  [Contract!Next]_Contract!vars
  <1> SUFFICES Contract!Next \/ UNCHANGED ContractVars
    BY ContractVarsAre DEF ContractVars, Made, Kept, Good, Dropped, Contract!vars
  <1>1. AgentInv /\ ConsoleInv /\ ConnInv /\ job \in Job
    BY DEF PipelineInv, AgentInv, AgentTypeOK
  <1>2. ASSUME Send, endpoints' = endpoints PROVE UNCHANGED ContractVars
    <2>1. UNCHANGED <<built, spool, exported, delivered, evicted, lost>>
            /\ job' = [job EXCEPT !.waiting = TRUE, !.tries = @ + 1]
      BY <1>2 DEF Send
    <2>2. job'.phase = job.phase /\ job'.cur = job.cur
      BY <1>1, <2>1, JobFields
    <2>3. QED
      BY <1>2, <2>1, <2>2 DEF ContractVars, Made, Kept, Good, Dropped
  <1>3. CASE (\E w \in Requests : Post(w)) \/ PostFails
    BY <1>2, <1>3 DEF Post, PostFails, Authenticate, consoleVars, dbVars
  <1>4. CASE GiveUpWaiting \/ ConnectionCut
    <2>1. PICK o \in Outcome \ Accepted : HandleOutcome(o) \/ CrashWhileSpooling(o)
      BY <1>4 DEF GiveUpWaiting, ConnectionCut, Outcome, Accepted
    <2>2. endpoints' = endpoints
      BY <1>4 DEF GiveUpWaiting, ConnectionCut, consoleVars, dbVars
    <2>3. QED
      BY <2>1, <2>2, HandlingOutcome
  <1>5. CASE GetAnswer
    <2> DEFINE o == StatusOutcome(req[conn].code)
    <2>1. /\ conn \in Requests /\ req[conn].pc = "done"
          /\ HandleOutcome(o) \/ CrashWhileSpooling(o)
          /\ endpoints' = endpoints
      BY <1>5 DEF GetAnswer, Release, dbVars
    <2>2. o \in Outcome /\ (o \in Accepted => req[conn].code \in {200, 409})
      BY StatusOutcomes
    <2> HIDE DEF o
    <2>3. o \in Accepted => Stored(Target.pid)
      BY <1>1, <2>1, <2>2 DEF ConnInv, ConsoleInv, AnswerIsTruthful
    <2>4. QED
      BY <2>1, <2>2, <2>3, HandlingOutcome
  <1>6. CASE SensorStep
    <2>1. endpoints' = endpoints
      BY <1>6 DEF SensorStep, consoleVars, dbVars
    <2>2. CASE \E p \in Payloads : StartPush(p) \/ ExportResults(p)
      BY <1>1, <2>1, <2>2, NewEnvelope
    <2>3. CASE FlushDone
      <3>1. UNCHANGED <<built, spool, exported, delivered, evicted, lost>>
              /\ job.phase = "flush" /\ job' = [job EXCEPT !.phase = "push"]
        BY <2>3 DEF FlushDone
      <3>2. job'.phase = "push" /\ job'.cur = job.cur
        BY <1>1, <3>1, JobFields
      <3>3. QED
        BY <2>1, <3>1, <3>2 DEF ContractVars, Made, Kept, Good, Dropped
    <2>4. QED
      BY <1>6, <2>2, <2>3 DEF SensorStep
  <1>7. CASE SensorDies
    BY <1>1, <1>7, DyingPush DEF SensorDies, consoleVars, dbVars
  <1>8. CASE ConsoleStep
    BY <1>8, ConsoleStores
  <1>9. CASE UNCHANGED <<agentVars, consoleVars>>
    BY <1>9 DEF agentVars, consoleVars, dbVars, ContractVars, Made, Kept, Good, Dropped
  <1>10. QED
    BY <1>3, <1>4, <1>5, <1>6, <1>7, <1>8, <1>9 DEF PipelineNext, pipelineVars

(* The pipeline implements PushContract: through every retry, lost answer,
   eviction, crash and parallel import a payload is stored at most once, and
   the sensor lets go of its last good copy only when it is stored, or leaves
   a trace of having given it up. *)
THEOREM PipelineKeepsContract == PipelineSpec => ImplementsContract
  <1>1. PipelineSpec => Contract!Init /\ [][Contract!Next]_Contract!vars
    BY ContractInitially, ContractStep, PipelineInvariant, PTL DEF PipelineSpec
  <1>2. QED
    BY <1>1 DEF ImplementsContract, Contract!Spec

-----------------------------------------------------------------------------
(* The merge of a fleet's pushes *)

(* A merge of u shows stored pushes, each under the sensor that made it. *)
ShowsStored(u) ==
    \A s \in Sensors : u[s] # NoOne =>
        u[s] \in Payloads /\ Stored(u[s]) /\ Owner[u[s]] = s

(* What run_auto_merge and merge_scan know at each step. *)
TaskInv ==
    \A t \in Tasks :
        /\ task[t].pc \in {"stamped", "read"} => task[t].at \in Time
        /\ task[t].pc \in {"queued", "stamped"} =>
              \A s \in task[t].active : lastPush[s] # Never
        /\ task[t].pc = "read" =>
              /\ \A s \in task[t].active : task[t].union[s] # NoOne
              /\ ShowsStored(task[t].union)

(* An idle connection holds nothing. *)
IdleInv == \A w \in Requests : req[w].pc = "idle" => req[w] = IdleRequest

MergeInv ==
    /\ ConsoleInv
    /\ MergeTypeOK
    /\ IdleInv
    /\ TaskInv
    /\ MergeIsFaithful

-----------------------------------------------------------------------------
(* The console's side of a step *)

(* No request that is not IdleRequest becomes idle. *)
StaysBusy ==
    \A v \in Requests : req'[v].pc = "idle" => req'[v] = IdleRequest \/ req'[v] = req[v]

LEMMA UpdateStaysBusy ==
    ASSUME req \in [Requests -> Request], NEW w \in Requests, NEW r,
           r.pc # "idle" \/ r = IdleRequest, req' = [req EXCEPT ![w] = r]
    PROVE  StaysBusy
  BY DEF StaysBusy

LEMMA ReplyStaysBusy ==
    ASSUME req \in [Requests -> Request], NEW w \in Requests, NEW p, NEW c \in Code,
           req' = [req EXCEPT ![w] = Answered(p, c)]
    PROVE  StaysBusy
  <1> DEFINE r == Answered(p, c)
  <1>1. r.pc # "idle"
    BY DEF Answered, AtStep
  <1> HIDE DEF r
  <1>2. QED
    BY <1>1, UpdateStaysBusy DEF r

LEMMA ServeStaysBusy ==
    ASSUME req \in [Requests -> Request], NEW w \in Requests, Serve(w) \/ Answer(w)
    PROVE  StaysBusy
  <1>1. ASSUME NEW pc \in PC \ {"idle"}, req' = [req EXCEPT ![w].pc = pc]
        PROVE  StaysBusy
    <2> DEFINE r == [req[w] EXCEPT !.pc = pc]
    <2>1. r.pc = pc
      BY DEF Request
    <2>2. req' = [req EXCEPT ![w] = r]
      BY <1>1
    <2> HIDE DEF r
    <2>3. QED
      BY <1>1, <2>1, <2>2, UpdateStaysBusy
  <1>2. ASSUME req' = [req EXCEPT ![w] = AtStep("waiting", req[w].pid, clock, 0)]
        PROVE  StaysBusy
    <2> DEFINE r == AtStep("waiting", req[w].pid, clock, 0)
    <2>1. r.pc = "waiting"
      BY DEF AtStep
    <2>2. req' = [req EXCEPT ![w] = r]
      BY <1>2
    <2> HIDE DEF r
    <2>3. QED
      BY <2>1, <2>2, UpdateStaysBusy
  <1>3. ASSUME NEW c \in Code, Reply(w, c) PROVE StaysBusy
    BY <1>3, ReplyStaysBusy DEF Reply
  <1>4. CASE CheckEnvelope(w)
    <2>1. CASE req' = [req EXCEPT ![w] = AtStep("waiting", req[w].pid, clock, 0)]
      BY <1>2, <2>1
    <2>2. CASE \E c \in Code : Refuse(w, c)
      BY <1>3, <2>2 DEF Refuse
    <2>3. QED
      BY <1>4, <2>1, <2>2, RefusalCodes DEF CheckEnvelope
  <1>5. CASE InsertPush(w)
    <2>1. CASE \E c \in Code : Refuse(w, c)
      BY <1>3, <2>1 DEF Refuse
    <2>2. CASE req' = [req EXCEPT ![w].pc = "inserted"]
      BY <1>1, <2>2 DEF PC
    <2>3. QED
      BY <1>5, <2>1, <2>2, RefusalCodes DEF InsertPush
  <1>6. CASE LockTimeout(w) \/ CommitFails(w) \/ CommitAuditFails(w)
    <2>1. PICK c \in Code : Refuse(w, c)
      BY <1>6, RefusalCodes DEF LockTimeout, CommitFails, CommitAuditFails
    <2>2. QED
      BY <1>3, <2>1 DEF Refuse
  <1>7. CASE CommitWithAudit(w) \/ PersistHardware(w) \/ CommitAudit(w)
    BY <1>1, <1>7 DEF CommitWithAudit, PersistHardware, CommitAudit, PC
  <1>8. CASE TriggerRaises(w) \/ Answer(w)
    <2>1. PICK c \in Code : Reply(w, c)
      BY <1>8 DEF TriggerRaises, Answer, Code
    <2>2. QED
      BY <1>3, <2>1
  <1>9. QED
    BY <1>4, <1>5, <1>6, <1>7, <1>8 DEF Serve

LEMMA AuthenticateStaysBusy ==
    ASSUME req \in [Requests -> Request], NEW w \in Requests,
           NEW p, NEW t, NEW at, NEW b, Authenticate(w, p, t, at, b)
    PROVE  StaysBusy
  <1>1. CASE req' = [req EXCEPT ![w] = Answered(p, 401)]
    <2>1. PICK c \in Code : c = 401
      BY DEF Code
    <2>2. req' = [req EXCEPT ![w] = Answered(p, c)]
      BY <1>1, <2>1
    <2>3. QED
      BY <2>2, ReplyStaysBusy
  <1>2. CASE sensor[t] = "active"
    <2> DEFINE r == [pc |-> "reading", pid |-> p, token |-> t, pushedAt |-> at,
                     body |-> b, receivedAt |-> clock, now |-> Never, code |-> 0]
    <2>1. req' = [req EXCEPT ![w] = r]
      BY <1>2 DEF Authenticate
    <2>2. r.pc = "reading"
      OBVIOUS
    <2> HIDE DEF r
    <2>3. QED
      BY <2>1, <2>2, UpdateStaysBusy
  <1>3. QED
    BY <1>1, <1>2 DEF Authenticate

LEMMA BusyKeepsIdleInv ==
    ASSUME IdleInv, StaysBusy
    PROVE  IdleInv'
  <1>1. IdleRequest' = IdleRequest
    BY DEF IdleRequest, AtStep
  <1>2. QED
    BY <1>1 DEF IdleInv, StaysBusy

LEMMA MergeKeepsIdleInv ==
    ASSUME ConsoleInv, IdleInv, [MergeNext]_allVars
    PROVE  IdleInv'
  <1>1. req \in [Requests -> Request]
    BY DEF ConsoleInv, ConsoleTypeOK
  <1>2. CASE UNCHANGED consoleVars
    BY <1>2, BusyKeepsIdleInv DEF consoleVars, StaysBusy
  <1>3. ASSUME NEW w \in Requests, NEW p \in Payloads, Push(w, p) PROVE IdleInv'
    <2>1. PICK b \in Body : b = "intact"
      BY DEF Body
    <2>2. StaysBusy
      BY <1>1, <1>3, <2>1, AuthenticateStaysBusy DEF Push
    <2>3. QED
      BY <2>2, BusyKeepsIdleInv
  <1>4. ASSUME NEW w \in Requests, Serve(w) \/ Answer(w) PROVE IdleInv'
    BY <1>1, <1>4, ServeStaysBusy, BusyKeepsIdleInv
  <1>5. ASSUME NEW w \in Requests, Release(w) PROVE IdleInv'
    BY <1>1, <1>5, UpdateStaysBusy, BusyKeepsIdleInv DEF Release
  <1>6. ASSUME NEW s \in Sensors, Enroll(s) \/ RevokeSensor(s) PROVE IdleInv'
    BY <1>6, BusyKeepsIdleInv DEF Enroll, RevokeSensor, StaysBusy
  <1>7. CASE ConsoleDies
    BY <1>7, BusyKeepsIdleInv DEF ConsoleDies, DropRequests, StaysBusy
  <1>8. ASSUME NEW t \in Tasks, MergeStep(t) \/ MergeFails(t) PROVE IdleInv'
    BY <1>2, <1>8 DEF MergeStep, MergeFails, StartMerge, ReadUnion, CommitMerge
  <1>9. QED
    BY <1>2, <1>3, <1>4, <1>5, <1>6, <1>7, <1>8
    DEF MergeNext, AnswerAndTrigger, ManualMerge, allVars

(* What a step is to ConsoleIngest. *)
LEMMA ConsoleSideOfMerge ==
    ASSUME ConsoleInv, IdleInv, [MergeNext]_allVars
    PROVE  [ConsoleNext]_<<consoleVars, clock>>
  <1>1. ASSUME NEW w \in Requests, NEW p \in Payloads, Push(w, p) PROVE ConsoleNext
    <2>1. clock \in Time /\ "intact" \in Body /\ Owner[p] \in Sensors
      BY PushAssumption DEF ConsoleInv, ConsoleTypeOK, Body
    <2>2. QED
      BY <1>1, <2>1 DEF Push, ConsoleNext
  <1>2. ASSUME NEW w \in Requests, Serve(w) \/ Release(w) \/ Answer(w) PROVE ConsoleNext
    BY <1>2 DEF ConsoleNext
  <1>3. ASSUME NEW s \in Sensors, Enroll(s) \/ RevokeSensor(s) PROVE ConsoleNext
    BY <1>3 DEF ConsoleNext, Operator
  <1>4. CASE Tick /\ UNCHANGED consoleVars
    BY <1>4 DEF ConsoleNext
  <1>5. CASE ConsoleDies
    <2>1. CASE \E w \in Requests : req[w].pc # "idle"
      BY <1>5, <2>1 DEF ConsoleDies, ConsoleCrash, ConsoleNext
    <2>2. CASE \A w \in Requests : req[w].pc = "idle"
      <3>1. req \in [Requests -> Request] /\ lock \notin Requests
        BY <2>2 DEF ConsoleInv, ConsoleTypeOK, RequestInv
      <3>2. req' = req
        BY <1>5, <2>2, <3>1 DEF ConsoleDies, DropRequests, IdleInv
      <3>3. QED
        BY <1>5, <3>1, <3>2 DEF ConsoleDies, DropRequests, consoleVars
    <2>3. QED
      BY <2>1, <2>2
  <1>6. ASSUME NEW t \in Tasks, MergeStep(t) \/ MergeFails(t)
        PROVE  UNCHANGED <<consoleVars, clock>>
    BY <1>6 DEF MergeStep, MergeFails, StartMerge, ReadUnion, CommitMerge
  <1>7. CASE ManualMerge \/ UNCHANGED allVars
    BY <1>7 DEF ManualMerge, allVars
  <1>8. QED
    BY <1>1, <1>2, <1>3, <1>4, <1>5, <1>6, <1>7 DEF MergeNext, AnswerAndTrigger

-----------------------------------------------------------------------------
(* The tasks *)

(* A step of the console takes nothing from what a task knows. *)
LEMMA KnowledgeStays ==
    ASSUME ConsoleInv, IdleInv, [MergeNext]_allVars
    PROVE  /\ ConsoleInv'
           /\ \A p \in Payloads : Stored(p) => Stored(p)'
           /\ \A s \in Sensors : lastPush[s] # Never => lastPush'[s] # Never
  <1>1. [ConsoleNext]_<<consoleVars, clock>>
    BY ConsoleSideOfMerge
  <1>2. ConsoleInv'
    BY <1>1, ConsoleInductive
  <1>3. ASSUME NEW p \in Payloads, Stored(p) PROVE Stored(p)'
    <2>1. received'[p] = received[p]
      BY <1>1, <1>3, LedgerStep
    <2>2. QED
      BY <1>3, <2>1 DEF Stored
  <1>4. ASSUME NEW s \in Sensors, lastPush[s] # Never PROVE lastPush'[s] # Never
    <2>1. PICK p \in Payloads : Owner[p] = s /\ received[p] = lastPush[s]
      BY <1>4 DEF ConsoleInv, LastPushIsStored
    <2>2. Stored(p)'
      BY <1>3, <1>4, <2>1 DEF Stored
    <2>3. QED
      BY <1>2, <2>1, <2>2 DEF ConsoleInv, LastPushIsStored
  <1>5. QED
    BY <1>2, <1>3, <1>4

LEMMA ShownStays ==
    ASSUME NEW u, ShowsStored(u), \A p \in Payloads : Stored(p) => Stored(p)'
    PROVE  ShowsStored(u)'
  BY DEF ShowsStored

LEMMA IdleTaskType ==
    /\ IdleTask \in Task /\ IdleTask.pc = "idle" /\ IdleTask.active = {}
    /\ \A A \in SUBSET Sensors :
          LET q == [IdleTask EXCEPT !.pc = "queued", !.active = A]
          IN  q \in Task /\ q.pc = "queued" /\ q.active = A
  <1>1. Never \in Stamp /\ [s \in Sensors |-> NoOne] \in Union
    BY PushAssumption DEF Never, Stamp, Union
  <1>2. QED
    BY <1>1 DEF IdleTask, Task

(* What one task knows. *)
Knows(k) ==
    /\ k.pc \in {"stamped", "read"} => k.at \in Time
    /\ k.pc \in {"queued", "stamped"} => \A s \in k.active : lastPush[s] # Never
    /\ k.pc = "read" => (\A s \in k.active : k.union[s] # NoOne) /\ ShowsStored(k.union)

LEMMA KnowsStays ==
    ASSUME NEW k \in Task, Knows(k),
           \A p \in Payloads : Stored(p) => Stored(p)',
           \A s \in Sensors : lastPush[s] # Never => lastPush'[s] # Never
    PROVE  Knows(k)'
  <1>1. k.active \subseteq Sensors
    BY DEF Task
  <1>2. k.pc = "read" => ShowsStored(k.union)'
    BY ShownStays DEF Knows
  <1>3. QED
    BY <1>1, <1>2 DEF Knows

LEMMA TaskInvIs == TaskInv <=> \A t \in Tasks : Knows(task[t])
  BY DEF TaskInv, Knows

(* One task goes on to k. *)
LEMMA TaskGoesOn ==
    ASSUME MergeInv, [MergeNext]_allVars, NEW t \in Tasks, NEW k \in Task,
           Knows(k), task' = [task EXCEPT ![t] = k]
    PROVE  task' \in [Tasks -> Task] /\ TaskInv'
  <1>1. task \in [Tasks -> Task] /\ \A v \in Tasks : Knows(task[v])
    BY TaskInvIs DEF MergeInv, MergeTypeOK
  <1>2. task' \in [Tasks -> Task]
    BY <1>1
  <1>3. \A v \in Tasks : task'[v] \in Task /\ Knows(task'[v])
    BY <1>1, <1>2
  <1>4. /\ \A p \in Payloads : Stored(p) => Stored(p)'
        /\ \A s \in Sensors : lastPush[s] # Never => lastPush'[s] # Never
    BY KnowledgeStays DEF MergeInv
  <1>5. ASSUME NEW v \in Tasks PROVE Knows(task[v])'
    <2>1. PICK x \in Task : x = task'[v] /\ Knows(x)
      BY <1>3
    <2>2. Knows(x)'
      BY <2>1, <1>4, KnowsStays
    <2>3. QED
      BY <2>1, <2>2 DEF Knows, ShowsStored
  <1>6. TaskInv'
    BY <1>5 DEF TaskInv, Knows
  <1>7. QED
    BY <1>2, <1>6

LEMMA TasksStay ==
    ASSUME MergeInv, [MergeNext]_allVars, task' = task
    PROVE  TaskInv'
  <1>1. task \in [Tasks -> Task] /\ \A v \in Tasks : Knows(task[v])
    BY TaskInvIs DEF MergeInv, MergeTypeOK
  <1>2. /\ \A p \in Payloads : Stored(p) => Stored(p)'
        /\ \A s \in Sensors : lastPush[s] # Never => lastPush'[s] # Never
    BY KnowledgeStays DEF MergeInv
  <1>3. ASSUME NEW v \in Tasks PROVE Knows(task[v])'
    <2>1. PICK x \in Task : x = task[v] /\ Knows(x)
      BY <1>1
    <2>2. Knows(x)'
      BY <2>1, <1>2, KnowsStays
    <2>3. QED
      BY <2>1, <2>2 DEF Knows, ShowsStored
  <1>4. QED
    BY <1>3 DEF TaskInv, Knows

LEMMA FaithfulStays ==
    ASSUME MergeInv, [MergeNext]_allVars, merges' = merges
    PROVE  MergeIsFaithful'
  <1>1. /\ \A p \in Payloads : Stored(p) => Stored(p)'
        /\ merges \subseteq MergeRun /\ MergeHasWholeFleet /\ MergeShowsStoredPushes
    BY KnowledgeStays DEF MergeInv, MergeTypeOK, MergeIsFaithful
  <1>2. ASSUME NEW m \in merges, NEW s \in Sensors, m.union[s] # NoOne
        PROVE  Stored(m.union[s])'
    <2>1. m.union[s] \in Payloads
      BY <1>1, <1>2 DEF MergeRun, Union
    <2>2. QED
      BY <1>1, <1>2, <2>1 DEF MergeShowsStoredPushes
  <1>3. MergeShowsStoredPushes'
    BY <1>1, <1>2 DEF MergeShowsStoredPushes
  <1>4. QED
    BY <1>1, <1>3 DEF MergeIsFaithful, MergeHasWholeFleet

LEMMA IdleKnows == Knows(IdleTask)
  BY IdleTaskType DEF Knows

(* The trigger vouches for the fleet it names. *)
LEMMA TriggerStep ==
    ASSUME MergeInv, NEW w \in Requests, AnswerAndTrigger(w)
    PROVE  task' \in [Tasks -> Task] /\ TaskInv'
  <1>1. MergeNext /\ w \in Tasks
    BY DEF MergeNext, Tasks
  <1>2. CASE ~TriggerHolds
    BY <1>1, <1>2, TasksStay DEF AnswerAndTrigger, MergeInv, MergeTypeOK
  <1>3. CASE TriggerHolds
    <2> DEFINE A == IF Trigger = "all-sensors-in" THEN ActiveSensors ELSE {}
               k == [IdleTask EXCEPT !.pc = "queued", !.active = A]
    <2>1. task' = [task EXCEPT ![w] = k]
      BY <1>3 DEF AnswerAndTrigger
    <2>2. A \in SUBSET Sensors /\ \A s \in A : lastPush[s] # Never
      BY <1>3 DEF TriggerHolds, AllSensorsIn, ActiveSensors
    <2>3. k \in Task /\ k.pc = "queued" /\ k.active = A
      BY <2>2, IdleTaskType
    <2> HIDE DEF k
    <2>4. Knows(k)
      BY <2>2, <2>3 DEF Knows
    <2>5. QED
      BY <1>1, <2>1, <2>3, <2>4, TaskGoesOn
  <1>4. QED
    BY <1>2, <1>3

LEMMA StartStep ==
    ASSUME MergeInv, NEW t \in Tasks, StartMerge(t)
    PROVE  task' \in [Tasks -> Task] /\ TaskInv'
  <1>1. MergeNext
    BY DEF MergeNext, MergeStep
  <1>2. task \in [Tasks -> Task] /\ task[t] \in Task /\ Knows(task[t])
    BY TaskInvIs DEF MergeInv, MergeTypeOK
  <1>3. CASE task' = [task EXCEPT ![t] = IdleTask]
    BY <1>1, <1>3, IdleTaskType, IdleKnows, TaskGoesOn
  <1>4. CASE task' = [task EXCEPT ![t].pc = "stamped", ![t].at = clock]
    <2> DEFINE k == [task[t] EXCEPT !.pc = "stamped", !.at = clock]
    <2>1. task' = [task EXCEPT ![t] = k]
      BY <1>2, <1>4
    <2>2. clock \in Time /\ clock \in Stamp
      BY PushAssumption DEF MergeInv, ConsoleInv, ConsoleTypeOK, Time, Stamp
    <2>3. k \in Task /\ k.pc = "stamped" /\ k.at = clock /\ k.active = task[t].active
      BY <1>2, <2>2 DEF Task
    <2> HIDE DEF k
    <2>4. Knows(k)
      BY <1>2, <2>2, <2>3 DEF Knows, StartMerge
    <2>5. QED
      BY <1>1, <2>1, <2>3, <2>4, TaskGoesOn
  <1>5. QED
    BY <1>3, <1>4 DEF StartMerge

(* The read finds a push of every sensor that had one at the trigger. *)
LEMMA ReadStep ==
    ASSUME MergeInv, NEW t \in Tasks, ReadUnion(t)
    PROVE  task' \in [Tasks -> Task] /\ TaskInv'
  <1>1. MergeNext
    BY DEF MergeNext, MergeStep
  <1>2. task \in [Tasks -> Task] /\ task[t] \in Task /\ Knows(task[t])
          /\ task[t].pc = "stamped"
    BY TaskInvIs DEF MergeInv, MergeTypeOK, ReadUnion
  <1>3. PICK u \in Union :
          /\ \A s \in Sensors : IF PushesOf(s) = {} THEN u[s] = NoOne
                                ELSE u[s] \in LatestPushes(s)
          /\ task' = [task EXCEPT ![t].pc = "read", ![t].union = u]
    BY DEF ReadUnion
  <1> DEFINE k == [task[t] EXCEPT !.pc = "read", !.union = u]
  <1>4. task' = [task EXCEPT ![t] = k]
    BY <1>2, <1>3
  <1>5. k \in Task /\ k.pc = "read" /\ k.union = u /\ k.at = task[t].at
          /\ k.active = task[t].active
    BY <1>2 DEF Task
  <1> HIDE DEF k
  <1>6. \A s \in Sensors : LatestPushes(s) \subseteq PushesOf(s)
    BY DEF LatestPushes
  <1>7. ShowsStored(u)
    BY <1>3, <1>6 DEF ShowsStored, PushesOf
  <1>8. ASSUME NEW s \in task[t].active PROVE u[s] # NoOne
    <2>1. s \in Sensors /\ lastPush[s] # Never
      BY <1>2 DEF Task, Knows
    <2>2. PICK p \in Payloads : Owner[p] = s /\ received[p] = lastPush[s]
      BY <2>1 DEF MergeInv, ConsoleInv, LastPushIsStored
    <2>3. p \in PushesOf(s)
      BY <2>1, <2>2 DEF PushesOf, Stored
    <2>4. u[s] \in Payloads
      BY <1>3, <1>6, <2>1, <2>3 DEF PushesOf
    <2>5. QED
      BY <2>4, ConsoleAssumption
  <1>9. Knows(k)
    BY <1>2, <1>5, <1>7, <1>8 DEF Knows
  <1>10. QED
    BY <1>1, <1>4, <1>5, <1>9, TaskGoesOn

LEMMA CommitMergeStep ==
    ASSUME MergeInv, NEW t \in Tasks, CommitMerge(t)
    PROVE  MergeTypeOK' /\ TaskInv' /\ MergeIsFaithful'
  <1>1. MergeNext
    BY DEF MergeNext, MergeStep
  <1>2. task[t] \in Task /\ Knows(task[t]) /\ task[t].pc = "read"
          /\ UNCHANGED <<consoleVars, abandoned, clock>>
    BY TaskInvIs DEF MergeInv, MergeTypeOK, CommitMerge
  <1>3. task' \in [Tasks -> Task] /\ TaskInv'
    <2>1. task' = [task EXCEPT ![t] = IdleTask]
      BY DEF CommitMerge
    <2>2. QED
      BY <1>1, <2>1, IdleTaskType, IdleKnows, TaskGoesOn
  <1> DEFINE m == [at |-> task[t].at, union |-> task[t].union, active |-> task[t].active]
  <1>4. merges' = merges \cup {m}
    BY DEF CommitMerge
  <1>5. m \in MergeRun /\ (\A s \in m.active : m.union[s] # NoOne) /\ ShowsStored(m.union)
    BY <1>2 DEF Knows, Task, MergeRun
  <1> HIDE DEF m
  <1>6. MergeTypeOK'
    BY <1>2, <1>3, <1>4, <1>5 DEF MergeInv, MergeTypeOK
  <1>7. received' = received
    BY <1>2 DEF consoleVars, dbVars
  <1>8. MergeIsFaithful'
    BY <1>4, <1>5, <1>7
    DEF MergeInv, MergeIsFaithful, MergeHasWholeFleet, MergeShowsStoredPushes, ShowsStored,
        Stored
  <1>9. QED
    BY <1>3, <1>6, <1>8

LEMMA DiesStep ==
    ASSUME MergeInv, ConsoleDies
    PROVE  task' \in [Tasks -> Task] /\ TaskInv'
  <1>1. task \in [Tasks -> Task] /\ \A v \in Tasks : Knows(task[v])
    BY TaskInvIs DEF MergeInv, MergeTypeOK
  <1>2. task' = [t \in Tasks |-> IF t = Manual THEN task[t] ELSE IdleTask]
          /\ UNCHANGED <<received, lastPush>>
    BY DEF ConsoleDies, DropRequests, dbVars
  <1>3. task' \in [Tasks -> Task]
    BY <1>1, <1>2, IdleTaskType
  <1>4. ASSUME NEW v \in Tasks PROVE Knows(task'[v])
    BY <1>1, <1>2, IdleKnows
  <1>5. TaskInv'
    BY <1>2, <1>4 DEF TaskInv, Knows, ShowsStored, Stored
  <1>6. QED
    BY <1>3, <1>5

LEMMA MergeInductive ==
    ASSUME MergeInv, [MergeNext]_allVars
    PROVE  MergeInv'
  <1>1. ConsoleInv' /\ IdleInv'
    BY KnowledgeStays, MergeKeepsIdleInv DEF MergeInv
  <1> SUFFICES MergeTypeOK' /\ TaskInv' /\ MergeIsFaithful'
    BY <1>1 DEF MergeInv
  <1>2. ASSUME merges' = merges, abandoned' \in BOOLEAN,
               task' \in [Tasks -> Task], TaskInv'
        PROVE  MergeTypeOK' /\ TaskInv' /\ MergeIsFaithful'
    BY <1>2, FaithfulStays DEF MergeInv, MergeTypeOK
  <1>3. MergeTypeOK
    BY DEF MergeInv
  <1>4. CASE UNCHANGED mergeVars
    BY <1>2, <1>3, <1>4, TasksStay DEF mergeVars, MergeTypeOK
  <1>5. ASSUME NEW w \in Requests, AnswerAndTrigger(w)
        PROVE  MergeTypeOK' /\ TaskInv' /\ MergeIsFaithful'
    BY <1>2, <1>3, <1>5, TriggerStep DEF AnswerAndTrigger, MergeTypeOK
  <1>6. ASSUME NEW t \in Tasks, MergeStep(t) \/ MergeFails(t)
        PROVE  MergeTypeOK' /\ TaskInv' /\ MergeIsFaithful'
    <2>1. CASE StartMerge(t)
      BY <1>2, <1>3, <2>1, StartStep DEF StartMerge, MergeTypeOK
    <2>2. CASE ReadUnion(t)
      BY <1>2, <1>3, <2>2, ReadStep DEF ReadUnion, MergeTypeOK
    <2>3. CASE CommitMerge(t)
      BY <2>3, CommitMergeStep
    <2>4. CASE MergeFails(t)
      <3>1. merges' = merges /\ abandoned' \in BOOLEAN
              /\ task' = [task EXCEPT ![t] = IdleTask]
        BY <2>4 DEF MergeFails
      <3>2. task' \in [Tasks -> Task] /\ TaskInv'
        BY <3>1, IdleTaskType, IdleKnows, TaskGoesOn
      <3>3. QED
        BY <1>2, <3>1, <3>2
    <2>5. QED
      BY <1>6, <2>1, <2>2, <2>3, <2>4 DEF MergeStep
  <1>7. CASE ManualMerge
    <2> DEFINE k == [IdleTask EXCEPT !.pc = "queued"]
    <2>1. merges' = merges /\ abandoned' = abandoned
            /\ task' = [task EXCEPT ![Manual] = k] /\ Manual \in Tasks
      BY <1>7 DEF ManualMerge, Tasks
    <2>2. k \in Task /\ k.pc = "queued" /\ k.active = {}
      BY IdleTaskType DEF Task
    <2> HIDE DEF k
    <2>3. Knows(k)
      BY <2>2 DEF Knows
    <2>4. task' \in [Tasks -> Task] /\ TaskInv'
      BY <2>1, <2>2, <2>3, TaskGoesOn
    <2>5. QED
      BY <1>2, <1>3, <2>1, <2>4 DEF MergeTypeOK
  <1>8. CASE ConsoleDies
    <2>1. merges' = merges /\ abandoned' \in BOOLEAN
      BY <1>3, <1>8 DEF ConsoleDies, MergeTypeOK
    <2>2. QED
      BY <1>2, <1>8, <2>1, DiesStep
  <1>9. QED
    BY <1>4, <1>5, <1>6, <1>7, <1>8 DEF MergeNext, allVars

LEMMA MergeInitially == MergeInit => MergeInv
  <1> SUFFICES ASSUME MergeInit PROVE MergeInv
    OBVIOUS
  <1>1. ConsoleInv
    BY ConsoleInitially DEF MergeInit
  <1>2. IdleInv
    BY DEF MergeInit, ConsoleInit, IdleInv
  <1>3. MergeTypeOK /\ MergeIsFaithful
    BY IdleTaskType
    DEF MergeInit, MergeTypeOK, MergeIsFaithful, MergeHasWholeFleet, MergeShowsStoredPushes
  <1>4. \A t \in Tasks : task[t] = IdleTask
    BY DEF MergeInit
  <1>5. TaskInv
    BY <1>4, IdleKnows, TaskInvIs
  <1>6. QED
    BY <1>1, <1>2, <1>3, <1>5 DEF MergeInv

-----------------------------------------------------------------------------
(* The theorems *)

(* MergeInv: the ingest path's invariant, and what each merge task knows. *)
THEOREM MergeInvariant == MergeSpec => []MergeInv
  BY MergeInitially, MergeInductive, PTL DEF MergeSpec

(* Merging is invisible to the ingest path: with its tasks, its trigger and
   its way of dying the console still does only what ConsoleIngest allows, so
   every theorem about ConsoleIngest holds with merges under way. *)
THEOREM MergeImplementsConsole == MergeSpec => ConsoleSpec
  <1>1. MergeInit => ConsoleInit
    BY DEF MergeInit
  <1>2. MergeInv /\ [MergeNext]_allVars => [ConsoleNext]_<<consoleVars, clock>>
    BY ConsoleSideOfMerge DEF MergeInv
  <1>3. QED
    BY <1>1, <1>2, MergeInvariant, PTL DEF MergeSpec, ConsoleSpec

(* merge_runs rows and tasks have their types: a row is dated by its own
   merge_scan and made of one push per sensor. *)
THEOREM MergeTypes == MergeSpec => []MergeTypeOK
  <1>1. MergeInv => MergeTypeOK
    BY DEF MergeInv
  <1>2. QED
    BY <1>1, MergeInvariant, PTL

(* A merge has a push of every sensor its trigger took to be in, and shows
   nothing that is not durably stored, whatever commits, is revoked or dies
   between the trigger and the row. *)
THEOREM MergesAreFaithful == MergeSpec => []MergeIsFaithful
  <1>1. MergeInv => MergeIsFaithful
    BY DEF MergeInv
  <1>2. QED
    BY <1>1, MergeInvariant, PTL
=============================================================================
