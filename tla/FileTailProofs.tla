--------------------------- MODULE FileTailProofs ---------------------------
(***************************************************************************)
(* A watcher thread's reader keeps its place: the types of FileTail, and   *)
(* partial_line is what precedes file_position in the file being read, for *)
(* files of any length, any chunk and any bound on partial_line.           *)
(***************************************************************************)
EXTENDS FileTail, SequenceTheorems, WellFoundedInduction, TLAPS

-----------------------------------------------------------------------------
(* Least and greatest elements.  A statement about every natural number is *)
(* proved below by asking for the least one that it fails for.             *)

LEMMA Smallest ==
  ASSUME NEW T, T \subseteq Nat, T # {}
  PROVE  \E m \in T : \A x \in T : m <= x
<1> DEFINE R == {ss \in Nat \X Nat : ss[1] < ss[2]}
<1>1. IsWellFoundedOn(R, Nat)
  BY NatLessThanWellFounded DEF OpToRel
<1>2. \E m \in T : \A y \in T : ~(<<y, m>> \in R)
  <2> HIDE DEF R
  <2>1. QED
    BY <1>1, WFMin
<1>3. PICK m \in T : \A y \in T : ~(<<y, m>> \in R)
  BY <1>2
<1>4. \A y \in T : ~(y < m)
  BY <1>3
<1>5. QED
  BY <1>4

LEMMA MinIs ==
  ASSUME NEW T, T \subseteq Nat, T # {}
  PROVE  Min(T) \in T /\ \A x \in T : Min(T) <= x
<1>1. PICK m \in T : \A x \in T : m <= x
  BY Smallest
<1>2. QED
  BY <1>1, Zenon DEF Min

LEMMA MaxIs ==
  ASSUME NEW T, T \subseteq Nat, T # {}, NEW n \in Nat, \A x \in T : x <= n
  PROVE  Max(T) \in T /\ \A x \in T : x <= Max(T)
<1> DEFINE below == {k \in Nat : \E x \in T : k = n - x}
<1>1. below \subseteq Nat /\ \A x \in T : n - x \in below
  OBVIOUS
<1>2. PICK b \in below : \A y \in below : b <= y
  <2> HIDE DEF below
  <2>1. QED
    BY <1>1, Smallest
<1>3. PICK m \in T : b = n - m
  OBVIOUS
<1>4. \A x \in T : x <= m
  BY <1>1, <1>2, <1>3
<1>5. QED
  BY <1>4 DEF Max

-----------------------------------------------------------------------------
(* Stretches of bytes.                                                     *)

\* Where the last complete line of a buffer ends.
LEMMA LastTailIs ==
  ASSUME NEW buf \in Seq(Units)
  PROVE  /\ LastTail(buf) \in 0..Len(buf)
         /\ \A i \in 1..Len(buf) : i > LastTail(buf) => buf[i].at # "tail"
<1>1. Len(buf) \in Nat /\ DOMAIN buf = 1..Len(buf)
  OBVIOUS
<1>2. Tails(buf) \subseteq 1..Len(buf) /\ \A i \in 1..Len(buf) : buf[i].at = "tail" => i \in Tails(buf)
  BY <1>1 DEF Tails
<1>3. CASE Tails(buf) = {}
  BY <1>1, <1>2, <1>3 DEF LastTail
<1>4. CASE Tails(buf) # {}
  <2>1. Max(Tails(buf)) \in Tails(buf) /\ \A x \in Tails(buf) : x <= Max(Tails(buf))
    BY <1>1, <1>2, <1>4, MaxIs
  <2>2. LastTail(buf) = Max(Tails(buf))
    BY <1>4 DEF LastTail
  <2> HIDE DEF Max
  <2>3. QED
    BY <2>1, <2>2, <1>1, <1>2
<1>5. QED
  BY <1>3, <1>4

\* The part of a buffer behind its last complete line has no complete line.
LEMMA UnterminatedIs ==
  ASSUME NEW buf \in Seq(Units)
  PROVE  /\ Unterminated(buf) \in Seq(Units)
         /\ Len(Unterminated(buf)) <= Len(buf)
         /\ \A i \in 1..Len(Unterminated(buf)) :
              /\ Unterminated(buf)[i] = buf[Len(buf) - Len(Unterminated(buf)) + i]
              /\ Unterminated(buf)[i].at # "tail"
<1>1. PICK t : t = LastTail(buf)
  OBVIOUS
<1>2. /\ t \in 0..Len(buf) /\ Len(buf) \in Nat
      /\ \A i \in 1..Len(buf) : i > t => buf[i].at # "tail"
  BY <1>1, LastTailIs
<1>3. Unterminated(buf) = SubSeq(buf, t + 1, Len(buf))
  BY <1>1 DEF Unterminated
<1>4. /\ SubSeq(buf, t + 1, Len(buf)) \in Seq(Units)
      /\ Len(SubSeq(buf, t + 1, Len(buf))) = Len(buf) - t
      /\ \A i \in 1..(Len(buf) - t) : SubSeq(buf, t + 1, Len(buf))[i] = buf[t + i]
  BY <1>2
<1>5. PICK u : u = Unterminated(buf)
  OBVIOUS
<1>6. /\ u \in Seq(Units) /\ Len(u) = Len(buf) - t
      /\ \A i \in 1..(Len(buf) - t) : u[i] = buf[t + i]
  BY <1>3, <1>4, <1>5
<1>7. \A i \in 1..Len(u) : u[i] = buf[Len(buf) - Len(u) + i] /\ u[i].at # "tail"
  BY <1>2, <1>6
<1>8. QED
  BY <1>2, <1>5, <1>6, <1>7

\* The lines of a buffer are lines that its bytes belong to.
LEMMA LinesOfIs ==
  ASSUME NEW buf \in Seq(Units), NEW n \in Nat, \A i \in 1..Len(buf) : buf[i].h \in 1..n
  PROVE  LinesOf(buf) \subseteq 1..n
<1>1. Tails(buf) \subseteq 1..Len(buf)
  BY DEF Tails
<1>2. QED
  BY <1>1 DEF LinesOf

-----------------------------------------------------------------------------
(* The lists of files.                                                     *)

\* The pieces x[1], ..., x[n] joined, the last one in front (among in OfDay).
Joined(g, x, n) == g = [i \in 0..n |-> IF i = 0 THEN <<>> ELSE x[i] \o g[i - 1]]

LEMMA JoinOneMore ==
  ASSUME NEW g, NEW x, NEW n \in Nat, Joined(g, x, n)
  PROVE  \E h : Joined(h, x, n + 1)
<1>1. PICK h : h = [i \in 0..(n + 1) |-> IF i = 0 THEN <<>> ELSE x[i] \o g[i - 1]]
  OBVIOUS
<1>2. g = [i \in 0..n |-> IF i = 0 THEN <<>> ELSE x[i] \o g[i - 1]]
  BY Zenon DEF Joined
<1>3. \A i \in 0..n : h[i] = g[i]
  <2> SUFFICES ASSUME NEW i \in 0..n PROVE h[i] = g[i]
    OBVIOUS
  <2>1. i \in 0..(n + 1)
    OBVIOUS
  <2>2. h[i] = IF i = 0 THEN <<>> ELSE x[i] \o g[i - 1]
    BY <1>1, <2>1
  <2>3. g[i] = IF i = 0 THEN <<>> ELSE x[i] \o g[i - 1]
    BY <1>2
  <2>4. QED
    BY <2>2, <2>3
<1>4. \A i \in 0..(n + 1) : i # 0 => i - 1 \in 0..n
  OBVIOUS
<1>5. \A i \in 0..(n + 1) : (IF i = 0 THEN <<>> ELSE x[i] \o g[i - 1])
                             = (IF i = 0 THEN <<>> ELSE x[i] \o h[i - 1])
  BY <1>3, <1>4
<1>6. h = [i \in 0..(n + 1) |-> IF i = 0 THEN <<>> ELSE x[i] \o h[i - 1]]
  BY <1>1, <1>5, Zenon
<1>7. QED
  BY <1>6 DEF Joined

LEMMA JoinExists ==
  ASSUME NEW x, NEW n \in Nat
  PROVE  \E g : Joined(g, x, n)
<1> DEFINE Missing == {m \in Nat : ~\E g : Joined(g, x, m)}
<1>1. Missing \subseteq Nat
  OBVIOUS
<1>2. SUFFICES ASSUME Missing # {} PROVE FALSE
  OBVIOUS
<1>3. PICK m \in Missing : \A k \in Missing : m <= k
  <2> HIDE DEF Missing
  <2>1. QED
    BY <1>1, <1>2, Smallest
<1>4. m \in Nat /\ ~\E g : Joined(g, x, m)
  OBVIOUS
<1>5. CASE m = 0
  <2>1. PICK g : g = [i \in 0..0 |-> <<>>]
    OBVIOUS
  <2>2. \A i \in 0..0 : (IF i = 0 THEN <<>> ELSE x[i] \o g[i - 1]) = <<>>
    OBVIOUS
  <2>3. g = [i \in 0..0 |-> IF i = 0 THEN <<>> ELSE x[i] \o g[i - 1]]
    BY <2>1, <2>2, Zenon
  <2>4. QED
    BY <1>4, <1>5, <2>3 DEF Joined
<1>6. CASE m # 0
  <2>1. PICK k \in Nat : m = k + 1
    BY <1>4, <1>6
  <2>2. k \notin Missing
    BY <1>3, <2>1
  <2>3. \E g : Joined(g, x, k)
    BY <2>1, <2>2
  <2>4. QED
    BY <1>4, <2>1, <2>3, JoinOneMore
<1>7. QED
  BY <1>5, <1>6

LEMMA JoinTyped ==
  ASSUME NEW S, NEW n \in Nat, NEW x, \A i \in 1..n : x[i] \in Seq(S), NEW g, Joined(g, x, n)
  PROVE  g[n] \in Seq(S)
<1> DEFINE Untyped == {m \in Nat : m <= n /\ g[m] \notin Seq(S)}
<1>1. Untyped \subseteq Nat
  OBVIOUS
<1>2. \A i \in 0..n : g[i] = IF i = 0 THEN <<>> ELSE x[i] \o g[i - 1]
  BY DEF Joined
<1>2a. g[0] = <<>>
  BY <1>2
<1>2b. \A k \in Nat : k + 1 <= n => g[k + 1] = x[k + 1] \o g[k]
  <2> SUFFICES ASSUME NEW k \in Nat, k + 1 <= n PROVE g[k + 1] = x[k + 1] \o g[k]
    OBVIOUS
  <2>1. k + 1 \in 0..n /\ k + 1 # 0 /\ (k + 1) - 1 = k
    OBVIOUS
  <2>2. g[k + 1] = IF k + 1 = 0 THEN <<>> ELSE x[k + 1] \o g[(k + 1) - 1]
    BY <1>2, <2>1, Zenon
  <2>3. QED
    BY <2>1, <2>2, Zenon
<1>2c. <<>> \in Seq(S)
  OBVIOUS
<1>3. SUFFICES ASSUME Untyped # {} PROVE FALSE
  OBVIOUS
<1>4. PICK m \in Untyped : \A k \in Untyped : m <= k
  <2> HIDE DEF Untyped
  <2>1. QED
    BY <1>1, <1>3, Smallest
<1>5. m \in 0..n /\ g[m] \notin Seq(S)
  OBVIOUS
<1>6. CASE m = 0
  BY <1>2a, <1>2c, <1>5, <1>6, Zenon
<1>7. CASE m # 0
  <2>1. PICK k \in Nat : m = k + 1
    BY <1>5, <1>7
  <2>2. k \notin Untyped /\ k \in 0..n /\ m \in 1..n
    BY <1>4, <1>5, <2>1
  <2>3. g[k] \in Seq(S) /\ x[m] \in Seq(S)
    BY <2>2
  <2>4. g[m] = x[m] \o g[k]
    BY <1>2b, <1>5, <2>1
  <2>5. QED
    BY <1>5, <2>3, <2>4
<1>8. QED
  BY <1>6, <1>7

\* A day's files are among the existing ones.
LEMMA OfDayIs ==
  ASSUME NEW S, mtimes \in Seq(S), NEW d
  PROVE  OfDay(d) \in Seq(S)
<1>1. Len(mtimes) \in Nat /\ \A i \in 1..Len(mtimes) : mtimes[i] \in S
  OBVIOUS
<1>2. PICK x : x = [i \in 1..Len(mtimes) |-> IF DayOf[mtimes[i]] = d THEN <<mtimes[i]>> ELSE <<>>]
  OBVIOUS
<1>3. \A i \in 1..Len(mtimes) : x[i] = IF DayOf[mtimes[i]] = d THEN <<mtimes[i]>> ELSE <<>>
  BY <1>2
<1>4. \A i \in 1..Len(mtimes) : x[i] \in Seq(S)
  <2> SUFFICES ASSUME NEW i \in 1..Len(mtimes) PROVE x[i] \in Seq(S)
    OBVIOUS
  <2>1. <<mtimes[i]>> \in Seq(S) /\ <<>> \in Seq(S)
    BY <1>1
  <2>2. QED
    BY <1>3, <2>1, Zenon
<1>5. PICK among : among = CHOOSE g : Joined(g, x, Len(mtimes))
  OBVIOUS
<1>6. Joined(among, x, Len(mtimes))
  BY <1>1, <1>5, JoinExists
<1>7. among[Len(mtimes)] \in Seq(S)
  BY <1>1, <1>4, <1>6, JoinTyped
<1>8. \A g : \A i \in 0..Len(mtimes) :
        (IF i = 0 THEN <<>> ELSE x[i] \o g[i - 1])
          = (IF i = 0 THEN <<>>
             ELSE (IF DayOf[mtimes[i]] = d THEN <<mtimes[i]>> ELSE <<>>) \o g[i - 1])
  <2>1. \A i \in 0..Len(mtimes) : i # 0 => i \in 1..Len(mtimes)
    BY <1>1
  <2>2. QED
    BY <1>3, <2>1, Zenon
<1>9. \A g : Joined(g, x, Len(mtimes)) <=>
         g = [i \in 0..Len(mtimes) |->
                IF i = 0 THEN <<>>
                ELSE (IF DayOf[mtimes[i]] = d THEN <<mtimes[i]>> ELSE <<>>) \o g[i - 1]]
  <2> SUFFICES ASSUME NEW g
               PROVE  [i \in 0..Len(mtimes) |-> IF i = 0 THEN <<>> ELSE x[i] \o g[i - 1]]
                       = [i \in 0..Len(mtimes) |->
                           IF i = 0 THEN <<>>
                           ELSE (IF DayOf[mtimes[i]] = d THEN <<mtimes[i]>> ELSE <<>>) \o g[i - 1]]
    BY DEF Joined
  <2>1. QED
    BY <1>8, Zenon
<1>10. OfDay(d) = among[Len(mtimes)]
  <2>1. OfDay(d) = (CHOOSE g : g = [i \in 0..Len(mtimes) |->
                IF i = 0 THEN <<>>
                ELSE (IF DayOf[mtimes[i]] = d THEN <<mtimes[i]>> ELSE <<>>) \o g[i - 1]])[Len(mtimes)]
    BY DEF OfDay
  <2>2. (CHOOSE g : Joined(g, x, Len(mtimes)))
          = (CHOOSE g : g = [i \in 0..Len(mtimes) |->
                IF i = 0 THEN <<>>
                ELSE (IF DayOf[mtimes[i]] = d THEN <<mtimes[i]>> ELSE <<>>) \o g[i - 1]])
    BY <1>9, Zenon
  <2>3. QED
    BY <1>5, <2>1, <2>2, Zenon
<1>11. QED
  BY <1>7, <1>10

\* No file's day is later than the last one's.
LEMMA LatestDay ==
  /\ MaxFiles \in Nat /\ DayOf \in [Files -> Nat]
  /\ \A f \in Files : DayOf[f] <= DayOf[MaxFiles]
<1>1. MaxFiles \in Nat \ {0} /\ DayOf \in [Files -> Nat]
      /\ \A f \in 1..(MaxFiles - 1) : DayOf[f] <= DayOf[f + 1]
  BY FileTailAssumption DEF Files
<1> DEFINE Above == {f \in Files : ~(DayOf[f] <= DayOf[MaxFiles])}
<1>2. Above \subseteq Nat /\ \A f \in Above : f <= MaxFiles
  BY <1>1 DEF Files
<1>3. SUFFICES ASSUME Above # {} PROVE FALSE
  BY <1>1
<1>4. PICK m \in Above : \A f \in Above : f <= m
  <2> HIDE DEF Above
  <2>1. QED
    BY <1>1, <1>2, <1>3, MaxIs
<1>5. m \in 1..MaxFiles /\ m # MaxFiles
  BY <1>1 DEF Files
<1>6. m + 1 \in Files /\ m + 1 \notin Above /\ m \in 1..(MaxFiles - 1)
  BY <1>1, <1>2, <1>4, <1>5 DEF Files
<1>7. DayOf[m] <= DayOf[m + 1] /\ DayOf[m + 1] <= DayOf[MaxFiles]
  BY <1>1, <1>6
<1>8. DayOf[m] \in Nat /\ DayOf[m + 1] \in Nat /\ DayOf[MaxFiles] \in Nat
  BY <1>1, <1>5, <1>6 DEF Files
<1>9. QED
  BY <1>7, <1>8

\* The last-written file of the latest day is one of the existing files.
LEMMA LatestFileIs ==
  ASSUME NEW S, S \subseteq Files, mtimes \in Seq(S), mtimes # <<>>
  PROVE  find_latest_file \in S
<1>1. Len(mtimes) \in Nat /\ DOMAIN mtimes = 1..Len(mtimes) /\ 1 \in DOMAIN mtimes
      /\ \A i \in DOMAIN mtimes : mtimes[i] \in S
  OBVIOUS
<1> DEFINE days == {DayOf[f] : f \in Range(mtimes)}
           last == {i \in DOMAIN mtimes : DayOf[mtimes[i]] = Max(days)}
<1>2. \A f \in Range(mtimes) : f \in Files
  BY <1>1 DEF Range
<1>3. days \subseteq Nat /\ days # {} /\ \A d \in days : d <= DayOf[MaxFiles]
  <2>1. mtimes[1] \in Range(mtimes)
    BY <1>1 DEF Range
  <2>2. QED
    BY <1>2, <2>1, LatestDay
<1>4. DayOf[MaxFiles] \in Nat
  BY FileTailAssumption
<1>5. Max(days) \in days
  <2> HIDE DEF days
  <2>1. QED
    BY <1>3, <1>4, MaxIs
<1>6. last # {}
  <2>1. PICK f \in Range(mtimes) : DayOf[f] = Max(days)
    BY <1>5
  <2>2. PICK i \in DOMAIN mtimes : mtimes[i] = f
    BY DEF Range
  <2>3. QED
    BY <2>1, <2>2
<1>7. last \subseteq Nat /\ \A i \in last : i <= Len(mtimes)
  BY <1>1
<1>8. Max(last) \in last
  <2> HIDE DEF last
  <2>1. QED
    BY <1>1, <1>6, <1>7, MaxIs
<1>9. find_latest_file = mtimes[Max(last)]
  BY DEF find_latest_file
<1>10. Max(last) \in DOMAIN mtimes
  BY <1>8
<1>11. QED
  BY <1>1, <1>9, <1>10

LEMMA AllFilesIs ==
  ASSUME NEW S, mtimes \in Seq(S)
  PROVE  all_files_newest_first \in Seq(S)
<1>1. \A d : OfDay(d) \in Seq(S)
  BY OfDayIs
<1>2. \A d, e : OfDay(d) \o OfDay(e) \in Seq(S)
  BY <1>1
<1>3. <<>> \in Seq(S)
  OBVIOUS
<1>4. QED
  BY <1>1, <1>2, <1>3, Zenon DEF all_files_newest_first

\* The candidates begin with the newest file and are no more than the cap.
LEMMA CandidatesIs ==
  ASSUME NEW S, NEW files \in Seq(S), files # <<>>
  PROVE  /\ Candidates(files) \in Seq(S)
         /\ Len(Candidates(files)) \in 1..MAX_BACKFILL_FILES
         /\ Candidates(files)[1] = files[1]
<1>1. MAX_BACKFILL_FILES \in Nat \ {0}
  BY FileTailAssumption
<1>2. Len(files) \in Nat \ {0} /\ DOMAIN files = 1..Len(files)
  OBVIOUS
<1> DEFINE stops == {i \in DOMAIN files : first_block_number(files[i]) <= min_height}
<1>3. PICK n : n = IF stops = {} THEN Len(files) ELSE Min(stops)
  OBVIOUS
<1>4. n \in 1..Len(files)
  <2>1. CASE stops = {}
    BY <1>2, <1>3, <2>1
  <2>2. CASE stops # {}
    <3>1. stops \subseteq Nat /\ stops \subseteq 1..Len(files)
      BY <1>2
    <3> HIDE DEF stops
    <3>2. Min(stops) \in stops
      BY <2>2, <3>1, MinIs
    <3>3. QED
      BY <1>3, <2>2, <3>1, <3>2
  <2>3. QED
    BY <2>1, <2>2
<1>5. PICK k : k = IF n > MAX_BACKFILL_FILES THEN MAX_BACKFILL_FILES ELSE n
  OBVIOUS
<1>6. k \in 1..MAX_BACKFILL_FILES /\ k \in 1..Len(files)
  BY <1>1, <1>2, <1>4, <1>5
<1>7. Candidates(files) = SubSeq(files, 1, k)
  BY <1>3, <1>5, Zenon DEF Candidates
<1>8. /\ SubSeq(files, 1, k) \in Seq(S) /\ Len(SubSeq(files, 1, k)) = k
      /\ SubSeq(files, 1, k)[1] = files[1]
  BY <1>2, <1>6
<1>9. QED
  BY <1>6, <1>7, <1>8, Zenon

\* The same the other way round: the oldest first, the newest last.
LEMMA ReverseIs ==
  ASSUME NEW S, NEW s \in Seq(S), s # <<>>
  PROVE  /\ Reverse(s) \in Seq(S)
         /\ Len(Reverse(s)) = Len(s)
         /\ Reverse(s)[Len(s)] = s[1]
<1>1. Len(s) \in Nat \ {0} /\ \A i \in 1..Len(s) : s[i] \in S /\ (Len(s) - i) + 1 \in 1..Len(s)
  OBVIOUS
<1>2. PICK r : r = [i \in 1..Len(s) |-> s[(Len(s) - i) + 1]]
  OBVIOUS
<1>3. r \in [1..Len(s) -> S] /\ r[Len(s)] = s[1]
  BY <1>1, <1>2
<1>4. r \in Seq(S) /\ Len(r) = Len(s)
  BY <1>1, <1>3
<1>5. Reverse(s) = r
  BY <1>2 DEF Reverse
<1>6. QED
  BY <1>3, <1>4, <1>5

-----------------------------------------------------------------------------
(* The invariant.                                                          *)

\* What the node leaves on disk: units of lines that were begun, and a list of the
\* existing files that has each of them once.
FilesOK ==
  /\ disk \in [Files -> Seq(Units)]
  /\ \A f \in Files : \A i \in 1..Len(disk[f]) : disk[f][i].h \in 1..Len(lines)
  /\ lines \in Seq({"good", "long", "torn"}) /\ Len(lines) <= MaxLines
  /\ mtimes \in Seq(1..Len(mtimes)) /\ Len(mtimes) <= MaxFiles
  /\ \A f \in 1..Len(mtimes) : \E i \in DOMAIN mtimes : mtimes[i] = f
  /\ IsInjective(mtimes)
  /\ late \in BOOLEAN

\* p is what file d has just before pos, and no line ends in it.
Precedes(p, d, pos) ==
  /\ pos \in 0..Len(d)
  /\ Len(p) <= pos
  /\ \A i \in 1..Len(p) : p[i] = d[(pos - Len(p)) + i] /\ p[i].at # "tail"

\* The reader's place.
ReaderOK ==
  /\ current_path \in 0..Len(mtimes)
  /\ partial_line \in Seq(Units) /\ Len(partial_line) <= MAX_PARTIAL
  /\ current_path = 0 => file_position = 0 /\ partial_line = <<>>
  /\ current_path # 0 => Precedes(partial_line, disk[current_path], file_position)
  /\ sent \subseteq 1..Len(lines)

ProgramPoint == {"watch", "list", "scan", "barrier", "poll", "read", "checks",
                 "drainThenRead", "drainThenPoll"}

\* Where the thread stands: the file that it switches to, the files still to be
\* backfilled and the notifications queued are existing ones.
TaskOK ==
  /\ pc \in ProgramPoint
  /\ queue \in Seq([kind : {"create", "modify"}, file : 1..Len(mtimes)])
  /\ pc \in {"scan", "drainThenRead", "drainThenPoll"} => target \in 1..Len(mtimes)
  /\ included \in Seq(Files) /\ Len(included) <= MAX_BACKFILL_FILES
  /\ pc = "scan" => /\ included # <<>> /\ included[Len(included)] = target
                    /\ recorded_len \in 0..Len(disk[target])
  /\ rotated_from \in [file : 0..MaxFiles, mark : Nat]
  /\ min_height \in Floors
  /\ desynced \in BOOLEAN /\ flagged \in BOOLEAN /\ graceUp \in BOOLEAN /\ due \in BOOLEAN

FileInv == FilesOK /\ ReaderOK /\ TaskOK

-----------------------------------------------------------------------------
(* The node's steps.                                                       *)

\* d is the beginning of e.
Begins(d, e) == Len(d) <= Len(e) /\ \A i \in 1..Len(d) : e[i] = d[i]

LEMMA PrecedesStays ==
  ASSUME NEW p \in Seq(Units), NEW d \in Seq(Units), NEW e \in Seq(Units), NEW pos,
         Precedes(p, d, pos), Begins(d, e)
  PROVE  Precedes(p, e, pos)
<1>1. Len(p) \in Nat /\ Len(d) \in Nat /\ Len(e) \in Nat /\ pos \in Nat /\ pos <= Len(d) /\ Len(p) <= pos
  BY DEF Precedes
<1>2. pos \in 0..Len(e)
  BY <1>1 DEF Begins
<1>3. ASSUME NEW i \in 1..Len(p) PROVE p[i] = e[(pos - Len(p)) + i] /\ p[i].at # "tail"
  <2>1. PICK k : k = (pos - Len(p)) + i
    OBVIOUS
  <2>2. k \in 1..Len(d)
    BY <1>1, <2>1
  <2>3. p[i] = d[k] /\ p[i].at # "tail"
    BY <2>1 DEF Precedes
  <2>4. e[k] = d[k]
    BY <2>2 DEF Begins
  <2>5. QED
    BY <2>1, <2>3, <2>4
<1>4. QED
  BY <1>1, <1>2, <1>3 DEF Precedes

\* What the node does leaves the reader's place and the thread's state as they are.
Grown ==
  /\ Len(mtimes) <= Len(mtimes')
  /\ Len(lines) <= Len(lines')
  /\ \A f \in Files : Begins(disk[f], disk'[f])

\* Nothing that the thread itself decides changes.
ThreadRests ==
  UNCHANGED <<readerVars, flagVars, rotated_from, graceUp, due, pc, target, scanVars, sent, before>>

LEMMA NodeKeepsReader ==
  ASSUME FileInv, FilesOK', Grown, UNCHANGED <<readerVars, sent>>
  PROVE  ReaderOK'
<1>1. /\ current_path' = current_path /\ file_position' = file_position
      /\ partial_line' = partial_line /\ sent' = sent
  BY DEF readerVars
<1>2. /\ Len(mtimes) \in Nat /\ Len(mtimes') \in Nat /\ Len(mtimes) <= MaxFiles /\ MaxFiles \in Nat
      /\ Len(lines) \in Nat /\ Len(lines') \in Nat
      /\ Len(mtimes) <= Len(mtimes') /\ Len(lines) <= Len(lines')
  BY FileTailAssumption DEF FileInv, FilesOK, Grown
<1>3. current_path \in 0..Len(mtimes) /\ current_path' \in 0..Len(mtimes')
  BY <1>1, <1>2 DEF FileInv, ReaderOK
<1>4. sent' \subseteq 1..Len(lines')
  BY <1>1, <1>2 DEF FileInv, ReaderOK
<1>5. CASE current_path = 0
  BY <1>1, <1>3, <1>4, <1>5 DEF FileInv, ReaderOK
<1>6. CASE current_path # 0
  <2>1. current_path \in Files
    BY <1>2, <1>3, <1>6 DEF Files
  <2>2. /\ disk[current_path] \in Seq(Units) /\ disk'[current_path] \in Seq(Units)
        /\ Begins(disk[current_path], disk'[current_path])
    BY <2>1 DEF FileInv, FilesOK, Grown
  <2>3. partial_line \in Seq(Units) /\ Precedes(partial_line, disk[current_path], file_position)
    BY <1>6 DEF FileInv, ReaderOK
  <2>4. Precedes(partial_line, disk'[current_path], file_position)
    BY <2>2, <2>3, PrecedesStays
  <2>5. QED
    BY <1>1, <1>3, <1>4, <1>6, <2>4 DEF FileInv, ReaderOK
<1>7. QED
  BY <1>5, <1>6

LEMMA NodeKeepsTask ==
  ASSUME FileInv, FilesOK', Grown, ThreadRests,
         queue' \in Seq([kind : {"create", "modify"}, file : 1..Len(mtimes')])
  PROVE  TaskOK'
<1>1. /\ pc' = pc /\ target' = target /\ included' = included /\ recorded_len' = recorded_len
      /\ rotated_from' = rotated_from /\ min_height' = min_height /\ desynced' = desynced
      /\ flagged' = flagged /\ graceUp' = graceUp /\ due' = due
  BY DEF ThreadRests, flagVars, scanVars
<1>2. /\ Len(mtimes) \in Nat /\ Len(mtimes') \in Nat /\ Len(mtimes) <= MaxFiles /\ MaxFiles \in Nat
      /\ Len(mtimes) <= Len(mtimes')
  BY FileTailAssumption DEF FileInv, FilesOK, Grown
<1>3. pc \in {"scan", "drainThenRead", "drainThenPoll"} => target \in 1..Len(mtimes) /\ target \in 1..Len(mtimes')
  BY <1>2 DEF FileInv, TaskOK
<1>4. pc = "scan" => recorded_len \in 0..Len(disk'[target])
  <2> SUFFICES ASSUME pc = "scan" PROVE recorded_len \in 0..Len(disk'[target])
    OBVIOUS
  <2>1. target \in Files
    BY <1>2, <1>3 DEF Files
  <2>2. /\ Len(disk[target]) \in Nat /\ Len(disk'[target]) \in Nat
        /\ Len(disk[target]) <= Len(disk'[target])
    BY <2>1 DEF FileInv, FilesOK, Grown, Begins
  <2>3. recorded_len \in 0..Len(disk[target])
    BY DEF FileInv, TaskOK
  <2>4. QED
    BY <2>2, <2>3
<1>5. QED
  BY <1>1, <1>3, <1>4 DEF FileInv, TaskOK

\* A stretch of a sequence.
LEMMA SliceIs ==
  ASSUME NEW S, NEW s \in Seq(S), NEW m \in Nat, NEW n \in Nat, 1 <= m, m <= n + 1, n <= Len(s)
  PROVE  /\ SubSeq(s, m, n) \in Seq(S) /\ Len(SubSeq(s, m, n)) = (n - m) + 1
         /\ \A j \in 1..((n - m) + 1) : SubSeq(s, m, n)[j] = s[(m - 1) + j]
<1>1. \A i \in m..n : i \in 1..Len(s) /\ s[i] \in S
  OBVIOUS
<1>2. SubSeq(s, m, n) \in Seq(S)
  BY <1>1
<1>3. Len(SubSeq(s, m, n)) = (n - m) + 1
  OBVIOUS
<1>4. \A j \in 1..((n - m) + 1) : SubSeq(s, m, n)[j] = s[(m - 1) + j]
  OBVIOUS
<1>5. QED
  BY <1>2, <1>3, <1>4

\* Writing to a file makes it the last in the list and loses none.
LEMMA TouchedIs ==
  ASSUME FilesOK, NEW f \in 1..Len(mtimes)
  PROVE  /\ Touched(f) \in Seq(1..Len(mtimes)) /\ Len(Touched(f)) = Len(mtimes)
         /\ \A g \in 1..Len(mtimes) : \E i \in DOMAIN Touched(f) : Touched(f)[i] = g
         /\ IsInjective(Touched(f))
<1>1. PICK n : n = Len(mtimes)
  OBVIOUS
<1>2. n \in Nat /\ DOMAIN mtimes = 1..n /\ f \in 1..n
  BY <1>1 DEF FilesOK
<1>3. PICK i : i = CHOOSE k \in DOMAIN mtimes : mtimes[k] = f
  OBVIOUS
<1>4. i \in 1..n /\ mtimes[i] = f
  BY <1>2, <1>3 DEF FilesOK
<1>5. /\ mtimes \in Seq(1..n) /\ Len(mtimes) = n
      /\ \A g \in 1..n : \E j \in 1..n : mtimes[j] = g
      /\ \A j, k \in 1..n : mtimes[j] = mtimes[k] => j = k
  BY <1>1, <1>2 DEF FilesOK, IsInjective
<1>6. PICK t : t = Append(SubSeq(mtimes, 1, i - 1) \o SubSeq(mtimes, i + 1, n), f)
  OBVIOUS
<1>7. Touched(f) = t
  BY <1>1, <1>3, <1>6 DEF Touched, RemoveAt
<1>8. PICK a : a = SubSeq(mtimes, 1, i - 1)
  OBVIOUS
<1>9. PICK b : b = SubSeq(mtimes, i + 1, n)
  OBVIOUS
<1>10. a \in Seq(1..n) /\ Len(a) = i - 1 /\ \A j \in 1..(i - 1) : a[j] = mtimes[j]
  <2>1. PICK k : k = i - 1
    OBVIOUS
  <2>2. PICK m : m = 1
    OBVIOUS
  <2>3. m \in Nat /\ k \in Nat /\ 1 <= m /\ m <= k + 1 /\ k <= Len(mtimes)
    BY <1>2, <1>4, <1>5, <2>1, <2>2
  <2>4. PICK S : S = 1..n
    OBVIOUS
  <2>5. /\ SubSeq(mtimes, m, k) \in Seq(S) /\ Len(SubSeq(mtimes, m, k)) = (k - m) + 1
        /\ \A j \in 1..((k - m) + 1) : SubSeq(mtimes, m, k)[j] = mtimes[(m - 1) + j]
    <3>1. mtimes \in Seq(S)
      BY <1>5, <2>4
    <3>2. QED
      BY <2>3, <3>1, SliceIs, Zenon
  <2>6. (k - m) + 1 = k /\ \A j \in 1..k : (m - 1) + j = j
    BY <2>2, <2>3
  <2>7. QED
    BY <1>8, <2>1, <2>2, <2>4, <2>5, <2>6
<1>11. b \in Seq(1..n) /\ Len(b) = n - i /\ \A j \in 1..(n - i) : b[j] = mtimes[i + j]
  <2>1. PICK m : m = i + 1
    OBVIOUS
  <2>2. m \in Nat /\ n \in Nat /\ 1 <= m /\ m <= n + 1 /\ n <= Len(mtimes)
    BY <1>2, <1>4, <1>5, <2>1
  <2>3. PICK S : S = 1..n
    OBVIOUS
  <2>4. /\ SubSeq(mtimes, m, n) \in Seq(S) /\ Len(SubSeq(mtimes, m, n)) = (n - m) + 1
        /\ \A j \in 1..((n - m) + 1) : SubSeq(mtimes, m, n)[j] = mtimes[(m - 1) + j]
    <3>1. mtimes \in Seq(S)
      BY <1>5, <2>3
    <3>2. QED
      BY <2>2, <3>1, SliceIs, Zenon
  <2>5. (n - m) + 1 = n - i /\ m - 1 = i
    BY <1>2, <1>4, <2>1
  <2>6. QED
    BY <1>9, <2>1, <2>3, <2>4, <2>5
<1>12. PICK c : c = a \o b
  OBVIOUS
<1>13. /\ c \in Seq(1..n) /\ Len(c) = n - 1
       /\ \A j \in 1..(i - 1) : c[j] = mtimes[j]
       /\ \A j \in i..(n - 1) : c[j] = mtimes[j + 1]
  <2>1. c \in Seq(1..n) /\ Len(c) = n - 1
    BY <1>2, <1>4, <1>10, <1>11, <1>12
  <2>2. \A j \in 1..(i - 1) : c[j] = mtimes[j]
    BY <1>2, <1>4, <1>10, <1>11, <1>12
  <2>3. ASSUME NEW j \in i..(n - 1) PROVE c[j] = mtimes[j + 1]
    <3>1. PICK k : k = j - (i - 1)
      OBVIOUS
    <3>2. k \in 1..(n - i) /\ (i - 1) + k = j /\ i + k = j + 1
      BY <1>2, <1>4, <3>1
    <3>3. c[(i - 1) + k] = b[k]
      BY <1>2, <1>4, <1>10, <1>11, <1>12, <3>2
    <3>4. QED
      BY <1>11, <3>2, <3>3
  <2>4. QED
    BY <2>1, <2>2, <2>3
<1>14. t = Append(c, f)
  BY <1>6, <1>8, <1>9, <1>12
<1>15. /\ t \in Seq(1..n) /\ Len(t) = n /\ DOMAIN t = 1..n /\ t[n] = f
       /\ \A j \in 1..(n - 1) : t[j] = c[j]
  BY <1>2, <1>13, <1>14
\* the place a place of the old list moves to
<1> DEFINE To(j) == IF j < i THEN j ELSE IF j = i THEN n ELSE j - 1
           From(j) == IF j < i THEN j ELSE IF j = n THEN i ELSE j + 1
<1>16. ASSUME NEW j \in 1..n PROVE To(j) \in 1..n /\ t[To(j)] = mtimes[j]
  <2>1. CASE j < i
    BY <1>2, <1>4, <1>13, <1>15, <2>1
  <2>2. CASE j = i
    BY <1>2, <1>4, <1>15, <2>2
  <2>3. CASE j > i
    <3>1. j - 1 \in i..(n - 1) /\ (j - 1) + 1 = j /\ j - 1 \in 1..(n - 1)
      BY <1>2, <1>4, <2>3
    <3>2. t[j - 1] = c[j - 1] /\ c[j - 1] = mtimes[(j - 1) + 1]
      BY <1>13, <1>15, <3>1
    <3>3. To(j) = j - 1
      <4>1. ~(j < i) /\ j # i
        BY <1>2, <1>4, <2>3
      <4>2. QED
        BY <4>1
    <3>4. QED
      BY <1>2, <3>1, <3>2, <3>3
  <2>4. QED
    BY <1>4, <2>1, <2>2, <2>3
<1>17. \A j \in 1..n : From(j) \in 1..n /\ To(From(j)) = j
  BY <1>2, <1>4
<1> HIDE DEF To, From
<1>18. \A g \in 1..n : \E j \in DOMAIN t : t[j] = g
  BY <1>5, <1>15, <1>16
<1>19. \A j \in 1..n : t[j] = mtimes[From(j)]
  BY <1>16, <1>17
<1>20. IsInjective(t)
  <2> SUFFICES ASSUME NEW j \in 1..n, NEW k \in 1..n, t[j] = t[k] PROVE j = k
    BY <1>15 DEF IsInjective
  <2>1. mtimes[From(j)] = mtimes[From(k)] /\ From(j) \in 1..n /\ From(k) \in 1..n
    BY <1>17, <1>19
  <2>2. From(j) = From(k)
    BY <1>5, <2>1
  <2>3. QED
    BY <1>17, <2>2
<1>21. QED
  BY <1>1, <1>7, <1>15, <1>18, <1>20

LEMMA NotifyIs ==
  ASSUME NEW n \in Nat, queue \in Seq([kind : {"create", "modify"}, file : 1..n]),
         NEW kind \in {"create", "modify"}, NEW f \in 1..n
  PROVE  Notify(kind, f) \in Seq([kind : {"create", "modify"}, file : 1..n])
<1>1. [kind |-> kind, file |-> f] \in [kind : {"create", "modify"}, file : 1..n]
  OBVIOUS
<1>2. Append(queue, [kind |-> kind, file |-> f]) \in Seq([kind : {"create", "modify"}, file : 1..n])
  BY <1>1
<1>3. QED
  BY <1>2 DEF Notify

\* A unit is appended to file f.
LEMMA UnitWritten ==
  ASSUME FilesOK, NEW f \in Files, NEW u \in Units,
         lines' \in Seq({"good", "long", "torn"}), Len(lines) <= Len(lines'), Len(lines') <= MaxLines,
         u.h \in 1..Len(lines'),
         disk' = [disk EXCEPT ![f] = Append(disk[f], u)]
  PROVE  /\ disk' \in [Files -> Seq(Units)]
         /\ \A g \in Files : \A i \in 1..Len(disk'[g]) : disk'[g][i].h \in 1..Len(lines')
         /\ \A g \in Files : Begins(disk[g], disk'[g])
<1>1. Len(lines) \in Nat /\ Len(lines') \in Nat
  BY DEF FilesOK
<1>2. \A g \in Files : disk[g] \in Seq(Units) /\ disk'[g] = (IF g = f THEN Append(disk[f], u) ELSE disk[g])
  BY DEF FilesOK
<1>3. Append(disk[f], u) \in Seq(Units)
  BY <1>2
<1>4. disk' \in [Files -> Seq(Units)]
  BY <1>3 DEF FilesOK
<1>5. \A g \in Files : \A i \in 1..Len(disk[g]) : disk[g][i].h \in 1..Len(lines')
  BY <1>1 DEF FilesOK
<1>6. PICK d : d = disk[f]
  OBVIOUS
<1>7. /\ d \in Seq(Units) /\ Len(Append(d, u)) = Len(d) + 1 /\ Append(d, u)[Len(d) + 1] = u
      /\ \A i \in 1..Len(d) : Append(d, u)[i] = d[i]
      /\ \A i \in 1..(Len(d) + 1) : i = Len(d) + 1 \/ i \in 1..Len(d)
  BY <1>2, <1>6
<1>8. \A i \in 1..Len(Append(d, u)) : Append(d, u)[i].h \in 1..Len(lines')
  BY <1>5, <1>6, <1>7
<1>9. Begins(d, Append(d, u)) /\ \A g \in Files : Begins(disk[g], disk[g])
  BY <1>2, <1>7 DEF Begins
<1>10. QED
  BY <1>2, <1>4, <1>5, <1>6, <1>8, <1>9

LEMMA WritesUnit ==
  ASSUME FilesOK, NEW f \in Files, Continue(f) \/ Begin(f)
  PROVE  /\ lines' \in Seq({"good", "long", "torn"}) /\ Len(lines) <= Len(lines') /\ Len(lines') <= MaxLines
         /\ disk' \in [Files -> Seq(Units)]
         /\ \A g \in Files : \A i \in 1..Len(disk'[g]) : disk'[g][i].h \in 1..Len(lines')
         /\ \A g \in Files : Begins(disk[g], disk'[g])
<1>1. /\ lines \in Seq({"good", "long", "torn"}) /\ Len(lines) \in Nat /\ Len(lines) <= MaxLines
      /\ MaxLines \in Nat /\ disk[f] \in Seq(Units)
      /\ \A i \in 1..Len(disk[f]) : disk[f][i].h \in 1..Len(lines)
  BY FileTailAssumption DEF FilesOK
<1>2. ASSUME Continue(f)
      PROVE  lines' = lines /\ \E u \in Units : /\ u.h \in 1..Len(lines)
                                                /\ disk' = [disk EXCEPT ![f] = Append(disk[f], u)]
  <2>1. PICK v : v = Last(disk[f])
    OBVIOUS
  <2>2. v.h \in 1..Len(lines)
    <3>1. disk[f] # <<>>
      BY <1>2 DEF Continue, Unfinished
    <3>2. Len(disk[f]) \in 1..Len(disk[f]) /\ v = disk[f][Len(disk[f])]
      BY <1>1, <2>1, <3>1 DEF Last
    <3>3. QED
      BY <1>1, <3>2
  <2>3. PICK at : at = IF lines[v.h] = "long" /\ v.at = "head" THEN "mid" ELSE "tail"
    OBVIOUS
  <2>4. PICK u : u = Unit(v.h, at)
    OBVIOUS
  <2>5. u \in Units /\ u.h \in 1..Len(lines)
    <3>1. at \in {"head", "mid", "tail"} /\ v.h \in 1..MaxLines
      BY <1>1, <2>2, <2>3
    <3>2. QED
      BY <2>2, <2>4, <3>1 DEF Unit, Units
  <2>6. disk' = [disk EXCEPT ![f] = Append(disk[f], u)]
    BY <1>2, <2>1, <2>3, <2>4, Zenon DEF Continue
  <2>7. QED
    BY <1>2, <2>5, <2>6 DEF Continue
<1>3. ASSUME Begin(f)
      PROVE  /\ lines' \in Seq({"good", "long", "torn"}) /\ Len(lines') = Len(lines) + 1
             /\ Len(lines) < MaxLines
             /\ \E u \in Units : /\ u.h \in 1..Len(lines')
                                 /\ disk' = [disk EXCEPT ![f] = Append(disk[f], u)]
  <2>1. PICK k \in Kinds : lines' = Append(lines, k)
    BY <1>3 DEF Begin
  <2>2. k \in {"good", "long", "torn"} /\ Len(lines) < MaxLines
    BY <1>3, FileTailAssumption DEF Begin
  <2>3. lines' \in Seq({"good", "long", "torn"}) /\ Len(lines') = Len(lines) + 1
    BY <1>1, <2>1, <2>2
  <2>4. PICK u : u = Unit(Len(lines) + 1, "head")
    OBVIOUS
  <2>5. u \in Units /\ u.h \in 1..Len(lines')
    <3>1. Len(lines) + 1 \in 1..MaxLines /\ Len(lines) + 1 \in 1..Len(lines')
      BY <1>1, <2>2, <2>3
    <3>2. QED
      BY <2>4, <3>1 DEF Unit, Units
  <2>6. disk' = [disk EXCEPT ![f] = Append(disk[f], u)]
    BY <1>3, <2>4, Zenon DEF Begin
  <2>7. QED
    BY <2>2, <2>3, <2>5, <2>6
<1>4. /\ lines' \in Seq({"good", "long", "torn"}) /\ Len(lines) <= Len(lines') /\ Len(lines') <= MaxLines
      /\ \E u \in Units : u.h \in 1..Len(lines') /\ disk' = [disk EXCEPT ![f] = Append(disk[f], u)]
  <2>1. CASE Continue(f)
    BY <1>1, <1>2, <2>1
  <2>2. CASE Begin(f)
    <3>1. Len(lines) + 1 <= MaxLines
      BY <1>1, <1>3, <2>2
    <3>2. QED
      BY <1>1, <1>3, <2>2, <3>1
  <2>3. QED
    BY <2>1, <2>2
<1>5. PICK u \in Units : u.h \in 1..Len(lines') /\ disk' = [disk EXCEPT ![f] = Append(disk[f], u)]
  BY <1>4
<1>6. QED
  BY <1>4, <1>5, UnitWritten

LEMMA NodeWriteKeeps ==
  ASSUME FileInv, NodeWrite
  PROVE  FileInv'
<1>1. FilesOK /\ ReaderOK /\ TaskOK
  BY DEF FileInv
<1>2. PICK f \in {newestFile, newestFile - 1} \cap Files :
         /\ Continue(f) \/ Begin(f)
         /\ mtimes' = Touched(f)
         /\ queue' = IF current_path = 0 THEN Notify("modify", f) ELSE queue
  BY DEF NodeWrite
<1>3. Len(mtimes) \in Nat /\ f \in Files /\ f \in 1..Len(mtimes)
  BY <1>1, <1>2 DEF FilesOK, newestFile, Files
<1>4. /\ lines' \in Seq({"good", "long", "torn"}) /\ Len(lines) <= Len(lines') /\ Len(lines') <= MaxLines
      /\ disk' \in [Files -> Seq(Units)]
      /\ \A g \in Files : \A i \in 1..Len(disk'[g]) : disk'[g][i].h \in 1..Len(lines')
      /\ \A g \in Files : Begins(disk[g], disk'[g])
  BY <1>1, <1>2, <1>3, WritesUnit
<1>5. /\ mtimes' \in Seq(1..Len(mtimes)) /\ Len(mtimes') = Len(mtimes)
      /\ \A g \in 1..Len(mtimes) : \E i \in DOMAIN mtimes' : mtimes'[i] = g
      /\ IsInjective(mtimes')
  BY <1>1, <1>2, <1>3, TouchedIs, Zenon
<1>6. FilesOK'
  <2>1. late' = late
    BY DEF NodeWrite
  <2>2. QED
    BY <1>1, <1>4, <1>5, <2>1 DEF FilesOK
<1>7. Grown
  BY <1>3, <1>4, <1>5 DEF Grown
<1>8. queue' \in Seq([kind : {"create", "modify"}, file : 1..Len(mtimes')])
  <2>1. queue \in Seq([kind : {"create", "modify"}, file : 1..Len(mtimes)])
    BY <1>1 DEF TaskOK
  <2>2. Notify("modify", f) \in Seq([kind : {"create", "modify"}, file : 1..Len(mtimes)])
    BY <1>3, <2>1, NotifyIs
  <2>3. QED
    BY <1>2, <1>5, <2>1, <2>2
<1>9. ThreadRests /\ UNCHANGED <<readerVars, sent>>
  BY DEF NodeWrite, ThreadRests
<1>10. QED
  BY <1>6, <1>7, <1>8, <1>9, NodeKeepsReader, NodeKeepsTask DEF FileInv

\* Nothing is written, but the list of files may change.
LEMMA NothingWritten ==
  ASSUME FilesOK, UNCHANGED <<disk, lines>>, Len(mtimes') \in Nat, Len(mtimes) <= Len(mtimes')
  PROVE  Grown
<1>1. \A f \in Files : Begins(disk[f], disk[f])
  BY DEF FilesOK, Begins
<1>2. disk' = disk /\ lines' = lines /\ Len(lines) \in Nat
  BY DEF FilesOK
<1>3. QED
  BY <1>1, <1>2 DEF Grown

LEMMA NodeWritesOnKeeps ==
  ASSUME FileInv, NodeWritesOn
  PROVE  FileInv'
<1>1. FilesOK /\ ReaderOK /\ TaskOK
  BY DEF FileInv
<1>2. Len(mtimes) \in Nat /\ newestFile \in 1..Len(mtimes)
  BY <1>1 DEF NodeWritesOn, FilesOK, newestFile
<1>3. /\ mtimes' \in Seq(1..Len(mtimes)) /\ Len(mtimes') = Len(mtimes)
      /\ \A g \in 1..Len(mtimes) : \E i \in DOMAIN mtimes' : mtimes'[i] = g
      /\ IsInjective(mtimes')
  <2>1. mtimes' = Touched(newestFile)
    BY DEF NodeWritesOn
  <2>2. QED
    BY <1>1, <1>2, <2>1, TouchedIs, Zenon
<1>4. UNCHANGED <<disk, lines, late, queue>>
  BY DEF NodeWritesOn
<1>5. FilesOK'
  BY <1>1, <1>3, <1>4 DEF FilesOK
<1>6. Grown
  BY <1>1, <1>2, <1>3, <1>4, NothingWritten
<1>7. queue' \in Seq([kind : {"create", "modify"}, file : 1..Len(mtimes')])
  BY <1>1, <1>3, <1>4 DEF TaskOK
<1>8. ThreadRests /\ UNCHANGED <<readerVars, sent>>
  BY DEF NodeWritesOn, ThreadRests
<1>9. QED
  BY <1>5, <1>6, <1>7, <1>8, NodeKeepsReader, NodeKeepsTask DEF FileInv

LEMMA NodeFinishesOldFileKeeps ==
  ASSUME FileInv, NodeFinishesOldFile
  PROVE  FileInv'
<1>1. FilesOK /\ ReaderOK /\ TaskOK
  BY DEF FileInv
<1>2. UNCHANGED <<disk, lines, mtimes, queue>> /\ late' = FALSE
  BY DEF NodeFinishesOldFile
<1>3. FilesOK'
  BY <1>1, <1>2 DEF FilesOK
<1>4. Grown
  <2>1. Len(mtimes) \in Nat
    BY <1>1 DEF FilesOK
  <2>2. QED
    BY <1>1, <1>2, <2>1, NothingWritten
<1>5. queue' \in Seq([kind : {"create", "modify"}, file : 1..Len(mtimes')])
  BY <1>1, <1>2 DEF TaskOK
<1>6. ThreadRests /\ UNCHANGED <<readerVars, sent>>
  BY DEF NodeFinishesOldFile, ThreadRests
<1>7. QED
  BY <1>3, <1>4, <1>5, <1>6, NodeKeepsReader, NodeKeepsTask DEF FileInv

LEMMA NodeRotateKeeps ==
  ASSUME FileInv, NodeRotate
  PROVE  FileInv'
<1>1. FilesOK /\ ReaderOK /\ TaskOK
  BY DEF FileInv
<1>2. PICK n : n = Len(mtimes)
  OBVIOUS
<1>3. n \in Nat /\ n < MaxFiles /\ MaxFiles \in Nat /\ mtimes \in Seq(1..n) /\ DOMAIN mtimes = 1..n
  BY <1>1, <1>2, FileTailAssumption DEF FilesOK, NodeRotate, newestFile
<1>4. mtimes' = Append(mtimes, n + 1)
  BY <1>2 DEF NodeRotate, newestFile
<1>5. /\ Len(mtimes') = n + 1 /\ DOMAIN mtimes' = 1..(n + 1) /\ mtimes'[n + 1] = n + 1
      /\ \A i \in 1..n : mtimes'[i] = mtimes[i] /\ mtimes[i] \in 1..n
      /\ \A i \in 1..(n + 1) : i = n + 1 \/ i \in 1..n
  BY <1>2, <1>3, <1>4
<1>6. mtimes' \in Seq(1..(n + 1))
  <2>1. mtimes \in Seq(1..(n + 1))
    BY <1>3
  <2>2. QED
    BY <1>3, <1>4, <2>1
<1>7. \A g \in 1..(n + 1) : \E i \in DOMAIN mtimes' : mtimes'[i] = g
  <2> SUFFICES ASSUME NEW g \in 1..(n + 1) PROVE \E i \in DOMAIN mtimes' : mtimes'[i] = g
    OBVIOUS
  <2>1. CASE g = n + 1
    BY <1>3, <1>5, <2>1
  <2>2. CASE g \in 1..n
    <3>1. PICK i \in 1..n : mtimes[i] = g
      BY <1>1, <1>2, <1>3, <2>2 DEF FilesOK
    <3>2. i \in 1..(n + 1)
      BY <1>3
    <3>3. QED
      BY <1>5, <3>1, <3>2
  <2>3. QED
    BY <1>5, <2>1, <2>2
<1>8. IsInjective(mtimes')
  <2>1. \A i, j \in 1..n : mtimes[i] = mtimes[j] => i = j
    BY <1>1, <1>3 DEF FilesOK, IsInjective
  <2>2. n + 1 \notin 1..n
    BY <1>3
  <2>3. QED
    BY <1>5, <2>1, <2>2 DEF IsInjective
<1>9. UNCHANGED <<disk, lines>> /\ late' \in BOOLEAN
  BY DEF NodeRotate
<1>10. FilesOK'
  BY <1>1, <1>3, <1>5, <1>6, <1>7, <1>8, <1>9 DEF FilesOK
<1>11. Grown
  BY <1>1, <1>2, <1>3, <1>5, <1>9, NothingWritten
<1>12. queue' \in Seq([kind : {"create", "modify"}, file : 1..Len(mtimes')])
  <2>1. queue \in Seq([kind : {"create", "modify"}, file : 1..(n + 1)])
    <3>1. PICK E : E = [kind : {"create", "modify"}, file : 1..n]
      OBVIOUS
    <3>2. PICK F : F = [kind : {"create", "modify"}, file : 1..(n + 1)]
      OBVIOUS
    <3>3. E \subseteq F
      BY <1>3, <3>1, <3>2
    <3>4. queue \in Seq(E)
      BY <1>1, <1>2, <3>1 DEF TaskOK
    <3>5. queue \in Seq(F)
      BY <3>3, <3>4
    <3>6. QED
      BY <3>2, <3>5
  <2>2. Notify("create", n + 1) \in Seq([kind : {"create", "modify"}, file : 1..(n + 1)])
    <3>1. n + 1 \in Nat /\ n + 1 \in 1..(n + 1)
      BY <1>3
    <3>2. QED
      BY <2>1, <3>1, NotifyIs
  <2>3. queue' = Notify("create", n + 1) \/ queue' = queue
    BY <1>2 DEF NodeRotate, newestFile
  <2>4. QED
    BY <1>5, <2>1, <2>2, <2>3
<1>13. ThreadRests /\ UNCHANGED <<readerVars, sent>>
  BY DEF NodeRotate, ThreadRests
<1>14. QED
  BY <1>10, <1>11, <1>12, <1>13, NodeKeepsReader, NodeKeepsTask DEF FileInv

\* Clocks.
LEMMA ClocksKeep ==
  ASSUME FileInv, GraceElapses \/ CheckComesRound
  PROVE  FileInv'
<1>1. /\ UNCHANGED <<nodeVars, readerVars, flagVars, rotated_from, queue, pc, target, scanVars, sent>>
      /\ graceUp' \in BOOLEAN /\ due' \in BOOLEAN
  BY DEF GraceElapses, CheckComesRound, FileInv, TaskOK
<1>2. FilesOK' /\ ReaderOK'
  BY <1>1 DEF FileInv, FilesOK, ReaderOK, nodeVars, readerVars
<1>3. TaskOK'
  BY <1>1 DEF FileInv, TaskOK, nodeVars, flagVars, scanVars
<1>4. QED
  BY <1>2, <1>3 DEF FileInv

-----------------------------------------------------------------------------
(* One read.                                                               *)

LEMMA JoinIs ==
  ASSUME NEW S, NEW f \in Seq(S), NEW g \in Seq(S)
  PROVE  /\ f \o g \in Seq(S)
         /\ Len(f \o g) = Len(f) + Len(g)
         /\ \A k \in 1..Len(f) : (f \o g)[k] = f[k]
         /\ \A k \in 1..Len(g) : (f \o g)[Len(f) + k] = g[k]
OBVIOUS

\* p is what d has up to pos.
EndsAt(p, d, pos) == \A i \in 1..Len(p) : p[i] = d[(pos - Len(p)) + i]

\* p ends at pos, where c begins, which goes on to m.
Adjoins(p, c, d, pos, m) ==
  /\ d \in Seq(Units) /\ p \in Seq(Units) /\ pos \in Nat /\ m \in Nat
  /\ pos <= m /\ m <= Len(d) /\ Len(p) <= pos
  /\ EndsAt(p, d, pos)
  /\ c = SubSeq(d, pos + 1, m)

\* What precedes pos, joined with what follows it up to m, precedes m.
LEMMA ReadOn ==
  ASSUME NEW p, NEW c, NEW d, NEW pos, NEW m, Adjoins(p, c, d, pos, m)
  PROVE  /\ c \in Seq(Units) /\ Len(c) = m - pos
         /\ p \o c \in Seq(Units) /\ Len(p \o c) = Len(p) + Len(c)
         /\ EndsAt(p \o c, d, m)
<1>1. /\ d \in Seq(Units) /\ p \in Seq(Units) /\ pos \in Nat /\ m \in Nat
      /\ pos <= m /\ m <= Len(d) /\ Len(p) <= pos /\ EndsAt(p, d, pos)
      /\ c = SubSeq(d, pos + 1, m) /\ Len(p) \in Nat /\ Len(d) \in Nat
  BY DEF Adjoins
<1>2. c \in Seq(Units) /\ Len(c) = m - pos /\ \A j \in 1..(m - pos) : c[j] = d[pos + j]
  <2>1. PICK k \in Nat : k = pos + 1
    BY <1>1
  <2>2. k \in Nat /\ m \in Nat /\ 1 <= k /\ k <= m + 1 /\ m <= Len(d)
    BY <1>1, <2>1
  <2>3. PICK n : n = (m - k) + 1
    OBVIOUS
  <2>4. /\ SubSeq(d, k, m) \in Seq(Units) /\ Len(SubSeq(d, k, m)) = n
        /\ \A j \in 1..n : SubSeq(d, k, m)[j] = d[(k - 1) + j]
    BY <1>1, <2>2, <2>3, SliceIs
  <2>5. n = m - pos /\ k - 1 = pos
    BY <1>1, <2>1, <2>3
  <2>6. QED
    BY <1>1, <2>1, <2>4, <2>5
<1>3. PICK b : b = p \o c
  OBVIOUS
<1>4. /\ b \in Seq(Units) /\ Len(b) = Len(p) + Len(c)
      /\ \A i \in 1..Len(p) : b[i] = p[i]
      /\ \A j \in 1..Len(c) : b[Len(p) + j] = c[j]
  <2>1. /\ p \o c \in Seq(Units) /\ Len(p \o c) = Len(p) + Len(c)
        /\ \A i \in 1..Len(p) : (p \o c)[i] = p[i]
        /\ \A j \in 1..Len(c) : (p \o c)[Len(p) + j] = c[j]
    BY <1>1, <1>2, JoinIs
  <2>2. QED
    BY <1>3, <2>1
<1>5. ASSUME NEW i \in 1..(Len(p) + (m - pos)) PROVE b[i] = d[(pos - Len(p)) + i]
  <2>1. CASE i <= Len(p)
    BY <1>1, <1>4, <2>1 DEF EndsAt
  <2>2. CASE i > Len(p)
    <3>1. PICK j : j = i - Len(p)
      OBVIOUS
    <3>2. j \in 1..(m - pos) /\ Len(p) + j = i /\ pos + j = (pos - Len(p)) + i
      BY <1>1, <2>2, <3>1
    <3>3. b[Len(p) + j] = c[j] /\ c[j] = d[pos + j]
      BY <1>2, <1>4, <3>2
    <3>4. QED
      BY <3>2, <3>3
  <2>3. QED
    BY <1>1, <2>1, <2>2
<1>6. Len(b) = Len(p) + (m - pos) /\ m - Len(b) = pos - Len(p)
  BY <1>1, <1>2, <1>4
<1>7. EndsAt(b, d, m)
  BY <1>1, <1>5, <1>6 DEF EndsAt
<1>8. QED
  BY <1>2, <1>3, <1>4, <1>7

LEMMA ReadIs ==
  ASSUME FilesOK, ReaderOK, current_path # 0,
         NEW d, d = disk[current_path], NEW e, e = file_position + Len(Chunk)
  PROVE  /\ current_path \in Files /\ d \in Seq(Units)
         /\ Chunk \in Seq(Units) /\ Buffer \in Seq(Units)
         /\ e \in 0..Len(d) /\ Len(Buffer) <= e
         /\ \A i \in 1..Len(Buffer) : Buffer[i] = d[(e - Len(Buffer)) + i]
<1>1. current_path \in Files /\ d \in Seq(Units) /\ Len(d) \in Nat
  <2>1. current_path \in Files
    BY FileTailAssumption DEF FilesOK, ReaderOK, Files
  <2>2. QED
    BY <2>1 DEF FilesOK
<1>2. PICK pos : pos = file_position
  OBVIOUS
<1>3. PICK p : p = partial_line
  OBVIOUS
<1>4. /\ p \in Seq(Units) /\ Len(p) \in Nat /\ pos \in Nat /\ pos <= Len(d) /\ Len(p) <= pos
      /\ \A i \in 1..Len(p) : p[i] = d[(pos - Len(p)) + i]
  BY <1>1, <1>2, <1>3 DEF ReaderOK, Precedes
<1>5. PICK m : m = Min({pos + CHUNK, Len(d)})
  OBVIOUS
<1>6. m \in Nat /\ pos <= m /\ m <= Len(d)
  <2>1. pos + CHUNK \in Nat /\ pos <= pos + CHUNK
    BY <1>4, FileTailAssumption
  <2>2. PICK T : T = {pos + CHUNK, Len(d)}
    OBVIOUS
  <2>3. T \subseteq Nat /\ T # {}
    BY <1>1, <2>1, <2>2
  <2>4. Min(T) \in T /\ \A x \in T : Min(T) <= x
    BY <2>3, MinIs
  <2>5. m \in T /\ \A x \in T : m <= x
    BY <1>5, <2>2, <2>4
  <2>6. QED
    BY <1>1, <1>4, <2>1, <2>2, <2>5
<1>7. PICK c : c = Chunk
  OBVIOUS
<1>8. c = SubSeq(d, pos + 1, m)
  BY <1>2, <1>5, <1>7 DEF Chunk
<1>9. /\ c \in Seq(Units) /\ Len(c) = m - pos
      /\ p \o c \in Seq(Units) /\ Len(p \o c) = Len(p) + Len(c)
      /\ EndsAt(p \o c, d, m)
  <2>1. EndsAt(p, d, pos)
    BY <1>4 DEF EndsAt
  <2>2. Adjoins(p, c, d, pos, m)
    BY <1>1, <1>4, <1>6, <1>8, <2>1 DEF Adjoins
  <2>3. QED
    BY <2>2, ReadOn
<1>10. PICK b : b = p \o c
  OBVIOUS
<1>11. Buffer = b
  BY <1>3, <1>7, <1>10 DEF Buffer
<1>12. /\ b \in Seq(Units) /\ Len(b) = Len(p) + (m - pos)
       /\ \A i \in 1..Len(b) : b[i] = d[(m - Len(b)) + i]
  BY <1>9, <1>10 DEF EndsAt
<1>13. e = m
  BY <1>2, <1>4, <1>6, <1>7, <1>9
<1>15. m - Len(b) = pos - Len(p) /\ Len(b) <= m
  BY <1>4, <1>6, <1>12
<1>16. Chunk \in Seq(Units) /\ Buffer \in Seq(Units) /\ e \in 0..Len(d) /\ Len(Buffer) <= e
  BY <1>1, <1>6, <1>7, <1>9, <1>11, <1>12, <1>13, <1>15
<1>17. \A i \in 1..Len(Buffer) : Buffer[i] = d[(e - Len(Buffer)) + i]
  BY <1>11, <1>12, <1>13
<1>18. QED
  BY <1>1, <1>16, <1>17

\* What is kept of a buffer that ends where the read did.
LEMMA KeptIs ==
  ASSUME NEW d \in Seq(Units), NEW b \in Seq(Units), NEW e \in 0..Len(d), Len(b) <= e,
         \A i \in 1..Len(b) : b[i] = d[(e - Len(b)) + i]
  PROVE  /\ KeptPartial(b) \in Seq(Units) /\ Len(KeptPartial(b)) <= MAX_PARTIAL
         /\ Precedes(KeptPartial(b), d, e)
<1>1. PICK u : u = Unterminated(b)
  OBVIOUS
<1>2. /\ u \in Seq(Units) /\ Len(u) <= Len(b)
      /\ \A i \in 1..Len(u) : u[i] = b[(Len(b) - Len(u)) + i] /\ u[i].at # "tail"
  <2>1. Len(Unterminated(b)) \in Nat /\ Len(b) \in Nat
    BY UnterminatedIs
  <2>2. QED
    BY <1>1, <2>1, UnterminatedIs
<1>3. Len(u) \in Nat /\ Len(b) \in Nat /\ Len(d) \in Nat /\ MAX_PARTIAL \in Nat
  BY <1>2, FileTailAssumption
<1>4. Precedes(u, d, e)
  <2>1. ASSUME NEW i \in 1..Len(u) PROVE u[i] = d[(e - Len(u)) + i]
    <3>1. PICK k : k = (Len(b) - Len(u)) + i
      OBVIOUS
    <3>2. k \in 1..Len(b) /\ (e - Len(b)) + k = (e - Len(u)) + i
      BY <1>2, <1>3, <3>1
    <3>3. u[i] = b[k] /\ b[k] = d[(e - Len(b)) + k]
      BY <1>2, <3>1, <3>2
    <3>4. QED
      BY <3>2, <3>3
  <2>2. Len(u) <= e
    BY <1>2, <1>3
  <2>3. QED
    BY <1>2, <2>1, <2>2 DEF Precedes
<1>5. Precedes(<<>>, d, e) /\ <<>> \in Seq(Units) /\ Len(<<>>) = 0
  BY DEF Precedes
<1>6. KeptPartial(b) = IF Len(u) > MAX_PARTIAL THEN <<>> ELSE u
  BY <1>1 DEF KeptPartial
<1>7. CASE Len(u) > MAX_PARTIAL
  BY <1>3, <1>5, <1>6, <1>7
<1>8. CASE ~(Len(u) > MAX_PARTIAL)
  BY <1>2, <1>3, <1>4, <1>6, <1>8
<1>9. QED
  BY <1>7, <1>8

LEMMA NewLinesIs ==
  ASSUME FilesOK, ReaderOK
  PROVE  NewLines \subseteq 1..Len(lines)
<1>1. CASE current_path = 0
  BY <1>1 DEF NewLines, Chunk
<1>2. CASE current_path # 0
  <2>1. PICK d : d = disk[current_path]
    OBVIOUS
  <2>2. PICK e : e = file_position + Len(Chunk)
    OBVIOUS
  <2>3. /\ current_path \in Files /\ d \in Seq(Units) /\ Buffer \in Seq(Units)
        /\ e \in 0..Len(d) /\ Len(Buffer) <= e
        /\ \A i \in 1..Len(Buffer) : Buffer[i] = d[(e - Len(Buffer)) + i]
    BY <1>2, <2>1, <2>2, ReadIs
  <2>4. Len(Buffer) \in Nat /\ Len(d) \in Nat /\ Len(lines) \in Nat
    BY <2>3 DEF FilesOK
  <2>5. \A i \in 1..Len(d) : d[i].h \in 1..Len(lines)
    BY <2>1, <2>3 DEF FilesOK
  <2>6. \A i \in 1..Len(Buffer) : (e - Len(Buffer)) + i \in 1..Len(d)
    BY <2>3, <2>4
  <2>7. \A i \in 1..Len(Buffer) : Buffer[i].h \in 1..Len(lines)
    BY <2>3, <2>5, <2>6
  <2>8. LinesOf(Buffer) \subseteq 1..Len(lines)
    BY <2>3, <2>4, <2>7, LinesOfIs
  <2>9. QED
    BY <2>8 DEF NewLines
<1>3. QED
  BY <1>1, <1>2

\* on_modify keeps the reader's place.
LEMMA on_modifyKeeps ==
  ASSUME FilesOK, ReaderOK, NEW w, on_modify(w), UNCHANGED nodeVars
  PROVE  ReaderOK'
<1>1. /\ current_path' = current_path /\ sent' = sent \cup NewLines
      /\ file_position' = file_position + Len(Chunk)
      /\ partial_line' = IF Chunk = <<>> THEN partial_line ELSE KeptPartial(Buffer)
      /\ disk' = disk /\ mtimes' = mtimes /\ lines' = lines
  BY DEF on_modify, Deliver, nodeVars
<1>2. sent' \subseteq 1..Len(lines')
  BY <1>1, NewLinesIs DEF ReaderOK
<1>3. CASE current_path = 0
  <2>1. Chunk = <<>> /\ file_position = 0
    BY <1>3 DEF Chunk, ReaderOK
  <2>2. file_position' = 0 /\ partial_line' = partial_line
    BY <1>1, <2>1
  <2>3. QED
    BY <1>1, <1>2, <1>3, <2>2 DEF ReaderOK
<1>4. CASE current_path # 0
  <2>1. PICK d : d = disk[current_path]
    OBVIOUS
  <2>2. PICK e : e = file_position + Len(Chunk)
    OBVIOUS
  <2>3. /\ current_path \in Files /\ d \in Seq(Units) /\ Chunk \in Seq(Units) /\ Buffer \in Seq(Units)
        /\ e \in 0..Len(d) /\ Len(Buffer) <= e
        /\ \A i \in 1..Len(Buffer) : Buffer[i] = d[(e - Len(Buffer)) + i]
    BY <1>4, <2>1, <2>2, ReadIs
  <2>4. /\ partial_line' \in Seq(Units) /\ Len(partial_line') <= MAX_PARTIAL
        /\ Precedes(partial_line', d, e)
    <3>1. CASE Chunk = <<>>
      <4>1. e = file_position /\ partial_line' = partial_line
        BY <1>1, <1>4, <2>2, <3>1 DEF ReaderOK, Precedes
      <4>2. QED
        BY <1>4, <2>1, <4>1 DEF ReaderOK
    <3>2. CASE Chunk # <<>>
      <4>1. partial_line' = KeptPartial(Buffer)
        BY <1>1, <3>2
      <4>2. QED
        BY <2>3, <4>1, KeptIs
    <3>3. QED
      BY <3>1, <3>2
  <2>5. QED
    BY <1>1, <1>2, <1>4, <2>1, <2>2, <2>4 DEF ReaderOK
<1>5. QED
  BY <1>3, <1>4

-----------------------------------------------------------------------------
(* The thread's steps.                                                     *)

\* Where tracking starts or goes on: somewhere in an existing file, with nothing
\* carried over.
LEMMA PlaceTaken ==
  ASSUME FilesOK, UNCHANGED nodeVars, NEW f \in 1..Len(mtimes),
         current_path' = f, file_position' \in 0..Len(disk[f]), partial_line' = <<>>,
         sent' \subseteq 1..Len(lines)
  PROVE  ReaderOK'
<1>1. disk' = disk /\ mtimes' = mtimes /\ lines' = lines
  BY DEF nodeVars
<1>2. Len(mtimes) \in Nat /\ MaxFiles \in Nat /\ Len(mtimes) <= MaxFiles /\ MAX_PARTIAL \in Nat
  BY FileTailAssumption DEF FilesOK
<1>3. f \in Files /\ f # 0 /\ f \in 0..Len(mtimes)
  BY <1>2 DEF Files
<1>4. disk[f] \in Seq(Units) /\ Len(disk[f]) \in Nat
  BY <1>3 DEF FilesOK
<1>5. Precedes(<<>>, disk[f], file_position')
  BY <1>4 DEF Precedes
<1>6. <<>> \in Seq(Units) /\ Len(<<>>) <= MAX_PARTIAL
  BY <1>2
<1>7. QED
  BY <1>1, <1>3, <1>5, <1>6 DEF ReaderOK

LEMMA FilesRest ==
  ASSUME FilesOK, UNCHANGED nodeVars
  PROVE  FilesOK'
BY DEF FilesOK, nodeVars

LEMMA ReaderRests ==
  ASSUME ReaderOK, UNCHANGED <<nodeVars, readerVars, sent>>
  PROVE  ReaderOK'
BY DEF ReaderOK, nodeVars, readerVars

LEMMA WaitsKeep ==
  ASSUME FileInv, Watch \/ GoLive
  PROVE  FileInv'
<1>1. /\ UNCHANGED <<nodeVars, readerVars, flagVars, rotated_from, graceUp, queue, due,
                     target, scanVars, sent>>
      /\ pc' \in {"list", "poll"}
  BY DEF Watch, GoLive
<1>2. FilesOK' /\ ReaderOK'
  BY <1>1, FilesRest, ReaderRests DEF FileInv
<1>3. TaskOK'
  BY <1>1 DEF FileInv, TaskOK, nodeVars, flagVars, scanVars, ProgramPoint
<1>4. QED
  BY <1>2, <1>3 DEF FileInv

LEMMA ListFilesKeeps ==
  ASSUME FileInv, ListFiles
  PROVE  FileInv'
<1>1. FilesOK /\ ReaderOK /\ TaskOK
  BY DEF FileInv
<1>2. /\ UNCHANGED <<nodeVars, readerVars, flagged, rotated_from, graceUp, queue, due, min_height, sent>>
      /\ disk' = disk /\ mtimes' = mtimes
  BY DEF ListFiles, nodeVars
<1>3. FilesOK' /\ ReaderOK'
  BY <1>1, <1>2, FilesRest, ReaderRests
<1>4. PICK files : files = all_files_newest_first
  OBVIOUS
<1>5. CASE files = <<>>
  <2>1. pc' = "barrier" /\ UNCHANGED <<desynced, included, recorded_len, target>>
    BY <1>4, <1>5 DEF ListFiles
  <2>2. TaskOK'
    BY <1>1, <1>2, <2>1 DEF TaskOK, ProgramPoint
  <2>3. QED
    BY <1>3, <2>2 DEF FileInv
<1>6. CASE files # <<>>
  <2>1. /\ included' = Reverse(Candidates(files))
        /\ desynced' = SpansTooMany(files)
        /\ target' = files[1]
        /\ recorded_len' = Len(disk[files[1]])
        /\ pc' = "scan"
    BY <1>4, <1>6, Zenon DEF ListFiles
  <2>2. PICK S : S = 1..Len(mtimes)
    OBVIOUS
  <2>3. S \subseteq Files /\ mtimes \in Seq(S)
    BY <1>1, <2>2, FileTailAssumption DEF FilesOK, Files
  <2>4. files \in Seq(S)
    BY <1>4, <2>3, AllFilesIs
  <2>5. PICK c : c = Candidates(files)
    OBVIOUS
  <2>6. c \in Seq(S) /\ Len(c) \in 1..MAX_BACKFILL_FILES /\ c[1] = files[1]
    BY <1>6, <2>4, <2>5, CandidatesIs
  <2>7. c # <<>>
    BY <2>6
  <2>8. Reverse(c) \in Seq(S) /\ Len(Reverse(c)) = Len(c) /\ Reverse(c)[Len(c)] = c[1]
    BY <2>6, <2>7, ReverseIs
  <2>9. /\ included' \in Seq(Files) /\ Len(included') <= MAX_BACKFILL_FILES
        /\ included' # <<>> /\ included'[Len(included')] = target'
    <3>1. included' = Reverse(c)
      BY <2>1, <2>5
    <3>2. included' \in Seq(S) /\ Len(included') = Len(c) /\ included'[Len(c)] = files[1]
      BY <2>6, <2>8, <3>1
    <3>3. included' \in Seq(Files) /\ included' # <<>>
      BY <2>3, <2>6, <3>2
    <3>4. QED
      BY <2>1, <2>6, <3>2, <3>3, FileTailAssumption
  <2>10. target' \in 1..Len(mtimes) /\ target' \in Files
    <3>1. files[1] \in S
      BY <1>6, <2>4
    <3>2. target' \in S
      BY <2>1, <3>1
    <3>3. QED
      BY <2>2, <2>3, <3>2
  <2>11. recorded_len' \in 0..Len(disk[target'])
    BY <1>1, <2>1, <2>10 DEF FilesOK
  <2>12. desynced' \in BOOLEAN
    BY <2>1, Zenon DEF SpansTooMany
  <2>13. TaskOK'
    BY <1>1, <1>2, <2>1, <2>9, <2>10, <2>11, <2>12 DEF TaskOK, ProgramPoint
  <2>14. QED
    BY <1>3, <2>13 DEF FileInv
<1>7. QED
  BY <1>5, <1>6

\* The beginning of a sequence.
LEMMA PrefixIs ==
  ASSUME NEW S, NEW s \in Seq(S), NEW n \in 0..Len(s)
  PROVE  /\ SubSeq(s, 1, n) \in Seq(S) /\ Len(SubSeq(s, 1, n)) = n
         /\ \A j \in 1..n : SubSeq(s, 1, n)[j] = s[j]
<1>1. \A i \in 1..n : i \in 1..Len(s) /\ s[i] \in S
  OBVIOUS
<1>2. QED
  BY <1>1

LEMMA BackfillBytesIs ==
  ASSUME FilesOK, NEW f \in Files, f = target => recorded_len \in 0..Len(disk[f])
  PROVE  /\ BackfillBytes(f) \in Seq(Units)
         /\ Len(BackfillBytes(f)) \in 0..Len(disk[f])
         /\ LinesOf(BackfillBytes(f)) \subseteq 1..Len(lines)
<1>1. PICK d : d = disk[f]
  OBVIOUS
<1>2. d \in Seq(Units) /\ Len(d) \in Nat /\ Len(lines) \in Nat /\ \A i \in 1..Len(d) : d[i].h \in 1..Len(lines)
  BY <1>1 DEF FilesOK
<1>3. PICK e : e = IF f = target THEN SubSeq(disk[f], 1, recorded_len) ELSE disk[f]
  OBVIOUS
<1>4. e \in Seq(Units) /\ Len(e) \in 0..Len(d) /\ \A j \in 1..Len(e) : e[j] = d[j]
  <2>1. CASE f = target
    <3>1. PICK r : r = recorded_len
      OBVIOUS
    <3>2. r \in 0..Len(d) /\ e = SubSeq(d, 1, r)
      BY <1>1, <1>3, <2>1, <3>1
    <3>3. /\ SubSeq(d, 1, r) \in Seq(Units) /\ Len(SubSeq(d, 1, r)) = r
          /\ \A j \in 1..r : SubSeq(d, 1, r)[j] = d[j]
      BY <1>2, <3>2, PrefixIs
    <3>4. QED
      BY <3>2, <3>3
  <2>2. CASE f # target
    BY <1>1, <1>2, <1>3, <2>2
  <2>3. QED
    BY <2>1, <2>2
<1>5. PICK t : t = LastTail(e)
  OBVIOUS
<1>6. t \in 0..Len(e)
  BY <1>4, <1>5, LastTailIs
<1>7. PICK b : b = SubSeq(e, 1, t)
  OBVIOUS
<1>8. b \in Seq(Units) /\ Len(b) = t /\ \A j \in 1..t : b[j] = e[j]
  BY <1>4, <1>6, <1>7, PrefixIs
<1>9. BackfillBytes(f) = b
  BY <1>3, <1>5, <1>7, Zenon DEF BackfillBytes
<1>10. Len(b) \in 0..Len(d) /\ \A j \in 1..Len(b) : b[j].h \in 1..Len(lines)
  BY <1>2, <1>4, <1>6, <1>8
<1>11. LinesOf(b) \subseteq 1..Len(lines)
  BY <1>2, <1>8, <1>10, LinesOfIs
<1>12. QED
  BY <1>1, <1>8, <1>9, <1>10, <1>11

LEMMA RestIs ==
  ASSUME NEW S, NEW s \in Seq(S), s # <<>>
  PROVE  /\ Head(s) \in S /\ Head(s) = s[1]
         /\ Tail(s) \in Seq(S) /\ Len(Tail(s)) = Len(s) - 1
         /\ Len(s) > 1 => Tail(s) # <<>> /\ Tail(s)[Len(Tail(s))] = s[Len(s)]
<1>1. PICK n \in Nat : n = Len(s)
  OBVIOUS
<1>2. n >= 1
  BY <1>1
<1>3. Head(s) = s[1] /\ s[1] \in S
  BY <1>1, <1>2
<1>4. PICK t : t = Tail(s)
  OBVIOUS
<1>5. t \in Seq(S) /\ Len(t) = n - 1
  BY <1>1, <1>2, <1>4
<1>6. \A k \in 1..(n - 1) : t[k] = s[k + 1]
  BY <1>1, <1>2, <1>4
<1>7. ASSUME n > 1
      PROVE  t # <<>> /\ t[n - 1] = s[n]
  <2>1. n - 1 \in 1..(n - 1) /\ (n - 1) + 1 = n
    BY <1>7
  <2>2. t[n - 1] = s[n]
    BY <1>6, <2>1
  <2>3. t # <<>>
    BY <1>5, <1>7
  <2>4. QED
    BY <2>2, <2>3
<1>8. QED
  BY <1>1, <1>3, <1>4, <1>5, <1>7

LEMMA BackfillFileKeeps ==
  ASSUME FileInv, BackfillFile
  PROVE  FileInv'
<1>1. FilesOK /\ ReaderOK /\ TaskOK
  BY DEF FileInv
<1>2. PICK f : f = Head(included)
  OBVIOUS
<1>3. /\ pc = "scan" /\ included' = Tail(included)
      /\ sent' = sent \cup AboveFloor(LinesOf(BackfillBytes(f)))
      /\ UNCHANGED <<nodeVars, rotated_from, graceUp, queue, due, min_height, target, recorded_len>>
      /\ disk' = disk /\ mtimes' = mtimes /\ lines' = lines
  BY <1>2, Zenon DEF BackfillFile, Deliver, nodeVars
<1>4. /\ included \in Seq(Files) /\ included # <<>> /\ included[Len(included)] = target
      /\ recorded_len \in 0..Len(disk[target]) /\ target \in 1..Len(mtimes)
  BY <1>1, <1>3 DEF TaskOK
<1>5. /\ f \in Files /\ f = included[1]
      /\ included' \in Seq(Files) /\ Len(included') = Len(included) - 1
      /\ Len(included) > 1 => included' # <<>> /\ included'[Len(included')] = included[Len(included)]
  BY <1>2, <1>3, <1>4, RestIs
<1>6. /\ Len(BackfillBytes(f)) \in 0..Len(disk[f])
      /\ LinesOf(BackfillBytes(f)) \subseteq 1..Len(lines)
  BY <1>1, <1>4, <1>5, BackfillBytesIs
<1>7. sent' \subseteq 1..Len(lines)
  BY <1>1, <1>3, <1>6 DEF AboveFloor, ReaderOK
<1>8. FilesOK'
  BY <1>1, <1>3, FilesRest
<1>9. Len(included) \in Nat /\ Len(included') <= MAX_BACKFILL_FILES
  BY <1>1, <1>4, <1>5, FileTailAssumption DEF TaskOK
<1>10. CASE f = target
  <2>1. /\ current_path' = f /\ file_position' = Len(BackfillBytes(f)) /\ partial_line' = <<>>
        /\ flagged' = (flagged \/ desynced) /\ desynced' = FALSE /\ pc' = "barrier"
    BY <1>2, <1>10, Zenon DEF BackfillFile
  <2>2. ReaderOK'
    BY <1>1, <1>3, <1>4, <1>6, <1>7, <1>10, <2>1, PlaceTaken
  <2>3. flagged' \in BOOLEAN
    BY <2>1
  <2>4. TaskOK'
    BY <1>1, <1>3, <1>5, <1>9, <2>1, <2>3 DEF TaskOK, ProgramPoint
  <2>5. QED
    BY <1>8, <2>2, <2>4 DEF FileInv
<1>11. CASE f # target
  <2>1. UNCHANGED <<current_path, file_position, partial_line, desynced, flagged, pc>>
    BY <1>2, <1>11 DEF BackfillFile, readerVars, flagVars
  <2>2. ReaderOK'
    BY <1>1, <1>3, <1>7, <2>1 DEF ReaderOK
  <2>3. Len(included) > 1
    BY <1>4, <1>5, <1>9, <1>11
  <2>4. included' # <<>> /\ included'[Len(included')] = target
    BY <1>4, <1>5, <2>3
  <2>5. TaskOK'
    BY <1>1, <1>3, <1>4, <1>5, <1>9, <2>1, <2>4 DEF TaskOK
  <2>6. QED
    BY <1>8, <2>2, <2>5 DEF FileInv
<1>12. QED
  BY <1>10, <1>11

LEMMA PollKeeps ==
  ASSUME FileInv, Poll
  PROVE  FileInv'
<1>1. FilesOK /\ ReaderOK /\ TaskOK
  BY DEF FileInv
<1>2. /\ on_modify(desynced) /\ pc' = "checks"
      /\ UNCHANGED <<nodeVars, flagged, rotated_from, graceUp, queue, due, target, scanVars>>
      /\ mtimes' = mtimes
  BY DEF Poll, nodeVars
<1>3. FilesOK' /\ ReaderOK'
  BY <1>1, <1>2, FilesRest, on_modifyKeeps
<1>4. desynced' \in BOOLEAN
  BY <1>2 DEF on_modify
<1>5. TaskOK'
  BY <1>1, <1>2, <1>4 DEF TaskOK, ProgramPoint, scanVars
<1>6. QED
  BY <1>3, <1>5 DEF FileInv

\* A notification taken from the queue is about an existing file.
LEMMA QueueIs ==
  ASSUME TaskOK, queue # <<>>
  PROVE  /\ Head(queue).file \in 1..Len(mtimes)
         /\ Tail(queue) \in Seq([kind : {"create", "modify"}, file : 1..Len(mtimes)])
<1>1. PICK Q : Q = [kind : {"create", "modify"}, file : 1..Len(mtimes)]
  OBVIOUS
<1>2. queue \in Seq(Q)
  BY <1>1 DEF TaskOK
<1>3. Head(queue) \in Q /\ Tail(queue) \in Seq(Q)
  BY <1>2, RestIs
<1>4. Head(queue).file \in 1..Len(mtimes)
  <2>1. \A e \in Q : e.file \in 1..Len(mtimes)
    BY <1>1
  <2>2. QED
    BY <1>3, <2>1
<1>5. QED
  BY <1>1, <1>3, <1>4

LEMMA RecvModifyKeeps ==
  ASSUME FileInv, RecvModify
  PROVE  FileInv'
<1>1. FilesOK /\ ReaderOK /\ TaskOK
  BY DEF FileInv
<1>2. /\ queue # <<>> /\ queue' = Tail(queue)
      /\ UNCHANGED <<nodeVars, flagged, rotated_from, graceUp, due, target, scanVars>>
      /\ mtimes' = mtimes
  BY DEF RecvModify, nodeVars
<1>3. PICK f : f = Head(queue).file
  OBVIOUS
<1>4. f \in 1..Len(mtimes) /\ f \in Files
      /\ queue' \in Seq([kind : {"create", "modify"}, file : 1..Len(mtimes)])
  <2>1. f \in 1..Len(mtimes)
    BY <1>1, <1>2, <1>3, QueueIs
  <2>2. f \in Files
    BY <1>1, <2>1, FileTailAssumption DEF FilesOK, Files
  <2>3. QED
    BY <1>1, <1>2, <2>1, <2>2, QueueIs
<1>5. FilesOK'
  BY <1>1, <1>2, FilesRest
<1>6. ReaderOK' /\ pc' \in {"read", "checks"} /\ desynced' \in BOOLEAN
  <2>1. CASE current_path = 0
    <3>1. /\ current_path' = f /\ file_position' = Len(disk[f]) /\ partial_line' = <<>>
          /\ desynced' = desynced /\ sent' = sent /\ pc' = "read"
      BY <1>3, <2>1 DEF RecvModify, start_tracking
    <3>2. Len(disk[f]) \in 0..Len(disk[f])
      BY <1>1, <1>4 DEF FilesOK
    <3>3. sent' \subseteq 1..Len(lines)
      BY <1>1, <3>1 DEF ReaderOK
    <3>4. ReaderOK'
      BY <1>1, <1>2, <1>4, <3>1, <3>2, <3>3, PlaceTaken
    <3>5. QED
      BY <1>1, <3>1, <3>4 DEF TaskOK
  <2>2. CASE current_path # 0
    <3>1. on_modify(desynced) /\ pc' = "checks"
      BY <2>2 DEF RecvModify
    <3>2. desynced' \in BOOLEAN
      BY <3>1 DEF on_modify
    <3>3. QED
      BY <1>1, <1>2, <3>1, <3>2, on_modifyKeeps
  <2>3. QED
    BY <2>1, <2>2
<1>7. TaskOK'
  BY <1>1, <1>2, <1>4, <1>6 DEF TaskOK, ProgramPoint, scanVars
<1>8. QED
  BY <1>5, <1>6, <1>7 DEF FileInv

LEMMA RecvCreateKeeps ==
  ASSUME FileInv, RecvCreate
  PROVE  FileInv'
<1>1. FilesOK /\ ReaderOK /\ TaskOK
  BY DEF FileInv
<1>2. /\ queue # <<>> /\ queue' = Tail(queue) /\ target' = Head(queue).file
      /\ on_modify(desynced) /\ pc' = "drainThenRead"
      /\ UNCHANGED <<nodeVars, flagged, rotated_from, graceUp, due, scanVars>>
      /\ mtimes' = mtimes
  BY DEF RecvCreate, nodeVars
<1>3. FilesOK' /\ ReaderOK'
  BY <1>1, <1>2, FilesRest, on_modifyKeeps
<1>4. desynced' \in BOOLEAN
  BY <1>2 DEF on_modify
<1>5. target' \in 1..Len(mtimes)
      /\ queue' \in Seq([kind : {"create", "modify"}, file : 1..Len(mtimes)])
  BY <1>1, <1>2, QueueIs
<1>6. TaskOK'
  BY <1>1, <1>2, <1>4, <1>5 DEF TaskOK, ProgramPoint, scanVars
<1>7. QED
  BY <1>3, <1>6 DEF FileInv

LEMMA DrainKeeps ==
  ASSUME FileInv, Drain
  PROVE  FileInv'
<1>1. FilesOK /\ ReaderOK /\ TaskOK
  BY DEF FileInv
<1>2. /\ on_modify(desynced)
      /\ UNCHANGED <<nodeVars, flagged, rotated_from, graceUp, queue, due, pc, target, scanVars>>
      /\ mtimes' = mtimes /\ disk' = disk
  BY DEF Drain, nodeVars
<1>3. FilesOK' /\ ReaderOK'
  BY <1>1, <1>2, FilesRest, on_modifyKeeps
<1>4. desynced' \in BOOLEAN
  BY <1>2 DEF on_modify
<1>5. TaskOK'
  BY <1>1, <1>2, <1>4 DEF TaskOK, scanVars
<1>6. QED
  BY <1>3, <1>5 DEF FileInv

LEMMA SwitchKeeps ==
  ASSUME FileInv, Switch
  PROVE  FileInv'
<1>1. FilesOK /\ ReaderOK /\ TaskOK
  BY DEF FileInv
<1>2. /\ LeftAt(file_position + Len(Chunk)) /\ desynced' = (desynced \/ ReadLoses)
      /\ current_path' = target /\ file_position' = 0 /\ partial_line' = <<>>
      /\ pc \in {"drainThenRead", "drainThenPoll"} /\ pc' \in {"read", "poll"}
      /\ UNCHANGED <<nodeVars, flagged, queue, due, target, scanVars, sent>>
      /\ mtimes' = mtimes /\ disk' = disk
  BY DEF Switch, PartialAfterSwitch, nodeVars
<1>3. target \in 1..Len(mtimes) /\ target \in Files
  BY <1>1, <1>2, FileTailAssumption DEF TaskOK, FilesOK, Files
<1>4. 0 \in 0..Len(disk[target])
  BY <1>1, <1>3 DEF FilesOK
<1>5. sent' \subseteq 1..Len(lines)
  BY <1>1, <1>2 DEF ReaderOK
<1>6. FilesOK' /\ ReaderOK'
  BY <1>1, <1>2, <1>3, <1>4, <1>5, FilesRest, PlaceTaken
<1>7. rotated_from' \in [file : 0..MaxFiles, mark : Nat] /\ graceUp' \in BOOLEAN
  <2>1. CASE current_path \in {0, target}
    BY <1>1, <1>2, <2>1 DEF LeftAt, TaskOK
  <2>2. CASE current_path \notin {0, target}
    <3>1. PICK e : e = file_position + Len(Chunk)
      OBVIOUS
    <3>2. rotated_from' = [file |-> current_path, mark |-> e] /\ graceUp' = FALSE
      BY <1>2, <2>2, <3>1 DEF LeftAt
    <3>3. PICK d : d = disk[current_path]
      OBVIOUS
    <3>4. current_path \in Files /\ d \in Seq(Units) /\ e \in 0..Len(d)
      BY <1>1, <2>2, <3>1, <3>3, ReadIs
    <3>5. current_path \in 0..MaxFiles /\ e \in Nat
      BY <3>4, FileTailAssumption DEF Files
    <3>6. QED
      BY <3>2, <3>5
  <2>3. QED
    BY <2>1, <2>2
<1>8. desynced' \in BOOLEAN
  BY <1>2
<1>9. TaskOK'
  BY <1>1, <1>2, <1>7, <1>8 DEF TaskOK, ProgramPoint, scanVars
<1>10. QED
  BY <1>6, <1>9 DEF FileInv

LEMMA EndIterationKeeps ==
  ASSUME FileInv, EndIteration
  PROVE  FileInv'
<1>1. FilesOK /\ ReaderOK /\ TaskOK
  BY DEF FileInv
<1>2. /\ flagged' = (flagged \/ desynced \/ (graceUp /\ GrewAfterSwitch(rotated_from)))
      /\ rotated_from' = IF graceUp THEN none ELSE rotated_from
      /\ graceUp' = FALSE /\ due' = FALSE
      /\ UNCHANGED <<nodeVars, queue, scanVars>>
      /\ mtimes' = mtimes /\ disk' = disk
  BY DEF EndIteration, nodeVars
<1>3. FilesOK'
  BY <1>1, <1>2, FilesRest
<1>4. flagged' \in BOOLEAN
  BY <1>2
<1>5. rotated_from' \in [file : 0..MaxFiles, mark : Nat]
  <2>1. none \in [file : 0..MaxFiles, mark : Nat]
    BY FileTailAssumption DEF none
  <2>2. QED
    BY <1>1, <1>2, <2>1 DEF TaskOK
<1>6. CASE due /\ NewerFiles # {}
  <2>1. target' \in NewerFiles /\ pc' = "drainThenPoll" /\ on_modify(FALSE)
    BY <1>6 DEF EndIteration
  <2>2. ReaderOK'
    BY <1>1, <1>2, <2>1, on_modifyKeeps
  <2>3. mtimes # <<>> /\ target' = find_latest_file
    BY <2>1 DEF NewerFiles
  <2>4. PICK S : S = 1..Len(mtimes)
    OBVIOUS
  <2>5. S \subseteq Files /\ mtimes \in Seq(S)
    BY <1>1, <2>4, FileTailAssumption DEF FilesOK, Files
  <2>6. target' \in 1..Len(mtimes)
    BY <2>3, <2>4, <2>5, LatestFileIs
  <2>7. desynced' \in BOOLEAN
    BY <2>1 DEF on_modify
  <2>8. TaskOK'
    BY <1>1, <1>2, <1>4, <1>5, <2>1, <2>6, <2>7 DEF TaskOK, ProgramPoint, scanVars
  <2>9. QED
    BY <1>3, <2>2, <2>8 DEF FileInv
<1>7. CASE ~(due /\ NewerFiles # {})
  <2>1. pc' = "poll" /\ desynced' = FALSE /\ UNCHANGED <<target, readerVars, sent>>
    BY <1>7 DEF EndIteration
  <2>2. ReaderOK'
    BY <1>1, <1>2, <2>1, ReaderRests
  <2>3. TaskOK'
    BY <1>1, <1>2, <1>4, <1>5, <2>1 DEF TaskOK, ProgramPoint, scanVars
  <2>4. QED
    BY <1>3, <2>2, <2>3 DEF FileInv
<1>8. QED
  BY <1>6, <1>7

-----------------------------------------------------------------------------
(* The theorems.                                                           *)

LEMMA InitialFileIs ==
  ASSUME NEW n \in Nat, n <= MaxLines
  PROVE  LET d == [i \in 1 .. 2 * n |->
                     Unit((i + 1) \div 2, IF i % 2 = 1 THEN "head" ELSE "tail")]
         IN  d \in Seq(Units) /\ Len(d) = 2 * n /\ \A i \in 1..Len(d) : d[i].h \in 1..n
<1>1. MaxLines \in Nat
  BY FileTailAssumption
<1> DEFINE unit(i) == Unit((i + 1) \div 2, IF i % 2 = 1 THEN "head" ELSE "tail")
           d == [i \in 1 .. 2 * n |-> unit(i)]
<1>2. ASSUME NEW i \in 1 .. 2 * n
      PROVE  unit(i) \in Units /\ unit(i).h \in 1..n
  <2>1. PICK h : h = (i + 1) \div 2
    OBVIOUS
  <2>2. h \in 1..n
    BY <2>1
  <2>3. PICK at : at = IF i % 2 = 1 THEN "head" ELSE "tail"
    OBVIOUS
  <2>4. at \in {"head", "mid", "tail"}
    BY <2>3
  <2>5. unit(i) = [h |-> h, at |-> at]
    BY <2>1, <2>3, Zenon DEF Unit
  <2>6. h \in 1..MaxLines
    BY <1>1, <2>2
  <2>7. [h |-> h, at |-> at] \in Units /\ [h |-> h, at |-> at].h = h
    BY <2>4, <2>6 DEF Units
  <2>8. QED
    BY <2>2, <2>5, <2>7
<1> HIDE DEF unit
<1>3. 2 * n \in Nat
  OBVIOUS
<1>4. PICK m \in Nat : m = 2 * n
  BY <1>3
<1>5. d \in Seq(Units) /\ Len(d) = m /\ \A i \in 1..Len(d) : d[i].h \in 1..n
  <2>1. \A i \in 1..m : unit(i) \in Units /\ unit(i).h \in 1..n
    BY <1>2, <1>4
  <2>2. d = [i \in 1..m |-> unit(i)]
    BY <1>4
  <2>3. d \in [1..m -> Units]
    BY <2>1, <2>2
  <2>4. d \in Seq(Units) /\ Len(d) = m
    BY <2>2, <2>3
  <2>5. QED
    BY <2>1, <2>2, <2>4
<1>6. QED
  BY <1>4, <1>5 DEF unit

LEMMA InitFile == Init => FileInv
<1> SUFFICES ASSUME Init PROVE FileInv
  OBVIOUS
<1>1. /\ {MaxFiles, CHUNK, MAX_BACKFILL_FILES} \subseteq Nat \ {0}
      /\ {MaxLines, OnDisk, MAX_PARTIAL} \subseteq Nat /\ OnDisk <= MaxLines
  BY FileTailAssumption
<1>2. PICK n \in Nat : n = OnDisk
  BY <1>1
<1>3. n <= MaxLines /\ MaxFiles \in Nat /\ MaxFiles >= 1 /\ MAX_PARTIAL \in Nat /\ MAX_BACKFILL_FILES \in Nat
  BY <1>1, <1>2
<1>4. lines = [h \in 1..n |-> "good"]
  BY <1>2 DEF Init
<1>5. lines \in Seq({"good", "long", "torn"}) /\ Len(lines) = n
  BY <1>4
<1>6. PICK d : d = [i \in 1 .. 2 * n |->
                     Unit((i + 1) \div 2, IF i % 2 = 1 THEN "head" ELSE "tail")]
  OBVIOUS
<1>7. d \in Seq(Units) /\ \A i \in 1..Len(d) : d[i].h \in 1..n
  BY <1>3, <1>6, InitialFileIs
<1>8. disk = [f \in Files |-> IF f > 1 THEN <<>> ELSE d]
  BY <1>2, <1>6, Zenon DEF Init
<1>9. disk \in [Files -> Seq(Units)] /\ \A f \in Files : \A i \in 1..Len(disk[f]) : disk[f][i].h \in 1..Len(lines)
  <2>1. ASSUME NEW f \in Files
        PROVE  disk[f] \in Seq(Units) /\ \A i \in 1..Len(disk[f]) : disk[f][i].h \in 1..Len(lines)
    <3>1. disk[f] = IF f > 1 THEN <<>> ELSE d
      BY <1>8
    <3>2. CASE f > 1
      BY <3>1, <3>2
    <3>3. CASE ~(f > 1)
      BY <1>5, <1>7, <3>1, <3>3
    <3>4. QED
      BY <3>2, <3>3
  <2>2. disk = [f \in Files |-> disk[f]]
    BY <1>8
  <2>3. QED
    BY <2>1, <2>2
<1>10. /\ mtimes \in Seq(1..Len(mtimes)) /\ Len(mtimes) <= MaxFiles
       /\ \A f \in 1..Len(mtimes) : \E i \in DOMAIN mtimes : mtimes[i] = f
       /\ IsInjective(mtimes)
  <2>1. CASE mtimes = <<1>>
    <3>1. Len(mtimes) = 1 /\ DOMAIN mtimes = {1} /\ mtimes[1] = 1
      BY <2>1
    <3>2. IsInjective(mtimes)
      BY <3>1 DEF IsInjective
    <3>3. mtimes \in Seq(1..1)
      BY <2>1
    <3>4. QED
      BY <1>3, <3>1, <3>2, <3>3
  <2>2. CASE mtimes = <<>>
    BY <1>3, <2>2 DEF IsInjective
  <2>3. QED
    BY <2>1, <2>2 DEF Init
<1>11. FilesOK
  BY <1>3, <1>5, <1>9, <1>10 DEF FilesOK, Init
<1>12. ReaderOK
  <2>1. current_path = 0 /\ file_position = 0 /\ partial_line = <<>> /\ sent = {}
    BY DEF Init
  <2>2. Len(mtimes) \in Nat
    BY <1>10
  <2>3. QED
    BY <1>3, <2>1, <2>2 DEF ReaderOK
<1>13. TaskOK
  <2>1. none \in [file : 0..MaxFiles, mark : Nat]
    BY <1>3 DEF none
  <2>2. /\ queue = <<>> /\ included = <<>> /\ pc = "watch" /\ rotated_from = none
        /\ min_height \in Floors
        /\ desynced = FALSE /\ flagged = FALSE /\ graceUp = FALSE /\ due = FALSE
    BY DEF Init
  <2>3. queue \in Seq([kind : {"create", "modify"}, file : 1..Len(mtimes)])
    BY <2>2
  <2>4. included \in Seq(Files) /\ Len(included) <= MAX_BACKFILL_FILES
    BY <1>3, <2>2
  <2>5. /\ pc \in ProgramPoint
        /\ pc \notin {"scan", "drainThenRead", "drainThenPoll"} /\ pc # "scan"
    BY <2>2 DEF ProgramPoint
  <2>6. rotated_from \in [file : 0..MaxFiles, mark : Nat]
    BY <2>1, <2>2
  <2>7. desynced \in BOOLEAN /\ flagged \in BOOLEAN /\ graceUp \in BOOLEAN /\ due \in BOOLEAN
    BY <2>2
  <2>8. QED
    BY <2>2, <2>3, <2>4, <2>5, <2>6, <2>7 DEF TaskOK
<1>14. QED
  BY <1>11, <1>12, <1>13 DEF FileInv

LEMMA NextFile == FileInv /\ [Next]_vars => FileInv'
<1> SUFFICES ASSUME FileInv, [Next]_vars PROVE FileInv'
  OBVIOUS
<1>1. CASE NodeWrite
  BY <1>1, NodeWriteKeeps
<1>2. CASE NodeWritesOn
  BY <1>2, NodeWritesOnKeeps
<1>3. CASE NodeFinishesOldFile
  BY <1>3, NodeFinishesOldFileKeeps
<1>4. CASE NodeRotate
  BY <1>4, NodeRotateKeeps
<1>5. CASE GraceElapses \/ CheckComesRound
  BY <1>5, ClocksKeep
<1>6. CASE Watch \/ GoLive
  BY <1>6, WaitsKeep
<1>7. CASE ListFiles
  BY <1>7, ListFilesKeeps
<1>8. CASE BackfillFile
  BY <1>8, BackfillFileKeeps
<1>9. CASE Poll
  BY <1>9, PollKeeps
<1>10. CASE Drain
  BY <1>10, DrainKeeps
<1>11. CASE Switch
  BY <1>11, SwitchKeeps
<1>12. CASE EndIteration
  BY <1>12, EndIterationKeeps
<1>13. CASE RecvCreate
  BY <1>13, RecvCreateKeeps
<1>14. CASE RecvModify
  BY <1>14, RecvModifyKeeps
<1>15. CASE UNCHANGED vars
  BY <1>15 DEF FileInv, FilesOK, ReaderOK, TaskOK, vars, nodeVars, readerVars, flagVars, scanVars
<1>16. QED
  BY <1>1, <1>2, <1>3, <1>4, <1>5, <1>6, <1>7, <1>8, <1>9, <1>10, <1>11, <1>12, <1>13, <1>14, <1>15
     DEF Next, Environment, Iterate

\* What the files, the reader and the thread's program point keep at every step.
THEOREM FileInvariance == Spec => []FileInv
<1>1. Init => FileInv
  BY InitFile
<1>2. FileInv /\ [Next]_vars => FileInv'
  BY NextFile
<1>3. QED
  BY <1>1, <1>2, PTL DEF Spec

\* The bounds and types of on_modify's state: file_position never passes the end of
\* the current file, partial_line never outgrows MAX_PARTIAL between two reads, every
\* existing file is in the order of last writes, and only lines that the node has begun
\* are handed to the listener.
THEOREM FileTypes == Spec => []TypeOK
<1>1. ASSUME FileInv PROVE TypeOK
  <2>1. FilesOK /\ ReaderOK /\ TaskOK
    BY <1>1 DEF FileInv
  <2>2. Range(mtimes) = 1 .. Len(mtimes)
    <3>1. \A i \in DOMAIN mtimes : mtimes[i] \in 1..Len(mtimes)
      <4>1. PICK S : S = 1..Len(mtimes)
        OBVIOUS
      <4>2. mtimes \in Seq(S)
        BY <2>1, <4>1 DEF FilesOK
      <4>3. \A i \in DOMAIN mtimes : mtimes[i] \in S
        BY <4>2
      <4>4. QED
        BY <4>1, <4>3
    <3>2. \A f \in 1..Len(mtimes) : \E i \in DOMAIN mtimes : mtimes[i] = f
      BY <2>1 DEF FilesOK
    <3>3. QED
      BY <3>1, <3>2, Zenon DEF Range
  <2>3. current_path # 0 => file_position \in 0 .. Len(disk[current_path])
    BY <2>1 DEF ReaderOK, Precedes
  <2>4. sent \subseteq Heights
    BY <2>1 DEF ReaderOK, FilesOK, Heights
  <2>5. {desynced, flagged, graceUp, due, late} \subseteq BOOLEAN
    BY <2>1, Zenon DEF TaskOK, FilesOK
  <2>6. QED
    BY <2>1, <2>2, <2>3, <2>4, <2>5 DEF TypeOK, FilesOK, ReaderOK, TaskOK
<1>2. QED
  BY <1>1, FileInvariance, PTL

\* What partial_line holds is always what the current file has just before
\* file_position, with no newline in it, whatever the node writes, whichever file the
\* reader has switched to and wherever the backfill left off.
THEOREM PartialPrecedes == Spec => []PartialPrecedesPosition
<1>1. ASSUME FileInv PROVE PartialPrecedesPosition
  <2>1. FilesOK /\ ReaderOK
    BY <1>1 DEF FileInv
  <2>2. PICK p : p = partial_line
    OBVIOUS
  <2>3. PICK pos : pos = file_position
    OBVIOUS
  <2>4. p \in Seq(Units)
    BY <2>1, <2>2 DEF ReaderOK
  <2>5. CASE current_path = 0
    <3>1. partial_line = <<>> /\ file_position = 0
      BY <2>1, <2>5 DEF ReaderOK
    <3>2. Tails(partial_line) = {}
      BY <3>1 DEF Tails
    <3>3. QED
      BY <2>5, <3>1, <3>2 DEF PartialPrecedesPosition
  <2>6. CASE current_path # 0
    <3>1. PICK d : d = disk[current_path]
      OBVIOUS
    <3>2. current_path \in Files
      BY <2>1, <2>6, FileTailAssumption DEF FilesOK, ReaderOK, Files
    <3>3. d \in Seq(Units)
      BY <2>1, <3>1, <3>2 DEF FilesOK
    <3>4. Precedes(p, d, pos)
      BY <2>1, <2>2, <2>3, <2>6, <3>1 DEF ReaderOK
    <3>5. /\ pos \in 0..Len(d) /\ Len(p) <= pos /\ Len(p) \in Nat
          /\ \A i \in 1..Len(p) : p[i] = d[(pos - Len(p)) + i] /\ p[i].at # "tail"
      BY <2>4, <3>4 DEF Precedes
    <3>6. Tails(p) = {}
      BY <2>4, <3>5 DEF Tails
    <3>7. p = SubSeq(d, pos - Len(p) + 1, pos)
      <4>1. PICK s : s = SubSeq(d, pos - Len(p) + 1, pos)
        OBVIOUS
      <4>2. /\ s \in Seq(Units) /\ Len(s) = Len(p)
            /\ \A i \in 1..Len(p) : s[i] = d[(pos - Len(p)) + i]
        BY <3>3, <3>5, <4>1
      <4>3. \A i \in 1..Len(p) : s[i] = p[i]
        BY <3>5, <4>2
      <4>4. s = p
        BY <2>4, <4>2, <4>3
      <4>5. QED
        BY <4>1, <4>4
    <3>8. QED
      BY <2>2, <2>3, <3>1, <3>5, <3>6, <3>7 DEF PartialPrecedesPosition
  <2>7. QED
    BY <2>5, <2>6
<1>2. QED
  BY <1>1, FileInvariance, PTL
=============================================================================
