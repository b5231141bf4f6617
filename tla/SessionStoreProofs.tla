-------------------------- MODULE SessionStoreProofs --------------------------
(***************************************************************************)
(* Theorems of SessionStore, for every number of chats, entries, subagents, *)
(* failures and crashes.                                                   *)
(***************************************************************************)
EXTENDS SessionStore, FiniteSetTheorems, TLAPS

\* A set of numbers has a least one, because the intervals 0..m are finite sets
\* and strict inclusion of finite sets is well-founded.
LEMMA LeastNumber ==
  ASSUME NEW T, T \subseteq Nat, T # {}
  PROVE  \E m \in T : \A n \in T : m <= n
<1> DEFINE U == { 0..m : m \in T }
           R == StrictSubsetOrdering(Nat)
<1>1. U \subseteq FiniteSubsetsOf(Nat) /\ U # {}
  <2>1. \A m \in T : 0..m \subseteq Nat /\ IsFiniteSet(0..m)
    BY FS_Interval
  <2> QED
    BY <2>1 DEF FiniteSubsetsOf
<1>2. PICK X \in U : \A Y \in U : ~(<<Y, X>> \in R)
  <2> HIDE DEF U, R
  <2> QED
    BY <1>1, FS_StrictSubsetOrderingWellFounded, WFMin DEF R
<1>3. PICK m \in T : X = 0..m
  BY <1>2
<1>4. ASSUME NEW n \in T, n < m PROVE FALSE
  <2>1. m \in 0..m /\ m \notin 0..n
    BY <1>4
  <2>2. 0..n \in SUBSET 0..m /\ 0..n # 0..m /\ 0..n \in SUBSET Nat /\ 0..m \in SUBSET Nat
    BY <1>4, <2>1
  <2>3. <<0..n, 0..m>> \in R
    BY <2>2 DEF StrictSubsetOrdering
  <2>4. 0..n \in U
    OBVIOUS
  <2> HIDE DEF R, U
  <2> QED
    BY <1>2, <1>3, <2>3, <2>4
<1> QED
  BY <1>4

\* Induction up to a number N, as a fact about the set G of those for which
\* something is true.
LEMMA UpTo ==
  ASSUME NEW N \in Nat, NEW G, 0 \in G, \A n \in 1..N : n - 1 \in G => n \in G
  PROVE  \A n \in 0..N : n \in G
<1> SUFFICES ASSUME { n \in 0..N : n \notin G } # {} PROVE FALSE
  OBVIOUS
<1>1. PICK m \in 0..N : m \notin G /\ \A n \in 0..N : n \notin G => m <= n
  <2> DEFINE B == { n \in 0..N : n \notin G }
  <2>1. B \subseteq Nat /\ B # {}
    OBVIOUS
  <2> HIDE DEF B
  <2>2. PICK m \in B : \A n \in B : m <= n
    BY <2>1, LeastNumber
  <2> QED
    BY <2>2 DEF B
<1>2. m # 0 /\ m \in 1..N /\ m - 1 \in 0..N /\ ~(m <= m - 1)
  BY <1>1
<1> QED
  BY <1>1, <1>2
-----------------------------------------------------------------------------
(* What Without returns.                                                   *)

NoDupBut(seq, gone) == \A i, j \in DOMAIN seq : seq[i] = seq[j] => i = j \/ seq[i] \in gone
NoDup(seq) == NoDupBut(seq, {})

\* The recursion of Without, for the first m elements.
Rest(seq, gone, f, m) ==
  f = [n \in 0..m |-> IF n = 0 THEN <<>>
                      ELSE IF seq[n] \in gone THEN f[n - 1] ELSE Append(f[n - 1], seq[n])]

LEMMA RestExists ==
  ASSUME NEW N \in Nat, NEW seq, NEW gone
  PROVE  \E f : Rest(seq, gone, f, N)
<1> DEFINE G == { m \in 0..N : \E f : Rest(seq, gone, f, m) }
<1>1. 0 \in G
  <2> DEFINE f == [n \in 0..0 |-> <<>>]
  <2>1. Rest(seq, gone, f, 0)
    BY DEF Rest
  <2> QED
    BY <2>1
<1>2. ASSUME NEW m \in 1..N, m - 1 \in G PROVE m \in G
  <2>1. PICK f : Rest(seq, gone, f, m - 1)
    BY <1>2
  <2> DEFINE last == IF seq[m] \in gone THEN f[m - 1] ELSE Append(f[m - 1], seq[m])
             g == [n \in 0..m |-> IF n = m THEN last ELSE f[n]]
  <2>2. ASSUME NEW n \in 0..m
        PROVE  g[n] = IF n = 0 THEN <<>>
                      ELSE IF seq[n] \in gone THEN g[n - 1] ELSE Append(g[n - 1], seq[n])
    <3>1. CASE n = m
      <4>1. g[n] = last /\ g[n - 1] = f[n - 1] /\ n # 0
        BY <3>1
      <4> QED
        BY <3>1, <4>1
    <3>2. CASE n # m /\ n # 0
      <4>1. n \in 0..m - 1 /\ n - 1 \in 0..m - 1 /\ n - 1 # m /\ n - 1 \in 0..m
        BY <3>2
      <4>2. f[n] = IF seq[n] \in gone THEN f[n - 1] ELSE Append(f[n - 1], seq[n])
        BY <2>1, <3>2, <4>1 DEF Rest
      <4>3. g[n] = f[n] /\ g[n - 1] = f[n - 1]
        BY <3>2, <4>1
      <4> QED
        BY <3>2, <4>2, <4>3
    <3>3. CASE n # m /\ n = 0
      <4>1. f[0] = <<>>
        BY <2>1, <3>3 DEF Rest
      <4> QED
        BY <3>3, <4>1
    <3> QED
      BY <3>1, <3>2, <3>3
  <2>3. DOMAIN g = 0..m /\ g = [n \in 0..m |-> g[n]]
    OBVIOUS
  <2> HIDE DEF g
  <2>4. Rest(seq, gone, g, m)
    BY <2>2, <2>3 DEF Rest
  <2> QED
    BY <2>4
<1> HIDE DEF G
<1>3. N \in G
  BY <1>1, <1>2, UpTo
<1> QED
  BY <1>3 DEF G

LEMMA WithoutIs ==
  ASSUME NEW T, NEW seq \in Seq(T), NEW gone
  PROVE  \E f : Rest(seq, gone, f, Len(seq)) /\ Without(seq, gone) = f[Len(seq)]
<1>1. Len(seq) \in Nat
  OBVIOUS
<1>2. \E f : Rest(seq, gone, f, Len(seq))
  BY <1>1, RestExists
<1> QED
  BY <1>2 DEF Rest, Without
LEMMA WithoutFacts ==
  ASSUME NEW T, NEW seq \in Seq(T), NEW gone
  PROVE  /\ Without(seq, gone) \in Seq(T)
         /\ Ids(Without(seq, gone)) = Ids(seq) \ gone
         /\ NoDupBut(seq, gone) => NoDup(Without(seq, gone))
<1> DEFINE N == Len(seq)
<1>1. PICK f : Rest(seq, gone, f, N) /\ Without(seq, gone) = f[N]
  BY WithoutIs
<1> DEFINE Fine(n) == /\ f[n] \in Seq(T)
                      /\ Ids(f[n]) = { seq[i] : i \in 1..n } \ gone
                      /\ NoDupBut(seq, gone) => NoDup(f[n])
           G == { n \in 0..N : Fine(n) }
<1>2. N \in Nat /\ DOMAIN seq = 1..N
  OBVIOUS
<1>3. 0 \in G
  <2>1. f[0] = <<>>
    BY <1>1, <1>2 DEF Rest
  <2>2. f[0] \in Seq(T) /\ Ids(f[0]) = {} /\ NoDup(f[0])
    BY <2>1 DEF Ids, NoDup, NoDupBut
  <2>3. { seq[i] : i \in 1..0 } = {}
    OBVIOUS
  <2> QED
    BY <1>2, <2>2, <2>3
<1>4. ASSUME NEW n \in 1..N, n - 1 \in G PROVE n \in G
  <2>1. /\ n - 1 \in 0..N /\ n \in 0..N /\ n # 0 /\ seq[n] \in T
        /\ f[n - 1] \in Seq(T)
        /\ Ids(f[n - 1]) = { seq[i] : i \in 1..n - 1 } \ gone
        /\ NoDupBut(seq, gone) => NoDup(f[n - 1])
    BY <1>2, <1>4
  <2>2. f[n] = IF seq[n] \in gone THEN f[n - 1] ELSE Append(f[n - 1], seq[n])
    <3> HIDE DEF G
    <3> QED
      BY <1>1, <2>1 DEF Rest
  <2>3. { seq[i] : i \in 1..n } = { seq[i] : i \in 1..n - 1 } \union {seq[n]}
    <3>1. 1..n = (1..n - 1) \union {n}
      BY <2>1
    <3> QED
      BY <3>1
  <2>4. CASE seq[n] \in gone
    BY <2>1, <2>2, <2>3, <2>4
  <2>5. CASE seq[n] \notin gone
    <3> DEFINE s == f[n - 1]
    <3>1. f[n] = Append(s, seq[n]) /\ s \in Seq(T)
      BY <2>1, <2>2, <2>5
    <3>2. /\ DOMAIN f[n] = (DOMAIN s) \union {Len(s) + 1} /\ f[n][Len(s) + 1] = seq[n]
          /\ \A i \in DOMAIN s : f[n][i] = s[i] /\ i # Len(s) + 1
      BY <2>1, <3>1
    <3>3. Ids(f[n]) = Ids(s) \union {seq[n]}
      <4> HIDE DEF s, G
      <4> QED
        BY <3>2 DEF Ids
    <3>4. ASSUME NoDupBut(seq, gone) PROVE NoDup(f[n])
      <4>1. seq[n] \notin Ids(s)
        <5>1. \A i \in 1..n - 1 : i \in DOMAIN seq /\ n \in DOMAIN seq /\ i # n
          BY <1>2
        <5>2. \A i \in 1..n - 1 : seq[i] # seq[n]
          BY <2>5, <3>4, <5>1 DEF NoDupBut
        <5> HIDE DEF s, G
        <5> QED
          BY <2>1, <5>2 DEF s
      <4>2. NoDup(s)
        BY <2>1, <3>4
      <4> HIDE DEF s, G
      <4> QED
        BY <3>2, <4>1, <4>2 DEF NoDup, NoDupBut, Ids
    <3>5. f[n] \in Seq(T)
      BY <2>1, <3>1
    <3>6. Ids(f[n]) = { seq[i] : i \in 1..n } \ gone
      BY <2>1, <2>3, <2>5, <3>3
    <3> QED
      BY <2>1, <3>4, <3>5, <3>6
  <2> QED
    BY <2>4, <2>5
<1>5. N \in G
  <2> HIDE DEF N, Fine, G
  <2> QED
    BY <1>2, <1>3, <1>4, UpTo
<1>6. { seq[i] : i \in 1..N } = Ids(seq)
  BY <1>2 DEF Ids
<1> QED
  BY <1>1, <1>5, <1>6
-----------------------------------------------------------------------------
(* What Path returns: every entry comes after its parent.                  *)

\* The recursion of Path, for the entries up to m.
Up(es, ids, f, m) ==
  f = [id \in 0..m |-> IF id \in ids THEN Append(f[es[id].parent], id) ELSE <<>>]

Backwards(es) == \A id \in DOMAIN es : es[id].parent \in Nat /\ es[id].parent < id

LEMMA UpExists ==
  ASSUME NEW S, NEW es \in Seq(S), Backwards(es), NEW ids, ids \subseteq 1..Len(es)
  PROVE  \E f : Up(es, ids, f, Len(es))
<1> DEFINE N == Len(es)
           G == { m \in 0..N : \E f : Up(es, ids, f, m) }
<1>1. N \in Nat /\ DOMAIN es = 1..N
  OBVIOUS
<1>2. 0 \in G
  <2> DEFINE f == [id \in 0..0 |-> <<>>]
  <2>1. \A id \in 0..0 : id \notin ids
    OBVIOUS
  <2>2. f = [id \in 0..0 |-> IF id \in ids THEN Append(f[es[id].parent], id) ELSE <<>>]
    BY <2>1
  <2>3. Up(es, ids, f, 0)
    BY <2>2 DEF Up
  <2> QED
    BY <1>1, <2>3
<1>3. ASSUME NEW m \in 1..N, m - 1 \in G PROVE m \in G
  <2>1. PICK f : Up(es, ids, f, m - 1)
    BY <1>3
  <2> DEFINE last == IF m \in ids THEN Append(f[es[m].parent], m) ELSE <<>>
             g == [id \in 0..m |-> IF id = m THEN last ELSE f[id]]
  <2>2. ASSUME NEW id \in 0..m
        PROVE  g[id] = IF id \in ids THEN Append(g[es[id].parent], id) ELSE <<>>
    <3>1. ASSUME id \in ids PROVE es[id].parent \in 0..m - 1 /\ g[es[id].parent] = f[es[id].parent]
      BY <1>1, <3>1 DEF Backwards
    <3>2. CASE id = m
      BY <3>1, <3>2
    <3>3. CASE id # m
      <4>1. id \in 0..m - 1
        BY <3>3
      <4>2. f[id] = IF id \in ids THEN Append(f[es[id].parent], id) ELSE <<>>
        BY <2>1, <4>1 DEF Up
      <4>3. g[id] = f[id]
        BY <3>3
      <4> HIDE DEF g
      <4> QED
        BY <3>1, <4>2, <4>3
    <3> QED
      BY <3>2, <3>3
  <2>3. g = [id \in 0..m |-> g[id]]
    OBVIOUS
  <2> HIDE DEF g
  <2>4. Up(es, ids, g, m)
    BY <2>2, <2>3 DEF Up
  <2> QED
    BY <1>1, <2>4
<1>4. N \in G
  <2> HIDE DEF N, G
  <2> QED
    BY <1>1, <1>2, <1>3, UpTo
<1> QED
  BY <1>4

LEMMA PathTyped ==
  ASSUME NEW S, NEW es \in Seq(S), Backwards(es),
         NEW state, Ids(state.entries) \subseteq 1..Len(es), state.leaf \in 0..Len(es)
  PROVE  Path(es, state) \in Seq(1..Len(es))
<1> DEFINE N == Len(es)
           ids == Ids(state.entries)
<1>1. N \in Nat /\ DOMAIN es = 1..N
  OBVIOUS
<1>2. \E f : Up(es, ids, f, N)
  <2> HIDE DEF ids
  <2> QED
    BY UpExists DEF ids
<1>3. PICK f : Up(es, ids, f, N) /\ Path(es, state) = f[state.leaf]
  BY <1>2 DEF Up, Path
<1> DEFINE G == { n \in 0..N : \A m \in 0..n : f[m] \in Seq(1..N) }
<1>4. ASSUME NEW n \in 0..N, \A m \in 0..n - 1 : f[m] \in Seq(1..N) PROVE f[n] \in Seq(1..N)
  <2> HIDE DEF ids
  <2>1. f[n] = IF n \in ids THEN Append(f[es[n].parent], n) ELSE <<>>
    BY <1>3 DEF Up
  <2>2. CASE n \in ids
    <3>1. n \in 1..N /\ es[n].parent \in 0..n - 1
      BY <1>1, <2>2 DEF Backwards, ids
    <3> QED
      BY <1>4, <2>1, <2>2, <3>1
  <2>3. CASE n \notin ids
    BY <2>1, <2>3
  <2> QED
    BY <2>2, <2>3
<1>5. 0 \in G
  <2>1. \A m \in 0..0 - 1 : f[m] \in Seq(1..N)
    OBVIOUS
  <2>2. f[0] \in Seq(1..N)
    BY <1>1, <1>4, <2>1
  <2> QED
    BY <1>1, <2>2
<1>6. ASSUME NEW n \in 1..N, n - 1 \in G PROVE n \in G
  <2>1. n \in 0..N /\ \A m \in 0..n - 1 : f[m] \in Seq(1..N)
    BY <1>6
  <2>2. f[n] \in Seq(1..N)
    BY <1>4, <2>1
  <2>3. \A m \in 0..n : m = n \/ m \in 0..n - 1
    OBVIOUS
  <2> QED
    BY <2>1, <2>2, <2>3
<1>7. \A n \in 0..N : n \in G
  <2> HIDE DEF N, G
  <2> QED
    BY <1>1, <1>5, <1>6, UpTo
<1>8. state.leaf \in G /\ state.leaf \in 0..state.leaf
  <2> HIDE DEF G
  <2> QED
    BY <1>7
<1> QED
  BY <1>3, <1>8
-----------------------------------------------------------------------------
(* The invariant.                                                          *)

EntryRecord == [parent : Nat, kind : Kind, answers : SUBSET (Nat \X {1, 2}), by : Writer]
FileRecord  == [header : BOOLEAN, lines : Seq(Nat), cut : BOOLEAN]
StateRecord == [entries : Seq(Nat), leaf : Nat, flushed : BOOLEAN]
OpRecord    == [at : OpAt, mode : {"append", "rewrite"}, id : Nat, ids : Seq(Nat),
                next : Kind \union {"none"}]

\* The types but for the number of entries.
Types ==
  /\ entries \in Seq(EntryRecord)
  /\ file \in FileRecord /\ (file.cut => file.lines # <<>>)
  /\ lock \in [owner : {Dead - 1, Dead} \union Writer, stamped : BOOLEAN]
  /\ mem \in [Chat -> StateRecord]
  /\ pending \in [Chat -> SUBSET (Nat \X {1, 2})]
  /\ chat \in 0..MaxChats /\ run \in RunAt
  /\ op \in [Writer -> OpRecord]
  /\ sub \in [Chat -> {"none", "works", "reports"}]
  /\ log \in Seq(Nat) /\ excused \subseteq Nat
  /\ holed \subseteq Chat /\ damaged \in BOOLEAN /\ astray \in BOOLEAN
  /\ subs \in 0..MaxSubs /\ fails \in 0..MaxFails /\ crashes \in 0..MaxCrashes

\* Everything speaks of entries there are, and an entry of earlier ones.
Refers ==
  /\ Backwards(entries)
  /\ \A id \in DOMAIN entries :
       entries[id].answers \subseteq (1..Len(entries)) \X {1, 2}
  /\ Lines \subseteq 0..Len(entries) /\ Ids(log) \subseteq 1..Len(entries)
  /\ excused \subseteq 1..Len(entries)
  /\ \A a \in Chat :
       /\ Ids(mem[a].entries) \subseteq 1..Len(entries) /\ mem[a].leaf <= Len(entries)
       /\ \A c \in pending[a] : c[1] \in DOMAIN entries /\ entries[c[1]].kind = "use"
  /\ \A w \in Writer :
       op[w].id <= Len(entries) /\ Ids(op[w].ids) \subseteq 1..Len(entries)

\* Where a run is, what it awaits, and what its subagent does.
RunControl ==
  /\ run # "none" => chat \in Chat
  /\ ~Idle(Run) => run \notin {"none", "begin"}
  /\ run = "begin" => sub[chat] = "none"
  /\ op[Run].mode = "rewrite" => sub[chat] = "none" /\ run # "tools" /\ ~Idle(Run)
  /\ run = "tools" /\ Idle(Run) => mem[chat].flushed
  /\ op[Run].mode = "append" /\ op[Run].at = "fill" => ~mem[chat].flushed
  /\ op[Run].mode = "append" /\ op[Run].at = "release" => mem[chat].flushed

\* A subagent only adds lines: the session is on file before it is made.
SubControl ==
  \A a \in Chat :
    /\ sub[a] # "none" => a <= chat /\ mem[a].flushed
    /\ ~Idle(a) => sub[a] = "reports"
    /\ op[a].mode = "append" /\ op[a].at # "fill" /\ op[a].ids = <<>>

\* An append is of the writer's own entry.
Own(w) ==
  ~Idle(w) /\ op[w].mode = "append" =>
    op[w].id \in DOMAIN entries /\ entries[op[w].id].by = w

Unwritten(w) ==
  op[w].mode = "append" /\ op[w].at \in {"open", "stamp", "inspect", "remove", "write"}

\* No entry is twice in memory or in what is written, and one whose line is yet
\* to be written is nowhere but with the one who writes it.
Distinct ==
  /\ NoLineTwice
  /\ \A a \in Chat : NoDup(mem[a].entries)
  /\ NoDup(op[Run].ids)
  /\ \A w \in Writer : Unwritten(w) =>
       /\ op[w].id \notin Lines
       /\ \A b \in Chat : b # Agent(w) => op[w].id \notin Ids(mem[b].entries)
       /\ w # Run => op[w].id \notin Ids(op[Run].ids)

\* A run's own entry is in its memory until it is on file.
Kept ==
  op[Run].mode = "append" =>
    /\ Unwritten(Run) => op[Run].id \in Ids(mem[chat].entries)
    /\ op[Run].at = "fill" => op[Run].id \in Ids(op[Run].ids)

\* What has been acknowledged is on file, unless the file is being rewritten.
OnFile ==
  /\ file.cut => damaged
  /\ ~damaged /\ op[Run].at # "fill" =>
       /\ \A i \in DOMAIN log : entries[log[i]].by # Run \/ log[i] \in Lines
       /\ ~file.header => file.lines = <<>>
       /\ \A a \in Chat : mem[a].flushed => file.header
       /\ Written(Run) => op[Run].id \in Lines
  /\ ~damaged /\ run # "none" /\ ~mem[chat].flushed =>
       \A i \in DOMAIN log : entries[log[i]].by # Run

Inv ==
  /\ Types /\ Refers
  /\ RunControl /\ SubControl
  /\ \A w \in Writer : Own(w)
  /\ Distinct /\ Kept /\ OnFile

LEMMA SeqOf ==
  ASSUME NEW S, NEW T, NEW seq \in Seq(S), Ids(seq) \subseteq T
  PROVE  seq \in Seq(T)
<1>1. \A i \in 1..Len(seq) : seq[i] \in T
  BY DEF Ids
<1> QED
  BY <1>1

LEMMA IdsFacts ==
  ASSUME NEW S, NEW seq \in Seq(S), NEW x
  PROVE  /\ Ids(<<>>) = {} /\ NoDup(<<>>)
         /\ Ids(Append(seq, x)) = Ids(seq) \union {x}
         /\ NoDup(seq) /\ x \notin Ids(seq) => NoDup(Append(seq, x))
<1> DEFINE s == Append(seq, x)
<1>1. /\ DOMAIN s = (DOMAIN seq) \union {Len(seq) + 1} /\ s[Len(seq) + 1] = x
      /\ \A i \in DOMAIN seq : s[i] = seq[i] /\ i # Len(seq) + 1
  OBVIOUS
<1>2. Ids(<<>>) = {} /\ NoDup(<<>>)
  BY DEF Ids, NoDup, NoDupBut
<1> HIDE DEF s
<1>3. Ids(s) = Ids(seq) \union {x}
  BY <1>1 DEF Ids
<1>4. NoDup(seq) /\ x \notin Ids(seq) => NoDup(s)
  BY <1>1 DEF NoDup, NoDupBut, Ids
<1> QED
  BY <1>2, <1>3, <1>4 DEF s

LEMMA EmptySeq == Ids(<<>>) = {} /\ NoDup(<<>>)
  BY DEF Ids, NoDup, NoDupBut

LEMMA WriterFacts ==
  /\ MaxChats \in Nat /\ Run \in Writer /\ Chat \subseteq Writer /\ Run \notin Chat
  /\ \A w \in Writer : w = Run \/ w \in Chat
  BY StoreAssumption DEF Run, Writer, Chat

LEMMA TypesSuffice == Types /\ Refers => TypeOK
<1> SUFFICES ASSUME Types, Refers PROVE TypeOK
  OBVIOUS
<1> DEFINE N == Len(entries)
<1>1. N \in Nat /\ DOMAIN entries = 1..N
  BY DEF Types
<1>2. file.lines \in Seq(0..N) /\ log \in Seq(1..N)
  <2>1. /\ file.lines \in Seq(Nat) /\ Ids(file.lines) \subseteq 0..N
        /\ log \in Seq(Nat) /\ Ids(log) \subseteq 1..N
    BY DEF Types, Refers, FileRecord, Lines
  <2> HIDE DEF N
  <2> QED
    BY <2>1, SeqOf
<1>3. \A a \in Chat : mem[a].entries \in Seq(1..N)
  <2>1. \A a \in Chat : mem[a].entries \in Seq(Nat) /\ Ids(mem[a].entries) \subseteq 1..N
    BY DEF Types, Refers, StateRecord
  <2> HIDE DEF N
  <2> QED
    BY <2>1, SeqOf
<1>4. \A w \in Writer : op[w].ids \in Seq(1..N)
  <2>1. \A w \in Writer : op[w].ids \in Seq(Nat) /\ Ids(op[w].ids) \subseteq 1..N
    BY DEF Types, Refers, OpRecord
  <2> HIDE DEF N
  <2> QED
    BY <2>1, SeqOf
<1>5. pending \in [Chat -> SUBSET ((1..N) \X {1, 2})]
  BY <1>1 DEF Types, Refers
<1>6. \A w \in Writer : op[w].id \in 0..N
  BY <1>1 DEF Types, Refers, OpRecord
<1>7. \A a \in Chat : mem[a].leaf \in 0..N /\ mem[a].flushed \in BOOLEAN
  BY <1>1 DEF Types, Refers, StateRecord
<1>8. \A w \in Writer : /\ op[w].at \in OpAt /\ op[w].mode \in {"append", "rewrite"}
                        /\ op[w].next \in Kind \union {"none"}
  BY DEF Types, OpRecord
<1>9. \A a \in Chat : \A c \in pending[a] : entries[c[1]].kind = "use"
  BY DEF Refers
<1> HIDE DEF N
<1> QED
  BY <1>2, <1>3, <1>4, <1>5, <1>6, <1>7, <1>8, <1>9
  DEF TypeOK, Types, Refers, N, FileRecord, EntryRecord

LEMMA InitInv == Init => Inv
<1> SUFFICES ASSUME Init PROVE Inv
  OBVIOUS
<1>1. /\ \A a \in Chat : /\ mem[a].entries = <<>> /\ mem[a].leaf = 0 /\ ~mem[a].flushed
                         /\ pending[a] = {} /\ sub[a] = "none"
      /\ \A w \in Writer : op[w] = NoOp
      /\ file.lines = <<>> /\ ~file.header /\ ~file.cut
      /\ Run \in Writer /\ Chat \subseteq Writer
  BY StoreAssumption DEF Init, NewState, Null, NoFile, Run, Writer, Chat
<1>2. NoOp \in OpRecord /\ NewState \in StateRecord /\ NoFile \in FileRecord
  BY DEF NoOp, OpRecord, OpAt, NewState, StateRecord, NoFile, FileRecord, Null
<1>3. /\ MaxChats \in Nat /\ MaxSubs \in Nat /\ MaxFails \in Nat /\ MaxCrashes \in Nat
      /\ NoLock \in [owner : {Dead - 1, Dead} \union Writer, stamped : BOOLEAN]
  BY StoreAssumption DEF NoLock
<1>4. Types
  <2>1. entries \in Seq(EntryRecord) /\ log \in Seq(Nat)
    BY DEF Init
  <2>2. mem \in [Chat -> StateRecord] /\ op \in [Writer -> OpRecord] /\ file \in FileRecord
    BY <1>2 DEF Init
  <2>3. /\ pending \in [Chat -> SUBSET (Nat \X {1, 2})]
        /\ sub \in [Chat -> {"none", "works", "reports"}]
    BY DEF Init
  <2>4. /\ lock \in [owner : {Dead - 1, Dead} \union Writer, stamped : BOOLEAN]
        /\ chat \in 0..MaxChats /\ run \in RunAt /\ ~file.cut
        /\ subs \in 0..MaxSubs /\ fails \in 0..MaxFails /\ crashes \in 0..MaxCrashes
    BY <1>1, <1>3 DEF Init, RunAt
  <2>5. excused = {} /\ holed = {} /\ damaged = FALSE /\ astray = FALSE
    BY DEF Init
  <2> QED
    BY <2>1, <2>2, <2>3, <2>4, <2>5 DEF Types
<1>5. Refers
  <2>1. entries = <<>> /\ log = <<>> /\ excused = {} /\ Len(entries) = 0 /\ DOMAIN entries = {}
    BY DEF Init
  <2>2. \A w \in Writer : op[w].id = 0 /\ op[w].ids = <<>>
    BY <1>1 DEF NoOp, Null
  <2>3. Ids(<<>>) = {}
    BY DEF Ids
  <2> QED
    BY <1>1, <2>1, <2>2, <2>3 DEF Refers, Backwards, Lines
<1>6. \A w \in Writer : op[w].at = "none" /\ op[w].mode = "append" /\ op[w].ids = <<>>
  BY <1>1 DEF NoOp
<1>7. RunControl /\ SubControl /\ \A w \in Writer : Own(w)
  BY <1>1, <1>6 DEF Init, RunControl, SubControl, Own, Idle
<1>8. NoDup(<<>>)
  BY DEF NoDup, NoDupBut
<1>9. Distinct
  BY <1>1, <1>6, <1>8 DEF Distinct, NoLineTwice, Unwritten
<1>10. Kept /\ OnFile
  BY <1>1, <1>6 DEF Init, Kept, OnFile, Unwritten, Written
<1> QED
  BY <1>4, <1>5, <1>7, <1>9, <1>10 DEF Inv
-----------------------------------------------------------------------------
(* Steps that put an entry: the appends of a run, of a flush and of a      *)
(* subagent, and a message that waited for a flush.                        *)

Adds(w) ==
  \E kind \in Kind, answers \in SUBSET ((1..Len(entries)) \X {1, 2}),
     next \in Kind \union {"none"} : Put(w, kind, answers, next)

Fewer(p, q) == q \in [Chat -> SUBSET (Nat \X {1, 2})] /\ \A a \in Chat : q[a] \subseteq p[a]

LogGrows(w) == log' = log \/ (Written(w) /\ log' = Append(log, op[w].id))

\* Something is, or may still be, put through the memory of the chat.
Live ==
  chat \in Chat /\ (\/ run \notin {"none", "finally"} \/ ~Idle(Run)
                    \/ sub[chat] # "none" \/ pending[chat] # {})

AddStep(w) ==
  /\ op[w].at \in {"none", "release"} /\ Agent(w) \in Chat
  /\ Adds(w) /\ Fewer(pending, pending')
  /\ sub' = IF w = Run THEN sub ELSE [sub EXCEPT ![w] = "reports"]
  /\ IF w = Run THEN run # "none" /\ run' \in RunAt \ {"none", "begin"}
                ELSE run' = run /\ sub[w] # "none"
  /\ LogGrows(w) /\ (Written(w) => log' = Append(log, op[w].id))
  /\ Agent(w) = chat => Live
  /\ lock' \in {lock, NoLock}
  /\ UNCHANGED <<file, chat, excused, damaged, holed, bounds>>

LEMMA AppendAdds ==
  ASSUME Inv, NEW w \in Writer, Agent(w) \in Chat, NEW kind \in Kind,
         NEW answers \in SUBSET ((1..Len(entries)) \X {1, 2}),
         AppendMessage(w, kind, answers)
  PROVE  Adds(w) /\ Fewer(pending, pending')
<1> DEFINE N == Len(entries)
<1>1. /\ pending \in [Chat -> SUBSET (Nat \X {1, 2})]
      /\ pending[Agent(w)] \in SUBSET ((1..N) \X {1, 2})
      /\ {} \in SUBSET ((1..N) \X {1, 2})
  <2>1. N \in Nat /\ DOMAIN entries = 1..N
    BY DEF Inv, Types
  <2> QED
    BY <2>1 DEF Inv, Types, Refers
<1>2. CASE kind = "result" /\ Put(w, kind, answers, "none")
           /\ pending' = [pending EXCEPT ![Agent(w)] = @ \ answers]
  BY <1>1, <1>2 DEF Adds, Fewer
<1>3. CASE Flush(w, kind)
  <2>1. "result" \in Kind
    BY DEF Kind
  <2> QED
    BY <1>1, <1>3, <2>1 DEF Flush, Adds, Fewer
<1>4. CASE Put(w, kind, {}, "none") /\ UNCHANGED pending
  BY <1>1, <1>4 DEF Adds, Fewer
<1> QED
  BY <1>2, <1>3, <1>4 DEF AppendMessage

\* What an added entry changes.
LEMMA AddsFacts ==
  ASSUME Types, Refers, NEW w \in Writer, Agent(w) \in Chat, Adds(w)
  PROVE  LET a == Agent(w)
             n == Len(entries) + 1
         IN /\ n \in Nat /\ DOMAIN entries = 1..Len(entries) /\ DOMAIN entries' = 1..n
            /\ Len(entries') = n /\ entries' \in Seq(EntryRecord)
            /\ \A i \in 1..Len(entries) : entries'[i] = entries[i] /\ i # n
            /\ entries'[n].parent < n /\ entries'[n].by = w
            /\ entries'[n].parent = mem[a].leaf
            /\ entries'[n].answers \subseteq (1..Len(entries)) \X {1, 2}
            /\ mem' \in [Chat -> StateRecord]
            /\ mem'[a].entries = Append(mem[a].entries, n)
            /\ Ids(mem'[a].entries) = Ids(mem[a].entries) \union {n}
            /\ mem'[a].leaf = n
            /\ \A b \in Chat : /\ mem'[b].flushed = mem[b].flushed
                               /\ b # a => mem'[b] = mem[b]
            /\ op' \in [Writer -> OpRecord]
            /\ op'[w].at = "open" /\ op'[w].mode = "append"
            /\ op'[w].id = n /\ op'[w].ids = <<>>
            /\ \A v \in Writer : v # w => op'[v] = op[v]
            /\ astray' \in BOOLEAN /\ (~astray' => ~astray /\ a \notin holed /\ ~Meets(w))
<1> DEFINE a == Agent(w)
           N == Len(entries)
<1>1. PICK kind \in Kind, answers \in SUBSET ((1..N) \X {1, 2}), next \in Kind \union {"none"} :
        Put(w, kind, answers, next)
  BY DEF Adds
<1> DEFINE e == [parent |-> mem[a].leaf, kind |-> kind, answers |-> answers, by |-> w]
<1>2. N \in Nat /\ DOMAIN entries = 1..N /\ mem[a] \in StateRecord /\ mem[a].leaf <= N
  BY DEF Types, Refers
<1>3. e \in EntryRecord
  BY <1>1, <1>2 DEF EntryRecord, StateRecord
<1>4. entries' = Append(entries, e)
  BY <1>1 DEF Put
<1>5. /\ DOMAIN entries' = 1..N + 1 /\ Len(entries') = N + 1 /\ entries' \in Seq(EntryRecord)
      /\ entries'[N + 1] = e
      /\ \A i \in 1..N : entries'[i] = entries[i] /\ i # N + 1
  <2> HIDE DEF e
  <2> QED
    BY <1>2, <1>3, <1>4 DEF Types
<1>6. e.parent < N + 1 /\ e.by = w /\ e.answers \subseteq (1..N) \X {1, 2}
  BY <1>1, <1>2 DEF StateRecord
<1>7. mem' = [mem EXCEPT ![a] = [entries |-> Append(mem[a].entries, N + 1), leaf |-> N + 1,
                                 flushed |-> mem[a].flushed]]
  BY <1>1 DEF Put
<1>8. /\ mem' \in [Chat -> StateRecord]
      /\ mem'[a].entries = Append(mem[a].entries, N + 1) /\ mem'[a].leaf = N + 1
      /\ \A b \in Chat : /\ mem'[b].flushed = mem[b].flushed
                         /\ b # a => mem'[b] = mem[b]
  <2>1. a \in Chat /\ mem \in [Chat -> StateRecord] /\ N + 1 \in Nat
    BY <1>2 DEF Types
  <2> DEFINE x == [entries |-> Append(mem[a].entries, N + 1), leaf |-> N + 1,
                   flushed |-> mem[a].flushed]
  <2>3. mem' = [mem EXCEPT ![a] = x]
    BY <1>7
  <2>4. x \in StateRecord
    <3>1. Append(mem[a].entries, N + 1) \in Seq(Nat)
      BY <1>2 DEF StateRecord
    <3> QED
      BY <1>2, <2>1, <3>1 DEF StateRecord
  <2>5. mem'[a] = x /\ (\A b \in Chat : b # a => mem'[b] = mem[b]) /\ mem' \in [Chat -> StateRecord]
    <3> HIDE DEF x, a
    <3> QED
      BY <2>1, <2>3, <2>4
  <2> QED
    BY <2>5
<1>9. Ids(mem'[a].entries) = Ids(mem[a].entries) \union {N + 1}
  BY <1>2, <1>8, IdsFacts DEF StateRecord
<1>10. op' = [op EXCEPT ![w] = Opened("append", N + 1, <<>>, next)]
  BY <1>1 DEF Put
<1>11. /\ op' \in [Writer -> OpRecord]
       /\ op'[w].at = "open" /\ op'[w].mode = "append"
       /\ op'[w].id = N + 1 /\ op'[w].ids = <<>>
       /\ \A v \in Writer : v # w => op'[v] = op[v]
  <2>1. op \in [Writer -> OpRecord] /\ N + 1 \in Nat /\ next \in Kind \union {"none"}
    BY <1>1, <1>2 DEF Types
  <2> DEFINE x == [at |-> "open", mode |-> "append", id |-> N + 1, ids |-> <<>>, next |-> next]
  <2>2. op' = [op EXCEPT ![w] = x]
    BY <1>10 DEF Opened
  <2>3. x \in OpRecord
    BY <2>1 DEF OpRecord, OpAt
  <2>4. op'[w] = x /\ (\A v \in Writer : v # w => op'[v] = op[v]) /\ op' \in [Writer -> OpRecord]
    <3> HIDE DEF x
    <3> QED
      BY <2>1, <2>2, <2>3
  <2> QED
    BY <2>4
<1>12. astray' \in BOOLEAN /\ (~astray' => ~astray /\ a \notin holed /\ ~Meets(w))
  <2>1. astray' = (astray \/ a \in holed \/ Meets(w))
    BY <1>1 DEF Put
  <2> HIDE DEF a
  <2> QED
    BY <2>1
<1>13. /\ N + 1 \in Nat /\ entries'[N + 1].parent < N + 1 /\ entries'[N + 1].by = w
       /\ entries'[N + 1].answers \subseteq (1..N) \X {1, 2}
       /\ entries'[N + 1].parent = mem[a].leaf
  BY <1>2, <1>5, <1>6
<1> HIDE DEF a, e, N
<1>14. /\ N + 1 \in Nat /\ DOMAIN entries = 1..N /\ DOMAIN entries' = 1..N + 1
       /\ Len(entries') = N + 1 /\ entries' \in Seq(EntryRecord)
       /\ \A i \in 1..N : entries'[i] = entries[i] /\ i # N + 1
  BY <1>2, <1>5, <1>13
<1> QED
  BY <1>8, <1>9, <1>11, <1>12, <1>13, <1>14 DEF a, N

LEMMA LogFacts ==
  ASSUME Inv, NEW w \in Writer, LogGrows(w)
  PROVE  /\ log' \in Seq(Nat) /\ Ids(log') \subseteq 1..Len(entries)
         /\ Written(w) => op[w].id \in 1..Len(entries) /\ entries[op[w].id].by = w
         /\ \A i \in DOMAIN log : log[i] \in 1..Len(entries)
         /\ \A i \in DOMAIN log' : \/ i \in DOMAIN log /\ log'[i] = log[i]
                                   \/ Written(w) /\ log'[i] = op[w].id
<1> DEFINE N == Len(entries)
<1>1. N \in Nat /\ DOMAIN entries = 1..N /\ log \in Seq(Nat) /\ Ids(log) \subseteq 1..N
  BY DEF Inv, Types, Refers
<1>2. Written(w) => op[w].id \in 1..N /\ entries[op[w].id].by = w
  BY <1>1 DEF Inv, Written, Own, Idle
<1>3. \A i \in DOMAIN log : log[i] \in 1..N
  BY <1>1 DEF Ids
<1>4. CASE log' = log
  BY <1>1, <1>2, <1>3, <1>4
<1>5. CASE Written(w) /\ log' = Append(log, op[w].id)
  <2>1. op[w].id \in Nat /\ DOMAIN log = 1..Len(log) /\ Len(log) \in Nat
    BY <1>1, <1>2, <1>5
  <2>2. Ids(log') = Ids(log) \union {op[w].id}
    BY <1>1, <1>5, IdsFacts
  <2>3. ASSUME NEW i \in 1..Len(log) + 1, i \notin 1..Len(log) PROVE i = Len(log) + 1
    BY <2>1, <2>3
  <2>4. /\ DOMAIN log' = 1..Len(log) + 1 /\ log'[Len(log) + 1] = op[w].id
        /\ \A i \in 1..Len(log) : log'[i] = log[i]
    BY <1>1, <1>5
  <2>5. log' \in Seq(Nat)
    BY <1>1, <1>5, <2>1
  <2> QED
    BY <1>1, <1>2, <1>3, <1>5, <2>1, <2>2, <2>3, <2>4, <2>5
<1> QED
  BY <1>4, <1>5 DEF LogGrows

LEMMA AddStepInv ==
  ASSUME Inv, NEW w \in Writer, AddStep(w)
  PROVE  Inv'
<1> DEFINE a == Agent(w)
           N == Len(entries)
           n == N + 1
<1>1. /\ Types /\ Refers /\ RunControl /\ SubControl /\ (\A v \in Writer : Own(v))
      /\ Distinct /\ Kept /\ OnFile
  BY DEF Inv
<1>2. /\ a \in Chat /\ Adds(w) /\ Fewer(pending, pending')
      /\ op[w].at \in {"none", "release"}
      /\ UNCHANGED <<file, chat, excused, damaged, holed, subs, fails, crashes>>
  BY DEF AddStep, bounds
<1>3. /\ N \in Nat /\ n \in Nat /\ DOMAIN entries = 1..N /\ DOMAIN entries' = 1..n
      /\ Len(entries') = n /\ entries' \in Seq(EntryRecord)
      /\ \A i \in 1..N : entries'[i] = entries[i] /\ i # n
      /\ entries'[n].parent < n /\ entries'[n].by = w
      /\ entries'[n].answers \subseteq (1..N) \X {1, 2}
  BY <1>1, <1>2, AddsFacts
<1>4. /\ mem' \in [Chat -> StateRecord]
      /\ mem'[a].entries = Append(mem[a].entries, n)
      /\ Ids(mem'[a].entries) = Ids(mem[a].entries) \union {n} /\ mem'[a].leaf = n
      /\ \A b \in Chat : /\ mem'[b].flushed = mem[b].flushed
                         /\ b # a => mem'[b] = mem[b]
  BY <1>1, <1>2, AddsFacts
<1>5. /\ op' \in [Writer -> OpRecord]
      /\ op'[w].at = "open" /\ op'[w].mode = "append" /\ op'[w].id = n /\ op'[w].ids = <<>>
      /\ \A v \in Writer : v # w => op'[v] = op[v]
      /\ astray' \in BOOLEAN
  BY <1>1, <1>2, AddsFacts
<1>6. /\ log' \in Seq(Nat) /\ Ids(log') \subseteq 1..N
      /\ Written(w) => op[w].id \in 1..N /\ entries[op[w].id].by = w
      /\ \A i \in DOMAIN log : log[i] \in 1..N
      /\ \A i \in DOMAIN log' : \/ i \in DOMAIN log /\ log'[i] = log[i]
                                \/ Written(w) /\ log'[i] = op[w].id
  BY LogFacts DEF AddStep
<1>7. Lines' = Lines /\ Lines \subseteq 0..N
  BY <1>1, <1>2 DEF Lines, Refers
<1>8. /\ run' \in RunAt
      /\ IF w = Run THEN run # "none" /\ run' \notin {"none", "begin"}
                    ELSE run' = run /\ sub[w] # "none"
      /\ sub' = IF w = Run THEN sub ELSE [sub EXCEPT ![w] = "reports"]
      /\ lock' \in {lock, NoLock}
  BY <1>1 DEF AddStep, Types
<1>9. /\ sub' \in [Chat -> {"none", "works", "reports"}]
      /\ \A b \in Chat : /\ b # w => sub'[b] = sub[b]
                         /\ b = w => sub'[b] = "reports"
                         /\ sub'[b] = "none" <=> sub[b] = "none"
  BY <1>1, <1>8, WriterFacts DEF Types
<1>10. w = Run \/ (w \in Chat /\ w = a /\ w # Run /\ Idle(Run)' = Idle(Run) /\ op'[Run] = op[Run])
  BY <1>5, WriterFacts DEF Agent, Idle
<1>11. w = Run => a = chat
  BY DEF Agent
<1> HIDE DEF a, N, n
<1>12. Types'
  <2>1. lock' \in [owner : {Dead - 1, Dead} \union Writer, stamped : BOOLEAN]
    <3>1. NoLock \in [owner : {Dead - 1, Dead} \union Writer, stamped : BOOLEAN]
      BY DEF NoLock
    <3> QED
      BY <1>1, <1>8, <3>1 DEF Types
  <2>2. pending' \in [Chat -> SUBSET (Nat \X {1, 2})]
    BY <1>2 DEF Fewer
  <2> QED
    BY <1>1, <1>2, <1>3, <1>4, <1>5, <1>6, <1>8, <1>9, <2>1, <2>2 DEF Types
<1>13. Refers'
  <2>1. Backwards(entries')
    <3>1. \A i \in 1..n : i = n \/ i \in 1..N
      BY <1>3 DEF n
    <3>2. \A i \in 1..n : entries'[i].parent \in Nat
      <4>1. \A i \in 1..n : entries'[i] \in EntryRecord
        BY <1>3
      <4> QED
        BY <4>1 DEF EntryRecord
    <3> QED
      BY <1>1, <1>3, <3>1, <3>2 DEF Refers, Backwards
  <2>2. \A id \in 1..n : entries'[id].answers \subseteq (1..n) \X {1, 2}
    <3>1. \A i \in 1..n : i = n \/ i \in 1..N
      BY <1>3 DEF n
    <3>2. \A id \in 1..n : entries'[id].answers \subseteq (1..N) \X {1, 2}
      BY <1>1, <1>3, <3>1 DEF Refers, N
    <3>3. (1..N) \X {1, 2} \subseteq (1..n) \X {1, 2}
      BY <1>3 DEF n
    <3> QED
      BY <3>2, <3>3
  <2>3. \A b \in Chat : /\ Ids(mem'[b].entries) \subseteq 1..n
                        /\ mem'[b].leaf <= n
    <3>1. mem'[a].leaf <= n /\ Ids(mem[a].entries) \subseteq 1..N
      BY <1>1, <1>2, <1>3, <1>4 DEF Refers, N
    <3>2. 1..N \subseteq 1..n /\ n \in 1..n /\ N <= n /\ \A m \in Nat : m <= N => m <= n
      BY <1>3 DEF n
    <3>3. \A b \in Chat : b # a => Ids(mem'[b].entries) \subseteq 1..N /\ mem'[b].leaf <= N
                                   /\ mem'[b].leaf \in Nat
      BY <1>1, <1>4 DEF Refers, N, StateRecord
    <3> QED
      BY <1>4, <3>1, <3>2, <3>3
  <2>4. \A b \in Chat : \A c \in pending'[b] : c[1] \in 1..n /\ entries'[c[1]].kind = "use"
    BY <1>1, <1>2, <1>3 DEF Refers, Fewer, n
  <2>5. \A v \in Writer : op'[v].id <= n /\ Ids(op'[v].ids) \subseteq 1..n
    <3>1. Ids(<<>>) = {} /\ 1..N \subseteq 1..n /\ \A m \in Nat : m <= N => m <= n
      BY <1>3 DEF n, Ids
    <3>2. \A v \in Writer : v # w => /\ op'[v].id <= N /\ op'[v].id \in Nat
                                     /\ Ids(op'[v].ids) \subseteq 1..N
      BY <1>1, <1>5 DEF Refers, N, Types, OpRecord
    <3> QED
      BY <1>3, <1>5, <3>1, <3>2
  <2>6. Lines' \subseteq 0..n /\ Ids(log') \subseteq 1..n /\ excused' \subseteq 1..n
    <3>1. Ids(log') \subseteq 1..N
      BY <1>6
    <3>2. 0..N \subseteq 0..n /\ 1..N \subseteq 1..n
      BY <1>3 DEF n
    <3> QED
      BY <1>1, <1>2, <1>7, <3>1, <3>2 DEF Refers, N
  <2> QED
    BY <1>3, <2>1, <2>2, <2>3, <2>4, <2>5, <2>6 DEF Refers, N
<1>14. RunControl'
  <2>1. CASE w = Run
    BY <1>1, <1>2, <1>4, <1>5, <1>8, <1>11, <2>1 DEF RunControl, Idle
  <2>2. CASE w # Run
    BY <1>1, <1>2, <1>4, <1>8, <1>9, <1>10, <2>2 DEF RunControl, Idle
  <2> QED
    BY <2>1, <2>2
<1>15. SubControl'
  <2>1. ASSUME NEW b \in Chat
        PROVE  /\ sub'[b] # "none" => b <= chat' /\ mem'[b].flushed
               /\ op'[b].at # "none" => sub'[b] = "reports"
               /\ op'[b].mode = "append" /\ op'[b].at # "fill" /\ op'[b].ids = <<>>
    <3>1. b \in Writer
      BY DEF Chat, Writer
    <3> QED
      BY <1>1, <1>2, <1>4, <1>5, <1>9, <3>1 DEF SubControl, Idle
  <2> QED
    BY <2>1 DEF SubControl, Idle
<1>16. \A v \in Writer : Own(v)'
  BY <1>1, <1>3, <1>5 DEF Own, Idle, n
<1>17. Distinct'
  <2>1. NoLineTwice'
    BY <1>1, <1>2 DEF Distinct, NoLineTwice
  <2>2. \A b \in Chat : NoDup(mem'[b].entries)
    <3>1. mem[a].entries \in Seq(Nat) /\ NoDup(mem[a].entries) /\ n \notin Ids(mem[a].entries)
      BY <1>1, <1>2, <1>3 DEF Types, StateRecord, Refers, Distinct, N
    <3>2. NoDup(mem'[a].entries)
      BY <1>4, <3>1, IdsFacts
    <3> QED
      BY <1>1, <1>4, <3>2 DEF Distinct
  <2>3. NoDup(op'[Run].ids)
    BY <1>1, <1>5, <1>10, EmptySeq DEF Distinct
  <2>4. ASSUME NEW v \in Writer, Unwritten(v)'
        PROVE  /\ op'[v].id \notin Lines
               /\ \A b \in Chat : b # Agent(v) => op'[v].id \notin Ids(mem'[b].entries)
               /\ v # Run => op'[v].id \notin Ids(op'[Run].ids)
    <3>1. CASE v = w
      <4>1. n \notin Lines /\ \A b \in Chat : n \notin Ids(mem[b].entries)
        BY <1>1, <1>3, <1>7 DEF Refers, N, n
      <4>2. n \notin Ids(op[Run].ids)
        BY <1>1, <1>3, WriterFacts DEF Refers, N, n
      <4> QED
        BY <1>4, <1>5, <1>10, <3>1, <4>1, <4>2 DEF a
    <3>2. CASE v # w
      <4>1. Unwritten(v) /\ op'[v] = op[v]
        BY <1>5, <2>4, <3>2 DEF Unwritten
      <4>2. op[v].id \in 1..N /\ op[v].id # n
        BY <1>1, <1>3, <4>1 DEF Own, Idle, Unwritten
      <4>3. op'[Run].ids = op[Run].ids \/ Ids(op'[Run].ids) = {}
        BY <1>5, <1>10, EmptySeq
      <4> QED
        BY <1>1, <1>4, <4>1, <4>2, <4>3 DEF Distinct
    <3> QED
      BY <3>1, <3>2
  <2>5. \A v \in Writer : Agent(v)' = Agent(v)
    BY <1>2 DEF Agent
  <2> QED
    BY <1>7, <2>1, <2>2, <2>3, <2>4, <2>5 DEF Distinct
<1>18. Kept'
  <2>1. CASE w = Run
    BY <1>2, <1>4, <1>5, <1>11, <2>1 DEF Kept, Unwritten
  <2>2. CASE w # Run
    <3>1. op[Run].mode = "append" /\ Unwritten(Run) => chat \in Chat
      BY <1>1 DEF RunControl, Unwritten, Idle
    <3>2. \A b \in Chat : Ids(mem[b].entries) \subseteq Ids(mem'[b].entries)
      BY <1>4
    <3> QED
      BY <1>1, <1>2, <1>10, <2>2, <3>1, <3>2 DEF Kept, Unwritten
  <2> QED
    BY <2>1, <2>2
<1>19. OnFile'
  <2>1. op'[Run].at # "fill" => op[Run].at # "fill"
    BY <1>2, <1>5, <1>10
  <2>2. Written(Run)' => Written(Run) /\ op'[Run] = op[Run]
    BY <1>5, <1>10 DEF Written
  <2>5. ASSUME ~damaged, op[Run].at # "fill", NEW i \in DOMAIN log'
        PROVE  entries'[log'[i]].by # Run \/ log'[i] \in Lines
    <3>1. CASE i \in DOMAIN log /\ log'[i] = log[i]
      BY <1>1, <1>3, <1>6, <2>5, <3>1 DEF OnFile
    <3>2. CASE Written(w) /\ log'[i] = op[w].id
      BY <1>1, <1>3, <1>6, <2>5, <3>2 DEF OnFile
    <3> QED
      BY <1>6, <3>1, <3>2
  <2>6. ASSUME ~damaged, run # "none", ~mem[chat].flushed, NEW i \in DOMAIN log'
        PROVE  entries'[log'[i]].by # Run
    <3>1. CASE i \in DOMAIN log /\ log'[i] = log[i]
      BY <1>1, <1>3, <1>6, <2>6, <3>1 DEF OnFile
    <3>2. CASE Written(w) /\ log'[i] = op[w].id
      <4>1. w # Run
        BY <1>1, <2>6, <3>2 DEF RunControl, Written
      <4> QED
        BY <1>3, <1>6, <3>2, <4>1
    <3> QED
      BY <1>6, <3>1, <3>2
  <2>7. run' # "none" => run # "none" /\ chat \in Chat
    BY <1>1, <1>8 DEF RunControl
  <2> QED
    BY <1>1, <1>2, <1>4, <1>7, <2>1, <2>2, <2>5, <2>6, <2>7 DEF OnFile
<1> QED
  BY <1>12, <1>13, <1>14, <1>15, <1>16, <1>17, <1>18, <1>19 DEF Inv
-----------------------------------------------------------------------------
(* Steps that leave the entries, the memory and the file as they are, while *)
(* appends and rewrites go on or are given up.                              *)

GoesOn(v) ==
  \/ op'[v] = NoOp /\ op[v].at # "fill"
  \/ /\ op'[v].mode = op[v].mode /\ op'[v].id = op[v].id /\ op'[v].ids = op[v].ids
     /\ Idle(v)' = Idle(v) /\ Unwritten(v)' = Unwritten(v)
     /\ \A at \in {"fill", "release"} : op'[v].at = at <=> op[v].at = at

CalmStep ==
  /\ UNCHANGED <<entries, file, mem, chat, damaged>>
  /\ Types' /\ RunControl' /\ SubControl'
  /\ \A v \in Writer : GoesOn(v)
  /\ excused' \subseteq 1..Len(entries)
  /\ \A a \in Chat : \A c \in pending'[a] : c[1] \in DOMAIN entries /\ entries[c[1]].kind = "use"
  /\ \E w \in Writer : LogGrows(w)
  /\ run' # "none" => run # "none"

LEMMA CalmStepInv ==
  ASSUME Inv, CalmStep
  PROVE  Inv'
<1> DEFINE N == Len(entries)
<1>1. /\ Types /\ Refers /\ RunControl /\ SubControl /\ (\A v \in Writer : Own(v))
      /\ Distinct /\ Kept /\ OnFile
  BY DEF Inv
<1>2. /\ UNCHANGED <<entries, file, mem, chat, damaged>> /\ Types' /\ RunControl' /\ SubControl'
      /\ \A v \in Writer : GoesOn(v)
  BY DEF CalmStep
<1>3. PICK w \in Writer : LogGrows(w)
  BY DEF CalmStep
<1>4. /\ log' \in Seq(Nat) /\ Ids(log') \subseteq 1..N
      /\ Written(w) => op[w].id \in 1..N /\ entries[op[w].id].by = w
      /\ \A i \in DOMAIN log' : \/ i \in DOMAIN log /\ log'[i] = log[i]
                                \/ Written(w) /\ log'[i] = op[w].id
  BY <1>3, LogFacts
<1>5. ASSUME NEW v \in Writer
      PROVE  /\ op'[v].id \in {op[v].id, 0} /\ op'[v].ids \in {op[v].ids, <<>>}
             /\ Unwritten(v)' => Unwritten(v) /\ op'[v].id = op[v].id
             /\ ~Idle(v)' => ~Idle(v) /\ op'[v].id = op[v].id /\ op'[v].mode = op[v].mode
                             /\ op'[v].ids = op[v].ids
             /\ op'[v].at = "fill" <=> op[v].at = "fill"
             /\ Written(v)' => Written(v) /\ op'[v].id = op[v].id
             /\ Agent(v)' = Agent(v)
  BY <1>2 DEF GoesOn, NoOp, Null, Unwritten, Idle, Written, Agent
<1>6. Lines' = Lines
  BY <1>2 DEF Lines
<1>7. Refers'
  <2>1. \A v \in Writer : op'[v].id <= N /\ Ids(op'[v].ids) \subseteq 1..N
    <3>1. N \in Nat /\ 0 <= N
      BY <1>1 DEF Types
    <3> QED
      BY <1>1, <1>5, <3>1, EmptySeq DEF Refers
  <2>2. /\ excused' \subseteq 1..N
        /\ \A a \in Chat : \A c \in pending'[a] : c[1] \in DOMAIN entries /\ entries[c[1]].kind = "use"
    BY DEF CalmStep
  <2> QED
    BY <1>1, <1>2, <1>4, <1>6, <2>1, <2>2 DEF Refers
<1>8. \A v \in Writer : Own(v)'
  BY <1>1, <1>2, <1>5 DEF Own
<1>9. Distinct'
  <2>1. NoLineTwice'
    BY <1>1, <1>2 DEF Distinct, NoLineTwice
  <2>2. op'[Run].ids = op[Run].ids \/ op'[Run].ids = <<>>
    BY <1>5, WriterFacts
  <2> QED
    BY <1>1, <1>2, <1>5, <1>6, <2>1, <2>2, EmptySeq DEF Distinct
<1>10. Kept'
  <2>1. Unwritten(Run)' \/ op'[Run].at = "fill" => ~Idle(Run)'
    BY DEF Unwritten, Idle
  <2>2. op'[Run].mode = "append" /\ ~Idle(Run)' =>
          op[Run].mode = "append" /\ op'[Run].id = op[Run].id /\ op'[Run].ids = op[Run].ids
    BY <1>5, WriterFacts
  <2> QED
    BY <1>1, <1>2, <1>5, <2>1, <2>2, WriterFacts DEF Kept
<1>11. OnFile'
  <2>1. ASSUME ~damaged, op[Run].at # "fill", NEW i \in DOMAIN log'
        PROVE  entries[log'[i]].by # Run \/ log'[i] \in Lines
    BY <1>1, <1>4, <2>1 DEF OnFile
  <2>2. ASSUME ~damaged, run # "none", ~mem[chat].flushed, NEW i \in DOMAIN log'
        PROVE  entries[log'[i]].by # Run
    BY <1>1, <1>4, <2>2 DEF OnFile, RunControl, Written
  <2>3. run' # "none" => run # "none"
    BY DEF CalmStep
  <2>4. Written(Run)' => Written(Run) /\ op'[Run].id = op[Run].id
    BY <1>5, WriterFacts
  <2>5. op'[Run].at # "fill" => op[Run].at # "fill"
    BY <1>5, WriterFacts
  <2> QED
    BY <1>1, <1>2, <1>6, <2>1, <2>2, <2>3, <2>4, <2>5 DEF OnFile
<1> QED
  BY <1>2, <1>7, <1>8, <1>9, <1>10, <1>11 DEF Inv
-----------------------------------------------------------------------------
(* Which actions these are.                                                *)

LEMMA RunAdds ==
  ASSUME Inv, run # "none", Idle(Run), Adds(Run), Fewer(pending, pending'),
         run = "finally" => pending[chat] # {},
         run' \in RunAt \ {"none", "begin"}, UNCHANGED <<file, lock, chat, sub, facts, bounds>>
  PROVE  AddStep(Run)
<1>1. Agent(Run) \in Chat
  BY DEF Inv, RunControl, Agent
<1>2. /\ op[Run].at = "none" /\ lock' = lock /\ log' = log
      /\ UNCHANGED <<file, chat, sub, excused, damaged, holed, bounds>>
  BY DEF Idle, facts
<1>3. Live
  BY DEF Inv, RunControl, Live
<1> QED
  BY <1>1, <1>2, <1>3 DEF AddStep, LogGrows, Written

LEMMA SubsetOfCalls ==
  ASSUME Inv, NEW id \in DOMAIN entries
  PROVE  /\ {} \in SUBSET ((1..Len(entries)) \X {1, 2})
         /\ CallsOf(id) \in SUBSET ((1..Len(entries)) \X {1, 2})
         /\ {<<id, 1>>} \in SUBSET ((1..Len(entries)) \X {1, 2})
  BY DEF Inv, Types, CallsOf

LEMMA AppendIsAddStep ==
  ASSUME Inv, run \notin {"none", "finally"}, Idle(Run), NEW kind \in Kind,
         NEW answers \in SUBSET ((1..Len(entries)) \X {1, 2}),
         AppendMessage(Run, kind, answers),
         run' \in RunAt \ {"none", "begin"}, UNCHANGED <<file, lock, chat, sub, facts, bounds>>
  PROVE  AddStep(Run)
<1>1. Agent(Run) \in Chat
  BY DEF Inv, RunControl, Agent
<1>2. Adds(Run) /\ Fewer(pending, pending')
  BY <1>1, AppendAdds, WriterFacts
<1> QED
  BY <1>2, RunAdds

LEMMA SayAdds == ASSUME Inv, Say PROVE AddStep(Run)
<1>1. /\ run \notin {"none", "finally"} /\ Idle(Run) /\ AppendMessage(Run, "say", {}) /\ run' = "turn"
      /\ UNCHANGED <<file, lock, chat, sub, facts, bounds>>
  BY DEF Say
<1>2. "say" \in Kind /\ "turn" \in RunAt /\ {} \in SUBSET ((1..Len(entries)) \X {1, 2})
  BY DEF Kind, RunAt
<1> QED
  BY <1>1, <1>2, AppendIsAddStep

LEMMA TurnAdds == ASSUME Inv, Turn PROVE AddStep(Run)
<1>1. /\ run \notin {"none", "finally"} /\ Idle(Run) /\ UNCHANGED <<file, lock, chat, sub, facts, bounds>>
      /\ run' \in RunAt \ {"none", "begin"}
      /\ \E kind \in Kind : AppendMessage(Run, kind, {})
  BY DEF Turn, Kind, RunAt
<1>2. {} \in SUBSET ((1..Len(entries)) \X {1, 2})
  OBVIOUS
<1> QED
  BY <1>1, <1>2, AppendIsAddStep

LEMMA ResultsAdds == ASSUME Inv, Results PROVE AddStep(Run)
<1>1. PICK id \in DOMAIN entries :
        /\ AppendMessage(Run, "result", CallsOf(id)) \/ AppendMessage(Run, "result", {<<id, 1>>})
        /\ run' \in {"turn", "steered"}
  BY DEF Results
<1>2. /\ run \notin {"none", "finally"} /\ Idle(Run)
      /\ UNCHANGED <<file, lock, chat, sub, facts, bounds>>
  BY DEF Results
<1>3. "result" \in Kind /\ run' \in RunAt \ {"none", "begin"}
  BY <1>1 DEF Kind, RunAt
<1> QED
  BY <1>1, <1>2, <1>3, SubsetOfCalls, AppendIsAddStep

LEMMA SubReportsAdds == ASSUME Inv, NEW a \in Chat, SubReports(a) PROVE AddStep(a)
<1>1. a \in Writer /\ a # Run /\ Agent(a) = a
  BY WriterFacts DEF Agent
<1>2. /\ sub[a] = "works" /\ AppendMessage(a, "summary", {}) /\ run' = run /\ log' = log
      /\ sub' = [sub EXCEPT ![a] = "reports"] /\ lock' = lock
      /\ UNCHANGED <<file, chat, excused, damaged, holed, bounds>>
  BY DEF SubReports, facts
<1>3. "summary" \in Kind /\ {} \in SUBSET ((1..Len(entries)) \X {1, 2})
  BY DEF Kind
<1>4. Adds(a) /\ Fewer(pending, pending')
  BY <1>1, <1>2, <1>3, AppendAdds
<1>5. op[a].at = "none"
  BY <1>2 DEF Inv, SubControl, Idle
<1>6. a = chat => Live
  BY <1>2 DEF Live
<1> QED
  BY <1>1, <1>2, <1>4, <1>5, <1>6 DEF AddStep, LogGrows, Written

\* What an await that goes on changes.
LEMMA GoOnFacts ==
  ASSUME Types, NEW w \in Writer, NEW at \in OpAt, GoOn(w, at)
  PROVE  /\ op' \in [Writer -> OpRecord]
         /\ op'[w].at = at /\ op'[w].mode = op[w].mode /\ op'[w].id = op[w].id
         /\ op'[w].ids = op[w].ids /\ op'[w].next = op[w].next
         /\ \A v \in Writer : v # w => op'[v] = op[v]
  BY DEF Types, GoOn, OpRecord

LEMMA LockStepInv ==
  ASSUME Inv, NEW w \in Writer,
         op[w].at \in {"open", "stamp", "inspect", "remove"},
         NEW at \in {"open", "stamp", "inspect", "remove", "write"}, GoOn(w, at),
         lock' \in [owner : {Dead - 1, Dead} \union Writer, stamped : BOOLEAN],
         UNCHANGED <<entries, file, mem, pending, chat, run, sub, facts, astray, bounds>>
  PROVE  Inv'
<1>1. Types /\ Refers /\ RunControl /\ SubControl
  BY DEF Inv
<1>2. /\ op' \in [Writer -> OpRecord]
      /\ op'[w].at = at /\ op'[w].mode = op[w].mode /\ op'[w].id = op[w].id
      /\ op'[w].ids = op[w].ids
      /\ \A v \in Writer : v # w => op'[v] = op[v]
  BY <1>1, GoOnFacts DEF OpAt
<1>3. \A v \in Writer : GoesOn(v)
  BY <1>2 DEF GoesOn, Idle, Unwritten
<1>4. Types'
  BY <1>1, <1>2 DEF Types, facts, bounds
<1>5. RunControl'
  BY <1>1, <1>2, WriterFacts DEF RunControl, Idle
<1>6. SubControl'
  BY <1>1, <1>2, WriterFacts DEF SubControl, Idle
<1>7. LogGrows(w) /\ UNCHANGED <<excused, damaged>>
  BY DEF LogGrows, facts
<1>8. excused' \subseteq 1..Len(entries)
  BY <1>1, <1>7 DEF Refers
<1>9. CalmStep
  BY <1>1, <1>3, <1>4, <1>5, <1>6, <1>7, <1>8 DEF CalmStep, Refers
<1> QED
  BY <1>9, CalmStepInv

LEMMA LockInv ==
  ASSUME Inv, NEW w \in Writer, OpenLock(w) \/ StampLock(w) \/ InspectLock(w) \/ RemoveLock(w)
  PROVE  Inv'
<1> DEFINE Locks == [owner : {Dead - 1, Dead} \union Writer, stamped : BOOLEAN]
<1>1. lock \in Locks /\ NoLock \in Locks
  BY DEF Inv, Types, NoLock
<1>2. CASE OpenLock(w)
  <2>1. [owner |-> w, stamped |-> FALSE] \in Locks
    OBVIOUS
  <2> HIDE DEF Locks
  <2> QED
    BY <1>1, <1>2, <2>1, LockStepInv DEF OpenLock, Locks
<1>3. CASE StampLock(w)
  <2>1. [lock EXCEPT !.stamped = TRUE] \in Locks
    BY <1>1
  <2> HIDE DEF Locks
  <2>2. lock' \in Locks
    BY <1>1, <1>3, <2>1 DEF StampLock
  <2> QED
    BY <1>3, <2>2, LockStepInv DEF StampLock, Locks
<1>4. CASE InspectLock(w)
  <2>1. lock' \in Locks
    BY <1>1, <1>4 DEF InspectLock
  <2>2. GoOn(w, "remove") \/ GoOn(w, "open")
    BY <1>4 DEF InspectLock
  <2> HIDE DEF Locks
  <2> QED
    BY <1>4, <2>1, <2>2, LockStepInv DEF InspectLock, Locks
<1>5. CASE RemoveLock(w)
  <2>1. lock' \in Locks
    BY <1>1, <1>5 DEF RemoveLock
  <2> HIDE DEF Locks
  <2> QED
    BY <1>5, <2>1, LockStepInv DEF RemoveLock, Locks
<1> QED
  BY <1>2, <1>3, <1>4, <1>5

\* Where the run or a subagent is changes, and nothing else.
LEMMA MoveInv ==
  ASSUME Inv, UNCHANGED <<entries, file, lock, mem, pending, chat, op, facts, astray>>,
         run' \in RunAt, sub' \in [Chat -> {"none", "works", "reports"}],
         subs' \in 0..MaxSubs, UNCHANGED <<fails, crashes>>, RunControl', SubControl',
         run' # "none" => run # "none"
  PROVE  Inv'
<1>1. Types /\ Refers
  BY DEF Inv
<1>2. Types'
  BY <1>1 DEF Types, facts
<1>3. LogGrows(Run) /\ UNCHANGED <<excused, damaged>> /\ \A v \in Writer : GoesOn(v)
  BY DEF LogGrows, facts, GoesOn, Idle, Unwritten
<1>4. CalmStep
  BY <1>1, <1>2, <1>3, WriterFacts DEF CalmStep, Refers
<1> QED
  BY <1>4, CalmStepInv

LEMMA LoopEndsInv == ASSUME Inv, LoopEnds PROVE Inv'
<1>1. Types /\ RunControl /\ SubControl
  BY DEF Inv
<1>2. RunControl' /\ SubControl'
  BY <1>1 DEF LoopEnds, RunControl, SubControl, Idle
<1> QED
  BY <1>1, <1>2, MoveInv DEF LoopEnds, Types, bounds, RunAt

LEMMA FlushAdds == ASSUME Inv, Finally, pending[chat] # {} PROVE AddStep(Run)
<1>1. /\ run = "finally" /\ Idle(Run) /\ chat \in Chat /\ Agent(Run) = chat
      /\ Flush(Run, "none") /\ run' = run
      /\ UNCHANGED <<file, lock, chat, sub, facts, bounds>>
  BY DEF Inv, Finally, RunControl, Agent
<1>2. pending[chat] \in SUBSET ((1..Len(entries)) \X {1, 2})
  <2>1. Len(entries) \in Nat /\ DOMAIN entries = 1..Len(entries)
    BY DEF Inv, Types
  <2> QED
    BY <1>1, <2>1 DEF Inv, Types, Refers
<1>3. Adds(Run) /\ Fewer(pending, pending')
  BY <1>1, <1>2 DEF Inv, Flush, Adds, Fewer, Kind, Types
<1>4. run' \in RunAt \ {"none", "begin"}
  BY <1>1 DEF RunAt
<1> QED
  BY <1>1, <1>3, <1>4, RunAdds

LEMMA FinallyInv == ASSUME Inv, Finally, pending[chat] = {} PROVE Inv'
<1>1. Types /\ RunControl /\ SubControl
  BY DEF Inv
<1>2. /\ run' = "none" /\ UNCHANGED <<entries, mem, op, pending, astray>>
      /\ Idle(Run) /\ UNCHANGED <<file, lock, chat, sub, facts, bounds>>
  BY DEF Finally
<1>3. RunControl' /\ SubControl'
  BY <1>1, <1>2 DEF RunControl, SubControl, Idle
<1> QED
  BY <1>1, <1>2, <1>3, MoveInv DEF Types, bounds, RunAt

LEMMA SpawnInv == ASSUME Inv, Spawn PROVE Inv'
<1>1. Types /\ RunControl /\ SubControl
  BY DEF Inv
<1>2. /\ run = "tools" /\ Idle(Run) /\ chat \in Chat /\ mem[chat].flushed
      /\ sub' = [sub EXCEPT ![chat] = "works"] /\ sub[chat] = "none"
      /\ subs' = subs + 1 /\ subs < MaxSubs
      /\ UNCHANGED <<entries, file, lock, mem, pending, chat, run, op, facts, astray, fails, crashes>>
  BY <1>1 DEF Spawn, RunControl
<1>3. /\ sub' \in [Chat -> {"none", "works", "reports"}] /\ sub'[chat] = "works"
      /\ \A b \in Chat : b # chat => sub'[b] = sub[b]
  BY <1>1, <1>2 DEF Types
<1>4. RunControl'
  BY <1>1, <1>2 DEF RunControl, Idle
<1>5. SubControl'
  <2>1. Idle(chat)
    BY <1>1, <1>2 DEF SubControl
  <2>2. chat <= chat
    BY <1>1 DEF Types
  <2> QED
    BY <1>1, <1>2, <1>3, <2>1, <2>2 DEF SubControl, Idle
<1>6. subs' \in 0..MaxSubs
  BY <1>1, <1>2, StoreAssumption DEF Types
<1> QED
  BY <1>1, <1>2, <1>3, <1>4, <1>5, <1>6, MoveInv DEF Types

LEMMA ReleaseAdds ==
  ASSUME Inv, NEW w \in Writer, Release(w), op[w].next # "none"
  PROVE  AddStep(w)
<1> DEFINE N == Len(entries)
<1>1. /\ Types /\ Refers /\ RunControl /\ SubControl /\ (\A v \in Writer : Own(v))
      /\ N \in Nat /\ DOMAIN entries = 1..N
  BY DEF Inv, Types
<1>2. /\ op[w].at = "release" /\ lock' = NoLock
      /\ UNCHANGED <<file, chat, run, excused, damaged, holed, bounds>>
  BY DEF Release
<1>3. LogGrows(w)
  BY DEF Release, LogGrows, Written
<1>4. ~Idle(w) /\ (w # Run => w \in Chat /\ sub[w] = "reports")
  BY <1>1, <1>2, WriterFacts DEF Idle, SubControl
<1>5. w = Run => run \notin {"none", "begin"} /\ chat \in Chat
  BY <1>1, <1>4 DEF RunControl
<1>6. Put(w, op[w].next, {}, "none") /\ UNCHANGED <<pending, sub>>
  BY DEF Release
<1>7. Agent(w) \in Chat
  BY <1>4, <1>5 DEF Agent
<1>8. op[w].next \in Kind
  BY <1>1, <1>6 DEF Types, OpRecord
<1>9. {} \in SUBSET ((1..N) \X {1, 2})
  OBVIOUS
<1>10. Adds(w)
  BY <1>6, <1>8, <1>9 DEF Adds
<1>11. Fewer(pending, pending')
  BY <1>1, <1>6 DEF Fewer, Types
<1>12. sub' = IF w = Run THEN sub ELSE [sub EXCEPT ![w] = "reports"]
  BY <1>1, <1>4, <1>6 DEF Types
<1>13. IF w = Run THEN run # "none" /\ run' \in RunAt \ {"none", "begin"}
                 ELSE run' = run /\ sub[w] # "none"
  BY <1>1, <1>2, <1>4, <1>5 DEF Types
<1>14. /\ Written(w) => log' = Append(log, op[w].id)
       /\ Agent(w) = chat => Live
  BY <1>2, <1>4, <1>5 DEF Release, Written, Live, Agent
<1> QED
  BY <1>2, <1>3, <1>7, <1>10, <1>11, <1>12, <1>13, <1>14 DEF AddStep

LEMMA ReleaseInv == ASSUME Inv, NEW w \in Writer, Release(w), op[w].next = "none" PROVE Inv'
<1> DEFINE N == Len(entries)
<1>1. /\ Types /\ Refers /\ RunControl /\ SubControl /\ (\A v \in Writer : Own(v))
      /\ N \in Nat /\ DOMAIN entries = 1..N
  BY DEF Inv, Types
<1>2. /\ op[w].at = "release" /\ lock' = NoLock
      /\ UNCHANGED <<file, chat, run, excused, damaged, holed, bounds>>
  BY DEF Release
<1>3. LogGrows(w)
  BY DEF Release, LogGrows, Written
<1>4. ~Idle(w) /\ (w # Run => w \in Chat /\ sub[w] = "reports")
  BY <1>1, <1>2, WriterFacts DEF Idle, SubControl
<1>5. w = Run => run \notin {"none", "begin"} /\ chat \in Chat
  BY <1>1, <1>4 DEF RunControl
<1>6. /\ op' = [op EXCEPT ![w] = NoOp]
      /\ pending' = IF op[w].mode = "append"
                    THEN [pending EXCEPT ![Agent(w)] = @ \union CallsIn(op[w].id)]
                    ELSE pending
      /\ sub' = IF w = Run THEN sub ELSE [sub EXCEPT ![w] = "none"]
      /\ UNCHANGED <<entries, mem, astray>>
  BY DEF Release
<1>7. NoOp \in OpRecord
  BY DEF NoOp, OpRecord, OpAt, Null
<1>8. /\ op' \in [Writer -> OpRecord] /\ op'[w] = NoOp
      /\ \A v \in Writer : v # w => op'[v] = op[v]
  BY <1>1, <1>6, <1>7 DEF Types
<1>9. \A v \in Writer : GoesOn(v)
  BY <1>2, <1>8 DEF GoesOn, Idle, Unwritten
<1>10. /\ pending' \in [Chat -> SUBSET (Nat \X {1, 2})]
      /\ \A a \in Chat : \A c \in pending'[a] : c[1] \in 1..N /\ entries[c[1]].kind = "use"
  <2> DEFINE new == CallsIn(op[w].id)
  <2>1. op[w].mode = "append" => op[w].id \in 1..N
    BY <1>1, <1>4 DEF Own
  <2>2. ASSUME op[w].mode = "append", NEW c \in new
        PROVE  c \in Nat \X {1, 2} /\ c[1] \in 1..N /\ entries[c[1]].kind = "use"
    BY <1>1, <2>1, <2>2 DEF CallsIn, CallsOf
  <2>3. CASE op[w].mode = "append"
    <3>1. pending' = [pending EXCEPT ![Agent(w)] = @ \union new]
      BY <1>6, <2>3
    <3> HIDE DEF new
    <3>2. new \subseteq Nat \X {1, 2}
      BY <2>2, <2>3
    <3>3. \A a \in Chat : pending'[a] = pending[a] \/ pending'[a] = pending[a] \union new
      BY <1>1, <3>1 DEF Types
    <3>4. pending' \in [Chat -> SUBSET (Nat \X {1, 2})]
      BY <1>1, <3>1, <3>2 DEF Types
    <3> QED
      BY <1>1, <2>2, <2>3, <3>3, <3>4 DEF Refers
  <2>4. CASE op[w].mode # "append"
    BY <1>1, <1>6, <2>4 DEF Types, Refers
  <2> QED
    BY <2>3, <2>4
<1>11. /\ sub' \in [Chat -> {"none", "works", "reports"}]
      /\ \A b \in Chat : sub'[b] = IF b = w THEN "none" ELSE sub[b]
  BY <1>1, <1>4, <1>6, WriterFacts DEF Types
<1>12. log' \in Seq(Nat)
  BY <1>3, LogFacts
<1>13. NoLock \in [owner : {Dead - 1, Dead} \union Writer, stamped : BOOLEAN]
  BY DEF NoLock
<1>14. Types'
  BY <1>1, <1>2, <1>6, <1>8, <1>10, <1>11, <1>12, <1>13 DEF Types, bounds
<1>15. RunControl'
  <2>1. CASE w = Run
    BY <1>1, <1>2, <1>4, <1>5, <1>6, <1>8, <2>1 DEF RunControl, Idle, NoOp, Types, OpRecord
  <2>2. CASE w # Run
    BY <1>1, <1>2, <1>4, <1>6, <1>8, <1>11, <2>2, WriterFacts DEF RunControl, Idle
  <2> QED
    BY <2>1, <2>2
<1>16. SubControl'
  BY <1>1, <1>2, <1>4, <1>6, <1>8, <1>11, WriterFacts DEF SubControl, Idle, NoOp
<1>17. CalmStep
  BY <1>1, <1>2, <1>3, <1>6, <1>9, <1>10, <1>14, <1>15, <1>16 DEF CalmStep, Refers
<1> QED
  BY <1>17, CalmStepInv

LEMMA UsesTyped ==
  ASSUME Types, Refers, NEW id \in Nat, id <= Len(entries)
  PROVE  UsesOf(id) \subseteq 1..Len(entries)
<1>1. Len(entries) \in Nat /\ DOMAIN entries = 1..Len(entries)
  BY DEF Types
<1>2. CASE id = 0
  BY <1>2 DEF UsesOf, Null
<1>3. CASE id # 0
  <2>1. id \in 1..Len(entries)
    BY <1>1, <1>3
  <2>2. entries[id].answers \subseteq (1..Len(entries)) \X {1, 2}
    BY <1>1, <2>1 DEF Refers
  <2>3. \A c \in entries[id].answers : c[1] \in 1..Len(entries)
    BY <2>2
  <2> QED
    BY <1>3, <2>1, <2>3 DEF UsesOf, Null
<1> QED
  BY <1>2, <1>3

LEMMA ThrowInv == ASSUME Inv, NEW w \in Writer, Throw(w) PROVE Inv'
<1> DEFINE N == Len(entries)
<1>1. /\ Types /\ Refers /\ RunControl /\ SubControl
      /\ N \in Nat /\ DOMAIN entries = 1..N
  BY DEF Inv, Types
<1>2. /\ op[w].at \in {"open", "write"} /\ fails < MaxFails /\ fails' = fails + 1
      /\ lock' = IF op[w].at = "write" THEN NoLock ELSE lock
      /\ op' = [op EXCEPT ![w] = NoOp]
      /\ run' = IF w = Run THEN "finally" ELSE run
      /\ sub' = IF w = Run THEN sub ELSE [sub EXCEPT ![w] = "none"]
      /\ excused' = excused \union UsesOf(op[w].id)
      /\ holed' = IF op[w].mode = "append" THEN holed \union {Agent(w)} ELSE holed
      /\ UNCHANGED <<entries, file, mem, pending, chat, log, damaged, astray, subs, crashes>>
  BY DEF Throw
<1>3. ~Idle(w) /\ (w # Run => w \in Chat /\ sub[w] = "reports")
  BY <1>1, <1>2, WriterFacts DEF Idle, SubControl
<1>4. w = Run => run \notin {"none", "begin"} /\ chat \in Chat
  BY <1>1, <1>3 DEF RunControl
<1>5. Agent(w) \in Chat
  BY <1>3, <1>4 DEF Agent
<1>6. NoOp \in OpRecord
  BY DEF NoOp, OpRecord, OpAt, Null
<1>7. /\ op' \in [Writer -> OpRecord] /\ op'[w] = NoOp
      /\ \A v \in Writer : v # w => op'[v] = op[v]
  BY <1>1, <1>2, <1>6 DEF Types
<1>8. \A v \in Writer : GoesOn(v)
  BY <1>2, <1>7 DEF GoesOn, Idle, Unwritten
<1>9. /\ sub' \in [Chat -> {"none", "works", "reports"}]
      /\ \A b \in Chat : sub'[b] = IF b = w THEN "none" ELSE sub[b]
  BY <1>1, <1>2, <1>3, WriterFacts DEF Types
<1>10. excused' \subseteq 1..N
  <2>1. op[w].id \in Nat /\ op[w].id <= N
    BY <1>1 DEF Types, Refers, OpRecord
  <2>2. UsesOf(op[w].id) \subseteq 1..N
    BY <1>1, <2>1, UsesTyped
  <2> QED
    BY <1>1, <1>2, <2>2 DEF Refers
<1>11. Types'
  <2>1. NoLock \in [owner : {Dead - 1, Dead} \union Writer, stamped : BOOLEAN]
    BY DEF NoLock
  <2>2. lock' \in [owner : {Dead - 1, Dead} \union Writer, stamped : BOOLEAN]
    BY <1>1, <1>2, <2>1 DEF Types
  <2>3. fails' \in 0..MaxFails
    BY <1>1, <1>2, StoreAssumption DEF Types
  <2>4. run' \in RunAt /\ holed' \subseteq Chat /\ excused' \subseteq Nat
    BY <1>1, <1>2, <1>5, <1>10 DEF Types, RunAt
  <2> QED
    BY <1>1, <1>2, <1>7, <1>9, <2>2, <2>3, <2>4 DEF Types
<1>12. RunControl'
  <2>1. CASE w = Run
    BY <1>1, <1>2, <1>4, <1>7, <2>1 DEF RunControl, Idle, NoOp
  <2>2. CASE w # Run
    BY <1>1, <1>2, <1>3, <1>7, <1>9, <2>2, WriterFacts DEF RunControl, Idle
  <2> QED
    BY <2>1, <2>2
<1>13. SubControl'
  BY <1>1, <1>2, <1>3, <1>7, <1>9, WriterFacts DEF SubControl, Idle, NoOp
<1>14. LogGrows(w) /\ (run' # "none" => run # "none")
  BY <1>2, <1>4 DEF LogGrows
<1>15. CalmStep
  BY <1>1, <1>2, <1>8, <1>10, <1>11, <1>12, <1>13, <1>14 DEF CalmStep, Refers
<1> QED
  BY <1>15, CalmStepInv
-----------------------------------------------------------------------------
(* What is written to the file.                                            *)

NoTwice(f) == NoDupBut(f.lines, {Damaged})

LEMMA LinesOnce == NoLineTwice <=> NoTwice(file)
  BY DEF NoLineTwice, NoTwice, NoDupBut

GoodFile(f, n) ==
  /\ f \in FileRecord /\ (f.cut => f.lines # <<>>)
  /\ Ids(f.lines) \subseteq 0..n /\ NoTwice(f)

LEMMA WholeFacts ==
  ASSUME NEW n \in Nat, NEW ids \in Seq(Nat), NoDup(ids), Ids(ids) \subseteq 1..n
  PROVE  GoodFile(Whole(ids), n) /\ ~Whole(ids).cut /\ Whole(ids).header /\ Whole(ids).lines = ids
  BY DEF Whole, GoodFile, FileRecord, NoTwice, NoDup, NoDupBut

LEMMA AddLineFacts ==
  ASSUME NEW n \in Nat, NEW f, GoodFile(f, n), NEW id \in 0..n,
         id = Damaged \/ id \notin Ids(f.lines)
  PROVE  /\ GoodFile(AddLine(f, id), n) /\ ~AddLine(f, id).cut
         /\ AddLine(f, id).lines # <<>> /\ AddLine(f, id).header = f.header
         /\ Ids(AddLine(f, id).lines) \subseteq Ids(f.lines) \union {id, Damaged}
         /\ ~f.cut => Ids(AddLine(f, id).lines) = Ids(f.lines) \union {id}
<1> DEFINE new == IF f.cut THEN [f.lines EXCEPT ![Len(f.lines)] = Damaged]
                           ELSE Append(f.lines, id)
<1>1. /\ f \in FileRecord /\ f.lines \in Seq(Nat) /\ (f.cut => f.lines # <<>>)
      /\ Ids(f.lines) \subseteq 0..n /\ NoDupBut(f.lines, {Damaged})
  BY DEF GoodFile, FileRecord, NoTwice
<1>2. /\ AddLine(f, id).lines = new /\ ~AddLine(f, id).cut
      /\ AddLine(f, id).header = f.header /\ AddLine(f, id) \in FileRecord <=> new \in Seq(Nat)
  BY <1>1 DEF AddLine, FileRecord
<1>3. /\ new \in Seq(Nat) /\ new # <<>> /\ NoDupBut(new, {Damaged})
      /\ Ids(new) \subseteq Ids(f.lines) \union {id, Damaged}
      /\ ~f.cut => Ids(new) = Ids(f.lines) \union {id}
  <2>1. CASE f.cut
    <3> DEFINE l == Len(f.lines)
    <3>1. l \in DOMAIN f.lines /\ Damaged \in Nat
      BY <1>1, <2>1 DEF Damaged
    <3>2. /\ new = [f.lines EXCEPT ![l] = Damaged] /\ DOMAIN new = DOMAIN f.lines
          /\ new[l] = Damaged /\ \A i \in DOMAIN new : i # l => new[i] = f.lines[i]
      BY <1>1, <2>1, <3>1
    <3>3. new \in Seq(Nat) /\ new # <<>>
      BY <1>1, <2>1, <3>1, <3>2
    <3> HIDE DEF new, l
    <3> QED
      BY <1>1, <2>1, <3>2, <3>3 DEF NoDupBut, Ids
  <2>2. CASE ~f.cut
    <3>1. new = Append(f.lines, id) /\ id \in Nat
      BY <2>2
    <3>2. Ids(new) = Ids(f.lines) \union {id}
      BY <1>1, <3>1, IdsFacts
    <3>3. /\ DOMAIN new = (DOMAIN f.lines) \union {Len(f.lines) + 1}
          /\ new[Len(f.lines) + 1] = id /\ new \in Seq(Nat) /\ new # <<>>
          /\ \A i \in DOMAIN f.lines : new[i] = f.lines[i] /\ i # Len(f.lines) + 1
      BY <1>1, <3>1
    <3> HIDE DEF new
    <3>4. NoDupBut(new, {Damaged})
      BY <1>1, <3>3 DEF NoDupBut, Ids
    <3> QED
      BY <2>2, <3>2, <3>3, <3>4
  <2> QED
    BY <2>1, <2>2
<1>4. Ids(new) \subseteq 0..n
  BY <1>1, <1>3 DEF Damaged
<1> HIDE DEF new
<1> QED
  BY <1>2, <1>3, <1>4 DEF GoodFile, NoTwice

LEMMA CutLineFacts ==
  ASSUME NEW n \in Nat, NEW f, GoodFile(f, n), NEW id \in 0..n,
         id = Damaged \/ id \notin Ids(f.lines), NEW g \in CutLine(f, id)
  PROVE  GoodFile(g, n) /\ g.cut
<1>1. PICK x \in {id, Damaged} : g = [AddLine(f, x) EXCEPT !.cut = TRUE]
  BY DEF CutLine
<1>2. x \in 0..n /\ (x = Damaged \/ x \notin Ids(f.lines))
  BY <1>1 DEF Damaged
<1>3. GoodFile(AddLine(f, x), n) /\ AddLine(f, x).lines # <<>>
  BY <1>2, AddLineFacts
<1>4. g \in FileRecord /\ g.lines = AddLine(f, x).lines /\ g.cut
  BY <1>1, <1>3 DEF GoodFile, FileRecord
<1> QED
  BY <1>3, <1>4 DEF GoodFile, NoTwice

LEMMA PrefixFacts ==
  ASSUME NEW n \in Nat, NEW ids \in Seq(Nat), NoDup(ids), Ids(ids) \subseteq 1..n,
         NEW k \in 0..Len(ids)
  PROVE  /\ SubSeq(ids, 1, k) \in Seq(Nat) /\ NoDup(SubSeq(ids, 1, k))
         /\ Ids(SubSeq(ids, 1, k)) \subseteq 1..n
         /\ k < Len(ids) => ids[k + 1] \in 1..n /\ ids[k + 1] \notin Ids(SubSeq(ids, 1, k))
<1> DEFINE s == SubSeq(ids, 1, k)
<1>1. /\ s \in Seq(Nat) /\ DOMAIN s = 1..k /\ \A i \in 1..k : s[i] = ids[i] /\ i \in DOMAIN ids
      /\ k < Len(ids) => k + 1 \in DOMAIN ids /\ k + 1 \notin 1..k
  OBVIOUS
<1> HIDE DEF s
<1>2. NoDup(s)
  BY <1>1 DEF NoDup, NoDupBut
<1>3. Ids(s) \subseteq 1..n
  BY <1>1 DEF Ids
<1>4. k < Len(ids) => ids[k + 1] \in 1..n /\ ids[k + 1] \notin Ids(s)
  BY <1>1 DEF Ids, NoDup, NoDupBut
<1> QED
  BY <1>1, <1>2, <1>3, <1>4 DEF s

LEMMA PartOfFacts ==
  ASSUME NEW n \in Nat, NEW ids \in Seq(Nat), NoDup(ids), Ids(ids) \subseteq 1..n,
         NEW f \in PartOf(ids)
  PROVE  GoodFile(f, n) /\ (f.cut \/ f.header \/ f.lines = <<>>)
<1>1. CASE f = NoFile
  BY <1>1, EmptySeq DEF NoFile, GoodFile, FileRecord, NoTwice, NoDup, NoDupBut
<1>2. CASE \E k \in 0..Len(ids) - 1 : f = Whole(SubSeq(ids, 1, k))
  <2>1. PICK k \in 0..Len(ids) - 1 : f = Whole(SubSeq(ids, 1, k))
    BY <1>2
  <2> DEFINE s == SubSeq(ids, 1, k)
  <2>2. k \in 0..Len(ids)
    OBVIOUS
  <2>3. s \in Seq(Nat) /\ NoDup(s) /\ Ids(s) \subseteq 1..n
    BY <2>2, PrefixFacts
  <2> HIDE DEF s
  <2>4. GoodFile(Whole(s), n) /\ Whole(s).header
    BY <2>3, WholeFacts
  <2> QED
    BY <2>1, <2>4 DEF s
<1>3. CASE \E k \in 1..Len(ids) : f \in CutLine(Whole(SubSeq(ids, 1, k - 1)), ids[k])
  <2>1. PICK k \in 1..Len(ids) : f \in CutLine(Whole(SubSeq(ids, 1, k - 1)), ids[k])
    BY <1>3
  <2> DEFINE s == SubSeq(ids, 1, k - 1)
  <2>2. k - 1 \in 0..Len(ids) /\ k - 1 < Len(ids) /\ (k - 1) + 1 = k
    BY <2>1
  <2>3. /\ s \in Seq(Nat) /\ NoDup(s) /\ Ids(s) \subseteq 1..n
        /\ ids[k] \in 1..n /\ ids[k] \notin Ids(s)
    <3>1. \A j \in 0..Len(ids) : /\ SubSeq(ids, 1, j) \in Seq(Nat) /\ NoDup(SubSeq(ids, 1, j))
                                 /\ Ids(SubSeq(ids, 1, j)) \subseteq 1..n
                                 /\ j < Len(ids) => /\ ids[j + 1] \in 1..n
                                                    /\ ids[j + 1] \notin Ids(SubSeq(ids, 1, j))
      BY PrefixFacts
    <3> QED
      BY <2>2, <3>1
  <2>4. GoodFile(Whole(s), n) /\ Whole(s).lines = s
    BY <2>3, WholeFacts
  <2>5. f \in CutLine(Whole(s), ids[k])
    BY <2>1
  <2> HIDE DEF s
  <2> DEFINE id == ids[k]
  <2>6. id \in 0..n /\ id \notin Ids(Whole(s).lines)
    BY <2>3, <2>4
  <2> HIDE DEF id
  <2>7. GoodFile(f, n) /\ f.cut
    BY <2>4, <2>5, <2>6, CutLineFacts DEF id
  <2> QED
    BY <2>7
<1> QED
  BY <1>1, <1>2, <1>3 DEF PartOf
-----------------------------------------------------------------------------
(* Steps that write the file or load it, and rewrites.                     *)

\* What is loaded is the file without its damaged lines.
LEMMA LoadedFacts ==
  ASSUME NEW n \in Nat, GoodFile(file, n)
  PROVE  /\ Loaded(file) \in StateRecord /\ Loaded(file).flushed = file.header
         /\ NoDup(Loaded(file).entries) /\ Loaded(file).leaf <= n
         /\ Ids(Loaded(file).entries) \subseteq 1..n
         /\ Ids(Loaded(file).entries) \subseteq Ids(file.lines)
<1> DEFINE ids == Without(file.lines, {Damaged})
<1>1. file.lines \in Seq(Nat) /\ file.header \in BOOLEAN /\ Ids(file.lines) \subseteq 0..n
      /\ NoDupBut(file.lines, {Damaged})
  BY DEF GoodFile, FileRecord, NoTwice
<1>2. ids \in Seq(Nat) /\ Ids(ids) = Ids(file.lines) \ {0} /\ NoDup(ids)
  BY <1>1, WithoutFacts DEF Damaged
<1>3. Ids(ids) \subseteq 1..n /\ Ids(ids) \subseteq Ids(file.lines)
  <2>1. \A m \in 0..n : m # 0 => m \in 1..n
    OBVIOUS
  <2> HIDE DEF ids
  <2> QED
    BY <1>1, <1>2, <2>1
<1> HIDE DEF ids
<1>4. LastOf(ids) \in Nat /\ LastOf(ids) <= n
  <2>1. CASE ids = <<>>
    BY <2>1 DEF LastOf, Null
  <2>2. CASE ids # <<>>
    <3>1. Len(ids) \in DOMAIN ids
      BY <1>2, <2>2
    <3>2. ids[Len(ids)] \in 1..n
      BY <1>3, <3>1 DEF Ids
    <3> QED
      BY <2>2, <3>2 DEF LastOf
  <2> QED
    BY <2>1, <2>2
<1>5. CASE file.header
  <2>1. Loaded(file) = [entries |-> ids, leaf |-> LastOf(ids), flushed |-> TRUE]
    BY <1>5 DEF Loaded, ids
  <2> QED
    BY <1>2, <1>3, <1>4, <1>5, <2>1 DEF StateRecord
<1>6. CASE ~file.header
  <2>1. Loaded(file) = NewState
    BY <1>6 DEF Loaded
  <2>2. /\ NewState \in StateRecord /\ NewState.entries = <<>> /\ NewState.leaf = 0
        /\ ~NewState.flushed
    BY DEF NewState, StateRecord, Null
  <2> QED
    <3>1. /\ Loaded(file) \in StateRecord /\ Loaded(file).entries = <<>>
          /\ Loaded(file).leaf = 0 /\ ~Loaded(file).flushed /\ Loaded(file).flushed \in BOOLEAN
      BY <2>1, <2>2 DEF StateRecord
    <3>2. Loaded(file).flushed = file.header
      BY <1>1, <1>6, <3>1
    <3>3. Ids(Loaded(file).entries) = {} /\ NoDup(Loaded(file).entries)
      BY <3>1, EmptySeq
    <3> QED
      BY <3>1, <3>2, <3>3
<1> QED
  BY <1>1, <1>5, <1>6

LEMMA FileIsGood == ASSUME Inv PROVE GoodFile(file, Len(entries))
  BY LinesOnce DEF Inv, Types, Refers, Distinct, Lines, GoodFile

LEMMA StartChatInv == ASSUME Inv, StartChat PROVE Inv'
<1> DEFINE N == Len(entries)
           new == chat + 1
<1>1. /\ Types /\ Refers /\ RunControl /\ SubControl /\ (\A v \in Writer : Own(v))
      /\ Distinct /\ Kept /\ OnFile /\ N \in Nat
  BY DEF Inv, Types
<1>2. /\ run = "none" /\ Idle(Run) /\ chat' = new /\ run' = "begin" /\ new \in Chat
      /\ mem' = [mem EXCEPT ![new] = Loaded(file)] /\ astray' \in BOOLEAN
      /\ UNCHANGED <<entries, file, lock, pending, op, sub, log, excused, damaged, holed, bounds>>
  BY <1>1, StoreAssumption DEF StartChat, Types, facts, Chat
<1>3. /\ Loaded(file) \in StateRecord /\ Loaded(file).flushed = file.header
      /\ NoDup(Loaded(file).entries) /\ Loaded(file).leaf <= N
      /\ Ids(Loaded(file).entries) \subseteq 1..N
      /\ Ids(Loaded(file).entries) \subseteq Lines
  BY <1>1, FileIsGood, LoadedFacts DEF Lines
<1>4. /\ mem' \in [Chat -> StateRecord] /\ mem'[new] = Loaded(file)
      /\ \A a \in Chat : a # new => mem'[a] = mem[a]
  BY <1>1, <1>2, <1>3 DEF Types
<1>5. /\ sub[new] = "none" /\ Lines' = Lines
      /\ \A a \in Chat : sub[a] # "none" => a # new /\ a <= new
      /\ \A a \in Chat : ~Idle(a) => a # new
  BY <1>1, <1>2 DEF Types, SubControl, Lines, Chat
<1>6. Types'
  BY <1>1, <1>2, <1>4, StoreAssumption DEF Types, Chat, RunAt, bounds
<1>7. Refers'
  BY <1>1, <1>2, <1>3, <1>4, <1>5 DEF Refers
<1>8. RunControl'
  BY <1>1, <1>2, <1>5 DEF RunControl, Idle
<1>9. SubControl'
  <2>1. ASSUME NEW a \in Chat, sub[a] # "none" PROVE a <= new /\ mem'[a].flushed
    BY <1>1, <1>4, <1>5, <2>1 DEF SubControl
  <2> QED
    BY <1>1, <1>2, <2>1 DEF SubControl, Idle
<1>10. \A v \in Writer : Own(v)'
  BY <1>1, <1>2 DEF Own, Idle
<1>11. Distinct'
  <2>1. NoLineTwice'
    BY <1>1, <1>2 DEF Distinct, NoLineTwice
  <2>2. ASSUME NEW v \in Writer, Unwritten(v)
        PROVE  /\ v # Run /\ v # new
               /\ \A b \in Chat : b # v => op[v].id \notin Ids(mem'[b].entries)
    <3>1. v # Run /\ v \in Chat
      BY <1>2, <2>2, WriterFacts DEF Unwritten, Idle
    <3>2. v # new
      BY <1>5, <2>2, <3>1 DEF Unwritten, Idle
    <3>3. op[v].id \notin Lines /\ \A b \in Chat : b # v => op[v].id \notin Ids(mem[b].entries)
      BY <1>1, <2>2, <3>1 DEF Distinct, Agent
    <3> QED
      BY <1>3, <1>4, <3>1, <3>2, <3>3
  <2>3. \A v \in Writer : Unwritten(v)' = Unwritten(v) /\ (v # Run => Agent(v)' = v)
    BY <1>2 DEF Unwritten, Agent
  <2>4. \A a \in Chat : NoDup(mem'[a].entries)
    BY <1>1, <1>3, <1>4 DEF Distinct
  <2> QED
    BY <1>1, <1>2, <1>5, <2>1, <2>2, <2>3, <2>4 DEF Distinct
<1>12. Kept'
  BY <1>2 DEF Kept, Unwritten, Idle
<1>13. OnFile'
  <2>1. op[Run].at = "none"
    BY <1>2 DEF Idle
  <2>2. \A a \in Chat : ~damaged /\ mem'[a].flushed => file.header
    BY <1>1, <1>3, <1>4, <2>1 DEF OnFile
  <2>3. ASSUME ~damaged, ~mem'[new].flushed, NEW i \in DOMAIN log
        PROVE  entries[log[i]].by # Run
    <3>1. Lines = {}
      BY <1>1, <1>3, <1>4, <2>1, <2>3, EmptySeq DEF OnFile, Lines
    <3> QED
      BY <1>1, <2>1, <2>3, <3>1 DEF OnFile
  <2> QED
    BY <1>1, <1>2, <1>5, <2>1, <2>2, <2>3 DEF OnFile, Written
<1> QED
  BY <1>6, <1>7, <1>8, <1>9, <1>10, <1>11, <1>12, <1>13 DEF Inv

\* A retry keeps the path up to a message of the user, or without the answers at its end.
CutsWell(path, k) ==
  \/ k \in DOMAIN path /\ entries[path[k]].kind = "say"
  \/ \A i \in k + 1..Len(path) : entries[path[i]].kind \in Assistant
CutsAt(path, k) ==
  CutsWell(path, k) /\ \E rest :
    /\ rest = DropFrom(mem[chat], {path[i] : i \in (k + 1)..Len(path)},
                       IF k = 0 THEN Null ELSE path[k])
    /\ mem' = [mem EXCEPT ![chat] = rest] /\ run' \in {"turn", "resay"}
    /\ op' = IF k = Len(path) THEN op
             ELSE [op EXCEPT ![Run] = Opened("rewrite", Null, rest.entries, "none")]

LEMMA CutsSomewhere ==
  ASSUME Regenerate, NEW T, Path(entries, mem[chat]) \in Seq(T)
  PROVE  \E k \in 0..Len(Path(entries, mem[chat])) : CutsAt(Path(entries, mem[chat]), k)
<1> DEFINE path == Path(entries, mem[chat])
<1>1. DOMAIN path \subseteq 0..Len(path) /\ 0..Len(path) - 1 \subseteq 0..Len(path)
  OBVIOUS
<1> HIDE DEF path
<1>2. \E k \in (DOMAIN path) \union (0..Len(path) - 1) : CutsAt(path, k)
  BY DEF Regenerate, CutsAt, CutsWell, path
<1> QED
  BY <1>1, <1>2 DEF path

LEMMA RegenerateInv == ASSUME Inv, Regenerate PROVE Inv'
<1> DEFINE N == Len(entries)
           path == Path(entries, mem[chat])
<1>1. /\ Types /\ Refers /\ RunControl /\ SubControl /\ (\A v \in Writer : Own(v))
      /\ Distinct /\ Kept /\ OnFile /\ N \in Nat /\ DOMAIN entries = 1..N
  BY DEF Inv, Types
<1>2. /\ run = "begin" /\ Idle(Run) /\ chat \in Chat /\ sub[chat] = "none"
      /\ UNCHANGED <<entries, file, lock, pending, chat, sub, facts, astray, bounds>>
  BY <1>1 DEF Regenerate, RunControl
<1>3. path \in Seq(1..N)
  <2>1. mem[chat].leaf \in 0..N /\ Ids(mem[chat].entries) \subseteq 1..N
    BY <1>1, <1>2 DEF Types, Refers, StateRecord
  <2>2. entries \in Seq(EntryRecord) /\ Backwards(entries)
    BY <1>1 DEF Types, Refers
  <2> QED
    BY <2>1, <2>2, PathTyped
<1>4. PICK k, gone, rest :
        /\ k \in 0..Len(path)
        /\ rest = DropFrom(mem[chat], gone, IF k = 0 THEN Null ELSE path[k])
        /\ mem' = [mem EXCEPT ![chat] = rest] /\ run' \in {"turn", "resay"}
        /\ \/ op' = op
           \/ op' = [op EXCEPT ![Run] = Opened("rewrite", Null, rest.entries, "none")]
  <2> HIDE DEF path
  <2>1. PICK k \in 0..Len(path) : CutsAt(path, k)
    BY <1>3, CutsSomewhere DEF path
  <2> QED
    BY <2>1 DEF CutsAt
<1> DEFINE leaf == IF k = 0 THEN Null ELSE path[k]
<1>5. leaf \in Nat /\ leaf <= N
  <2>1. k # 0 => path[k] \in 1..N
    BY <1>3, <1>4
  <2> QED
    BY <1>1, <2>1 DEF Null
<1>6. /\ mem[chat] \in StateRecord /\ mem[chat].entries \in Seq(Nat)
      /\ NoDup(mem[chat].entries) /\ Ids(mem[chat].entries) \subseteq 1..N
  BY <1>1, <1>2 DEF Types, StateRecord, Distinct, Refers
<1>7. /\ rest.entries = Without(mem[chat].entries, gone) /\ rest.leaf = leaf
      /\ rest.flushed = mem[chat].flushed /\ (rest.entries \in Seq(Nat) => rest \in StateRecord)
  <2> HIDE DEF leaf
  <2>1. rest = DropFrom(mem[chat], gone, leaf)
    BY <1>4 DEF leaf
  <2> QED
    BY <1>5, <1>6, <2>1 DEF DropFrom, StateRecord
<1>8. /\ rest.entries \in Seq(Nat) /\ NoDup(rest.entries)
      /\ Ids(rest.entries) \subseteq Ids(mem[chat].entries)
  <2>1. NoDupBut(mem[chat].entries, gone)
    BY <1>6 DEF NoDup, NoDupBut
  <2>2. /\ Without(mem[chat].entries, gone) \in Seq(Nat)
        /\ Ids(Without(mem[chat].entries, gone)) = Ids(mem[chat].entries) \ gone
        /\ NoDup(Without(mem[chat].entries, gone))
    BY <1>6, <2>1, WithoutFacts
  <2> QED
    BY <1>7, <2>2
<1> HIDE DEF path, N, leaf
<1>9. /\ mem' \in [Chat -> StateRecord] /\ mem'[chat] = rest
      /\ \A a \in Chat : /\ a # chat => mem'[a] = mem[a]
                         /\ mem'[a].flushed = mem[a].flushed
                         /\ Ids(mem'[a].entries) \subseteq Ids(mem[a].entries)
                         /\ NoDup(mem'[a].entries)
                         /\ mem'[a].leaf <= N
  <2>1. rest \in StateRecord
    BY <1>7, <1>8
  <2>2. /\ mem' \in [Chat -> StateRecord] /\ mem'[chat] = rest
        /\ \A a \in Chat : a # chat => mem'[a] = mem[a]
    BY <1>1, <1>2, <1>4, <2>1 DEF Types
  <2>3. \A a \in Chat : NoDup(mem[a].entries) /\ mem[a].leaf <= N
    BY <1>1 DEF Distinct, Refers, N
  <2>4. /\ rest.flushed = mem[chat].flushed /\ Ids(rest.entries) \subseteq Ids(mem[chat].entries)
        /\ NoDup(rest.entries) /\ rest.leaf <= N
    BY <1>5, <1>7, <1>8
  <2>5. ASSUME NEW a \in Chat
        PROVE  /\ mem'[a].flushed = mem[a].flushed
               /\ Ids(mem'[a].entries) \subseteq Ids(mem[a].entries)
               /\ NoDup(mem'[a].entries) /\ mem'[a].leaf <= N
    <3>1. CASE a = chat
      BY <2>2, <2>4, <3>1
    <3>2. CASE a # chat
      BY <2>2, <2>3, <3>2
    <3> QED
      BY <3>1, <3>2
  <2> QED
    BY <2>2, <2>5
<1>10. op[Run].at = "none" /\ op[Run].mode = "append"
  <2>1. op[Run].mode \in {"append", "rewrite"}
    BY <1>1, WriterFacts DEF Types, OpRecord
  <2> QED
    BY <1>1, <1>2, <2>1 DEF Idle, RunControl
<1>11. /\ op' \in [Writer -> OpRecord]
       /\ op'[Run].at \in {"none", "open"} /\ (op'[Run].at = "open" <=> op'[Run].mode = "rewrite")
       /\ op'[Run].id <= N
       /\ NoDup(op'[Run].ids) /\ Ids(op'[Run].ids) \subseteq 1..N
       /\ op'[Run].ids = op[Run].ids \/ Ids(op'[Run].ids) \subseteq Ids(mem[chat].entries)
       /\ \A v \in Writer : v # Run => op'[v] = op[v]
  <2>1. CASE op' = op
    BY <1>1, <1>10, <2>1, WriterFacts DEF Types, Distinct, Refers, N
  <2>2. CASE op' = [op EXCEPT ![Run] = Opened("rewrite", Null, rest.entries, "none")]
    <3> DEFINE x == Opened("rewrite", Null, rest.entries, "none")
    <3>1. /\ x \in OpRecord /\ x.at = "open" /\ x.mode = "rewrite"
          /\ x.id = 0 /\ x.ids = rest.entries
      BY <1>8 DEF Opened, OpRecord, OpAt, Null
    <3> HIDE DEF x
    <3>2. op' = [op EXCEPT ![Run] = x]
      BY <2>2 DEF x
    <3>3. /\ op' \in [Writer -> OpRecord] /\ op'[Run] = x
          /\ \A v \in Writer : v # Run => op'[v] = op[v]
      BY <1>1, <3>1, <3>2, WriterFacts DEF Types
    <3>4. 0 <= N
      BY <1>1 DEF N
    <3> QED
      BY <1>6, <1>8, <3>1, <3>3, <3>4 DEF N
  <2> QED
    BY <1>4, <2>1, <2>2
<1>12. Types'
  BY <1>1, <1>2, <1>4, <1>9, <1>11 DEF Types, facts, bounds, RunAt
<1>13. Refers'
  BY <1>1, <1>2, <1>9, <1>11 DEF Refers, Lines, facts, N
<1>14. RunControl'
  BY <1>1, <1>2, <1>4, <1>9, <1>10, <1>11 DEF RunControl, Idle
<1>15. SubControl'
  BY <1>1, <1>2, <1>9, <1>11, WriterFacts DEF SubControl, Idle
<1>16. \A v \in Writer : Own(v)'
  BY <1>1, <1>2, <1>11 DEF Own, Idle
<1>17. Distinct'
  <2>1. NoLineTwice'
    BY <1>1, <1>2 DEF Distinct, NoLineTwice
  <2>2. ASSUME NEW v \in Writer, Unwritten(v)'
        PROVE  /\ op'[v].id \notin Lines
               /\ \A b \in Chat : b # Agent(v) => op'[v].id \notin Ids(mem'[b].entries)
               /\ v # Run => op'[v].id \notin Ids(op'[Run].ids)
    <3>1. v # Run /\ op'[v] = op[v] /\ Unwritten(v) /\ v \in Chat
      BY <1>11, <2>2, WriterFacts DEF Unwritten
    <3>2. v # chat
      BY <1>1, <1>2, <3>1 DEF SubControl, Unwritten, Idle
    <3>3. Agent(v) = v
      BY <3>1 DEF Agent
    <3>4. /\ op[v].id \notin Lines /\ op[v].id \notin Ids(op[Run].ids)
          /\ \A b \in Chat : b # v => op[v].id \notin Ids(mem[b].entries)
      BY <1>1, <3>1, <3>3 DEF Distinct
    <3> QED
      BY <1>2, <1>9, <1>11, <3>1, <3>2, <3>3, <3>4
  <2>3. Lines' = Lines /\ \A v \in Writer : Agent(v)' = Agent(v)
    BY <1>2 DEF Lines, Agent
  <2> QED
    BY <1>9, <1>11, <2>1, <2>2, <2>3 DEF Distinct
<1>18. Kept'
  BY <1>11 DEF Kept, Unwritten
<1>19. OnFile'
  <2>1. op'[Run].at \notin {"fill", "release"} /\ op[Run].at # "fill"
    BY <1>10, <1>11
  <2> QED
    BY <1>1, <1>2, <1>9, <2>1 DEF OnFile, Written, Lines, facts
<1> QED
  BY <1>12, <1>13, <1>14, <1>15, <1>16, <1>17, <1>18, <1>19 DEF Inv

\* The file is opened for writing from its start: only a run does that.
LEMMA StartFillInv ==
  ASSUME Inv, NEW w \in Writer, op[w].at = "write",
         op[w].mode = "rewrite" \/ ~mem[Agent(w)].flushed,
         file' = NoFile, op' = [op EXCEPT ![w].at = "fill", ![w].ids = Content(w)],
         UNCHANGED <<entries, lock, mem, pending, chat, run, sub, facts, astray, bounds>>
  PROVE  Inv'
<1> DEFINE N == Len(entries)
<1>1. /\ Types /\ Refers /\ RunControl /\ SubControl /\ (\A v \in Writer : Own(v))
      /\ Distinct /\ Kept /\ OnFile /\ N \in Nat
  BY DEF Inv, Types
<1>2. w = Run
  <2>1. ASSUME w \in Chat PROVE FALSE
    <3>1. Agent(w) = w /\ sub[w] = "reports" /\ op[w].mode = "append"
      BY <1>1, <2>1, WriterFacts DEF Agent, SubControl, Idle
    <3> QED
      BY <1>1, <2>1, <3>1 DEF SubControl
  <2> QED
    BY <2>1, WriterFacts
<1>3. run \notin {"none", "begin"} /\ chat \in Chat /\ Agent(Run) = chat
  BY <1>1, <1>2 DEF RunControl, Idle, Agent
<1> DEFINE ids == Content(Run)
<1>4. /\ ids \in Seq(Nat) /\ NoDup(ids) /\ Ids(ids) \subseteq 1..N
      /\ op[Run].mode = "rewrite" => ids = op[Run].ids
      /\ op[Run].mode # "rewrite" => ids = mem[chat].entries
  <2>1. op[Run].ids \in Seq(Nat) /\ NoDup(op[Run].ids) /\ Ids(op[Run].ids) \subseteq 1..N
    BY <1>1, WriterFacts DEF Types, OpRecord, Distinct, Refers
  <2>2. /\ mem[chat].entries \in Seq(Nat) /\ NoDup(mem[chat].entries)
        /\ Ids(mem[chat].entries) \subseteq 1..N
    BY <1>1, <1>3 DEF Types, StateRecord, Distinct, Refers
  <2> QED
    BY <1>3, <2>1, <2>2 DEF Content
<1> HIDE DEF ids
<1>5. /\ op' \in [Writer -> OpRecord] /\ op'[Run].at = "fill" /\ op'[Run].ids = ids
      /\ op'[Run].mode = op[Run].mode /\ op'[Run].id = op[Run].id
      /\ \A v \in Writer : v # Run => op'[v] = op[v]
  <2> DEFINE filling == [op EXCEPT ![Run].at = "fill"]
  <2>1. op \in [Writer -> OpRecord] /\ "fill" \in OpAt /\ Run \in Writer
    BY <1>1, WriterFacts DEF Types, OpAt
  <2>2. /\ filling \in [Writer -> OpRecord] /\ filling[Run].at = "fill"
        /\ filling[Run].mode = op[Run].mode /\ filling[Run].id = op[Run].id
        /\ \A v \in Writer : v # Run => filling[v] = op[v]
    BY <2>1 DEF OpRecord
  <2>3. op' = [filling EXCEPT ![Run].ids = ids]
    BY <1>2 DEF ids
  <2> HIDE DEF filling
  <2> DEFINE x == [filling[Run] EXCEPT !.ids = ids]
  <2>4. /\ x \in OpRecord /\ x.at = "fill" /\ x.ids = ids
        /\ x.mode = op[Run].mode /\ x.id = op[Run].id
    BY <1>4, <2>1, <2>2 DEF OpRecord
  <2>5. op' = [filling EXCEPT ![Run] = x]
    BY <2>3
  <2> HIDE DEF x
  <2> QED
    BY <2>1, <2>2, <2>4, <2>5
<1>6. Lines' = {} /\ ~file'.cut /\ file' \in FileRecord
  BY EmptySeq DEF Lines, NoFile, FileRecord
<1>7. Types'
  BY <1>1, <1>5, <1>6 DEF Types, facts, bounds
<1>8. Refers'
  BY <1>1, <1>4, <1>5, <1>6 DEF Refers, facts
<1>9. RunControl'
  BY <1>1, <1>2, <1>3, <1>5 DEF RunControl, Idle
<1>10. SubControl'
  <2>1. UNCHANGED <<sub, chat, mem>> /\ \A a \in Chat : op'[a] = op[a]
    BY <1>5, WriterFacts
  <2>2. ASSUME NEW a \in Chat
        PROVE  /\ sub[a] # "none" => a <= chat /\ mem[a].flushed
               /\ op[a].at # "none" => sub[a] = "reports"
               /\ op[a].mode = "append" /\ op[a].at # "fill" /\ op[a].ids = <<>>
    BY <1>1 DEF SubControl, Idle
  <2> QED
    BY <2>1, <2>2 DEF SubControl, Idle
<1>11. \A v \in Writer : Own(v)'
  BY <1>1, <1>2, <1>5 DEF Own, Idle
<1>12. Distinct'
  <2>1. NoLineTwice'
    BY DEF NoLineTwice, NoFile
  <2>2. ASSUME NEW v \in Writer, Unwritten(v)'
        PROVE  /\ \A b \in Chat : b # Agent(v) => op'[v].id \notin Ids(mem[b].entries)
               /\ v # Run => op'[v].id \notin Ids(op'[Run].ids)
    <3>1. v # Run /\ v \in Chat /\ op'[v] = op[v] /\ Unwritten(v) /\ Agent(v) = v
      BY <1>5, <2>2, WriterFacts DEF Unwritten, Agent
    <3>2. /\ \A b \in Chat : b # v => op[v].id \notin Ids(mem[b].entries)
          /\ op[v].id \notin Ids(op[Run].ids)
      BY <1>1, <3>1 DEF Distinct
    <3>3. op[Run].mode # "rewrite" => v # chat
      BY <1>1, <1>2, <1>3, <3>1 DEF SubControl, Unwritten, Idle
    <3> QED
      BY <1>3, <1>4, <1>5, <3>1, <3>2, <3>3
  <2>3. \A v \in Writer : Agent(v)' = Agent(v)
    BY DEF Agent
  <2>4. NoDup(op'[Run].ids) /\ \A a \in Chat : NoDup(mem'[a].entries)
    BY <1>1, <1>4, <1>5 DEF Distinct
  <2>5. ASSUME NEW v \in Writer, Unwritten(v)'
        PROVE  /\ op'[v].id \notin Lines'
               /\ \A b \in Chat : b # Agent(v)' => op'[v].id \notin Ids(mem'[b].entries)
               /\ v # Run => op'[v].id \notin Ids(op'[Run].ids)
    <3>1. mem' = mem
      OBVIOUS
    <3>2. Agent(v)' = Agent(v) /\ op'[v].id \notin Lines'
      BY <1>6, <2>3
    <3>3. \A b \in Chat : b # Agent(v)' => op'[v].id \notin Ids(mem'[b].entries)
      BY <2>2, <2>5, <3>1, <3>2, Zenon
    <3>4. v # Run => op'[v].id \notin Ids(op'[Run].ids)
      BY <2>2, <2>5, Zenon
    <3> QED
      BY <3>2, <3>3, <3>4, Zenon
  <2> QED
    BY <2>1, <2>4, <2>5, Zenon DEF Distinct
<1>13. Kept'
  <2>1. op[Run].mode = "append" => Unwritten(Run) /\ ids = mem[chat].entries
    BY <1>2, <1>4 DEF Unwritten
  <2> QED
    BY <1>1, <1>5, <2>1 DEF Kept, Unwritten
<1>14. OnFile'
  BY <1>1, <1>5, <1>6 DEF OnFile, facts
<1> QED
  BY <1>7, <1>8, <1>9, <1>10, <1>11, <1>12, <1>13, <1>14 DEF Inv

\* A line is added.
LEMMA AddedInv ==
  ASSUME Inv, NEW w \in Writer, op[w].at = "write", op[w].mode = "append", mem[Agent(w)].flushed,
         file' = AddLine(file, op[w].id), GoOn(w, "release"),
         UNCHANGED <<entries, lock, mem, pending, chat, run, sub, facts, astray, bounds>>
  PROVE  Inv'
<1> DEFINE N == Len(entries)
           id == op[w].id
<1>1. /\ Types /\ Refers /\ RunControl /\ SubControl /\ (\A v \in Writer : Own(v))
      /\ Distinct /\ Kept /\ OnFile /\ N \in Nat /\ DOMAIN entries = 1..N
  BY DEF Inv, Types
<1>2. Unwritten(w) /\ ~Idle(w)
  BY DEF Unwritten, Idle
<1>3. id \in 1..N /\ id \in 0..N /\ entries[id].by = w /\ id \notin Lines
  <2>1. id \in 1..N /\ entries[id].by = w /\ id \notin Lines
    BY <1>1, <1>2 DEF Own, Distinct
  <2> QED
    BY <2>1
<1>4. /\ GoodFile(file', N) /\ ~file'.cut /\ file'.lines # <<>> /\ file'.header = file.header
      /\ Lines' \subseteq Lines \union {id, 0}
      /\ ~file.cut => Lines' = Lines \union {id}
  <2>1. GoodFile(file, N) /\ N \in Nat
    BY <1>1, FileIsGood
  <2>2. id \in 0..N /\ id \notin Ids(file.lines) /\ file' = AddLine(file, id)
    BY <1>3 DEF Lines
  <2> HIDE DEF id, N
  <2>3. /\ GoodFile(file', N) /\ ~file'.cut /\ file'.lines # <<>> /\ file'.header = file.header
        /\ Ids(file'.lines) \subseteq Ids(file.lines) \union {id, Damaged}
        /\ ~file.cut => Ids(file'.lines) = Ids(file.lines) \union {id}
    BY <2>1, <2>2, AddLineFacts
  <2> QED
    BY <2>3 DEF Lines, Damaged
<1>5. /\ op' \in [Writer -> OpRecord]
      /\ op'[w].at = "release" /\ op'[w].mode = op[w].mode /\ op'[w].id = id
      /\ op'[w].ids = op[w].ids
      /\ \A v \in Writer : v # w => op'[v] = op[v]
  BY <1>1, GoOnFacts DEF OpAt
<1>6. Agent(w) \in Chat
  BY <1>1, <1>2, WriterFacts DEF Agent, RunControl
<1> HIDE DEF N, id
<1>7. Types'
  BY <1>1, <1>4, <1>5 DEF Types, GoodFile, facts, bounds
<1>8. Refers'
  <2>1. Lines' \subseteq 0..N
    BY <1>4 DEF GoodFile, Lines
  <2>2. \A v \in Writer : op'[v].id = op[v].id /\ op'[v].ids = op[v].ids
    BY <1>5 DEF id
  <2> QED
    BY <1>1, <2>1, <2>2 DEF Refers, facts, N
<1>9. RunControl'
  <2>1. CASE w = Run
    BY <1>1, <1>2, <1>5, <2>1 DEF RunControl, Idle, Agent
  <2>2. CASE w # Run
    BY <1>1, <1>5, <2>2, WriterFacts DEF RunControl, Idle
  <2> QED
    BY <2>1, <2>2
<1>10. SubControl'
  BY <1>1, <1>2, <1>5, WriterFacts DEF SubControl, Idle
<1>11. \A v \in Writer : Own(v)'
  BY <1>1, <1>2, <1>5 DEF Own, Idle, id
<1>12. Distinct'
  <2>1. NoLineTwice'
    BY <1>4 DEF GoodFile, NoTwice, NoDupBut, NoLineTwice
  <2>2. ASSUME NEW v \in Writer, Unwritten(v)'
        PROVE  v # w /\ op'[v] = op[v] /\ Unwritten(v) /\ op[v].id \notin Lines'
    <3>1. v # w /\ op'[v] = op[v] /\ Unwritten(v)
      BY <1>5, <2>2 DEF Unwritten
    <3>2. op[v].id \in 1..N /\ entries[op[v].id].by = v
      BY <1>1, <3>1 DEF Own, Unwritten, Idle
    <3>3. op[v].id # id /\ op[v].id # 0 /\ op[v].id \notin Lines
      BY <1>1, <1>3, <3>1, <3>2 DEF Distinct
    <3> QED
      BY <1>4, <3>1, <3>3
  <2>3. op'[Run].ids = op[Run].ids
    BY <1>5, WriterFacts
  <2>4. \A v \in Writer : Agent(v)' = Agent(v)
    BY DEF Agent
  <2> QED
    BY <1>1, <2>1, <2>2, <2>3, <2>4 DEF Distinct
<1>13. Kept'
  <2>1. CASE w = Run
    BY <1>5, <2>1 DEF Kept, Unwritten
  <2>2. CASE w # Run
    BY <1>1, <1>5, <2>2, WriterFacts DEF Kept, Unwritten
  <2> QED
    BY <2>1, <2>2
<1>14. OnFile'
  <2>1. op'[Run].at # "fill" => op[Run].at # "fill"
    BY <1>5, WriterFacts
  <2>2. Written(Run)' => w = Run \/ (Written(Run) /\ op'[Run] = op[Run])
    BY <1>5, WriterFacts DEF Written
  <2>3. ASSUME ~damaged, op[Run].at # "fill"
        PROVE  /\ Lines \subseteq Lines' /\ id \in Lines' /\ file'.header
               /\ Written(Run)' => op'[Run].id \in Lines'
    <3>1. ~file.cut /\ file.header
      BY <1>1, <1>6, <2>3 DEF OnFile
    <3>2. Lines \subseteq Lines' /\ id \in Lines'
      BY <1>4, <3>1
    <3> QED
      BY <1>1, <1>4, <1>5, <2>2, <2>3, <3>1, <3>2 DEF OnFile
  <2> QED
    BY <1>1, <1>4, <2>1, <2>3 DEF OnFile, facts
<1> QED
  BY <1>7, <1>8, <1>9, <1>10, <1>11, <1>12, <1>13, <1>14 DEF Inv

LEMMA WriteInv == ASSUME Inv, NEW w \in Writer, Write(w) PROVE Inv'
  BY StartFillInv, AddedInv DEF Write

LEMMA FillInv == ASSUME Inv, NEW w \in Writer, Fill(w) PROVE Inv'
<1> DEFINE N == Len(entries)
           ids == op[Run].ids
<1>1. /\ Types /\ Refers /\ RunControl /\ SubControl /\ (\A v \in Writer : Own(v))
      /\ Distinct /\ Kept /\ OnFile /\ N \in Nat /\ DOMAIN entries = 1..N
  BY DEF Inv, Types
<1>2. w = Run /\ op[Run].at = "fill"
  BY <1>1, WriterFacts DEF Fill, SubControl
<1>3. /\ run \notin {"none", "begin"} /\ chat \in Chat /\ Agent(Run) = chat
      /\ op[Run].mode = "append" => ~mem[chat].flushed
  BY <1>1, <1>2 DEF RunControl, Idle, Agent
<1>4. /\ file' = Whole(ids) /\ mem' = [mem EXCEPT ![chat].flushed = TRUE]
      /\ log' = LogOf(Run) /\ GoOn(Run, "release")
      /\ UNCHANGED <<entries, lock, pending, chat, run, sub, excused, damaged, holed, astray, bounds>>
  BY <1>2, <1>3 DEF Fill
<1>5. ids \in Seq(Nat) /\ NoDup(ids) /\ Ids(ids) \subseteq 1..N
  BY <1>1, WriterFacts DEF Types, OpRecord, Distinct, Refers
<1>6. GoodFile(file', N) /\ ~file'.cut /\ file'.header /\ Lines' = Ids(ids)
  BY <1>1, <1>4, <1>5, WholeFacts DEF Lines
<1>7. /\ op' \in [Writer -> OpRecord]
      /\ op'[Run].at = "release" /\ op'[Run].mode = op[Run].mode /\ op'[Run].id = op[Run].id
      /\ op'[Run].ids = ids
      /\ \A v \in Writer : v # Run => op'[v] = op[v]
  BY <1>1, <1>4, GoOnFacts, WriterFacts DEF OpAt
<1>8. /\ mem' \in [Chat -> StateRecord] /\ mem'[chat].flushed
      /\ \A a \in Chat : /\ mem'[a].entries = mem[a].entries /\ mem'[a].leaf = mem[a].leaf
                         /\ mem[a].flushed => mem'[a].flushed
  <2>1. mem[chat] \in StateRecord /\ mem \in [Chat -> StateRecord]
    BY <1>1, <1>3 DEF Types
  <2> DEFINE x == [mem[chat] EXCEPT !.flushed = TRUE]
  <2>2. /\ x \in StateRecord /\ x.flushed
        /\ x.entries = mem[chat].entries /\ x.leaf = mem[chat].leaf
    BY <2>1 DEF StateRecord
  <2>3. mem' = [mem EXCEPT ![chat] = x]
    BY <1>4
  <2> HIDE DEF x
  <2> QED
    BY <1>3, <2>1, <2>2, <2>3
<1>9. /\ log' \in Seq(Nat) /\ Ids(log') \subseteq Ids(log)
      /\ op[Run].mode = "rewrite" => Ids(log') \subseteq Ids(ids)
      /\ op[Run].mode # "rewrite" => log' = log
  <2>1. CASE op[Run].mode = "rewrite"
    <3> DEFINE gone == Ids(log) \ Ids(ids)
    <3>1. log' = Without(log, gone)
      BY <1>4, <2>1 DEF LogOf
    <3> HIDE DEF gone
    <3>2. log' \in Seq(Nat) /\ Ids(log') = Ids(log) \ gone
      BY <1>1, <3>1, WithoutFacts DEF Types
    <3> QED
      BY <2>1, <3>2 DEF gone
  <2>2. CASE op[Run].mode # "rewrite"
    BY <1>1, <1>4, <2>2 DEF LogOf, Types
  <2> QED
    BY <2>1, <2>2
<1> HIDE DEF ids, N
<1>10. Types'
  BY <1>1, <1>4, <1>6, <1>7, <1>8, <1>9 DEF Types, GoodFile, bounds
<1>11. Refers'
  <2>1. \A v \in Writer : op'[v].id = op[v].id /\ op'[v].ids = op[v].ids
    BY <1>7 DEF ids
  <2>2. Lines' \subseteq 0..N /\ Ids(log') \subseteq 1..N
    BY <1>1, <1>6, <1>9 DEF GoodFile, Lines, Refers, N
  <2> QED
    BY <1>1, <1>4, <1>8, <2>1, <2>2 DEF Refers, N
<1>12. RunControl'
  BY <1>1, <1>2, <1>3, <1>4, <1>7, <1>8 DEF RunControl, Idle
<1>13. SubControl'
  BY <1>1, <1>4, <1>7, <1>8, WriterFacts DEF SubControl, Idle
<1>14. \A v \in Writer : Own(v)'
  BY <1>1, <1>2, <1>4, <1>7 DEF Own, Idle
<1>15. Distinct'
  <2>1. NoLineTwice'
    BY <1>6 DEF GoodFile, NoTwice, NoDupBut, NoLineTwice
  <2>2. ASSUME NEW v \in Writer, Unwritten(v)'
        PROVE  v # Run /\ op'[v] = op[v] /\ Unwritten(v) /\ op[v].id \notin Lines'
    <3>1. v # Run /\ op'[v] = op[v] /\ Unwritten(v)
      BY <1>7, <2>2 DEF Unwritten
    <3> QED
      BY <1>1, <1>6, <3>1 DEF Distinct, ids
  <2>3. \A v \in Writer : Agent(v)' = Agent(v)
    BY <1>4 DEF Agent
  <2>4. NoDup(op'[Run].ids) /\ \A a \in Chat : NoDup(mem'[a].entries)
    BY <1>1, <1>5, <1>7, <1>8 DEF Distinct
  <2>5. ASSUME NEW v \in Writer, Unwritten(v)'
        PROVE  /\ \A b \in Chat : b # Agent(v)' => op'[v].id \notin Ids(mem'[b].entries)
               /\ op'[v].id \notin Ids(op'[Run].ids)
    BY <1>1, <1>7, <1>8, <2>2, <2>3, <2>5 DEF Distinct, ids
  <2> QED
    BY <2>1, <2>2, <2>4, <2>5 DEF Distinct
<1>16. Kept'
  BY <1>7 DEF Kept, Unwritten
<1>17. OnFile'
  <2>1. ASSUME ~damaged, NEW i \in DOMAIN log'
        PROVE  entries[log'[i]].by # Run \/ log'[i] \in Lines'
    <3>1. CASE op[Run].mode = "rewrite"
      BY <1>6, <1>9, <3>1 DEF Ids
    <3>2. CASE op[Run].mode # "rewrite"
      <4>1. ~mem[chat].flushed /\ log' = log
        BY <1>1, <1>3, <1>9, <3>2, WriterFacts DEF Types, OpRecord
      <4> QED
        BY <1>1, <1>3, <2>1, <4>1 DEF OnFile
    <3> QED
      BY <3>1, <3>2
  <2>2. Written(Run)' => op'[Run].id \in Lines'
    BY <1>1, <1>2, <1>6, <1>7 DEF Written, Kept, ids
  <2> QED
    BY <1>4, <1>6, <1>8, <2>1, <2>2 DEF OnFile
<1> QED
  BY <1>10, <1>11, <1>12, <1>13, <1>14, <1>15, <1>16, <1>17 DEF Inv

LEMMA CrashInv == ASSUME Inv, Crash PROVE Inv'
<1> DEFINE N == Len(entries)
<1>1. /\ Types /\ Refers /\ RunControl /\ SubControl /\ (\A v \in Writer : Own(v))
      /\ Distinct /\ Kept /\ OnFile /\ N \in Nat /\ DOMAIN entries = 1..N
  BY DEF Inv, Types
<1>2. /\ crashes < MaxCrashes /\ crashes' = crashes + 1 /\ run' = "none"
      /\ mem' = [a \in Chat |-> NewState] /\ pending' = [a \in Chat |-> {}]
      /\ op' = [w \in Writer |-> NoOp] /\ sub' = [a \in Chat |-> "none"]
      /\ lock' = IF lock = NoLock THEN lock ELSE [lock EXCEPT !.owner = Dead]
      /\ excused' = excused \union {c[1] : c \in UNION {pending[a] : a \in Chat}}
                            \union UNION {UsesOf(op[w].id) : w \in Writer}
      /\ UNCHANGED <<entries, chat, holed, astray, subs, fails>>
  BY DEF Crash
<1>3. /\ NewState \in StateRecord /\ NewState.entries = <<>> /\ NewState.leaf = 0
      /\ ~NewState.flushed
      /\ NoOp \in OpRecord /\ NoOp.at = "none" /\ NoOp.mode = "append" /\ NoOp.id = 0
      /\ NoOp.ids = <<>>
  BY DEF NewState, StateRecord, NoOp, OpRecord, OpAt, Null
<1>4. /\ mem' \in [Chat -> StateRecord] /\ op' \in [Writer -> OpRecord]
      /\ \A a \in Chat : mem'[a] = NewState /\ pending'[a] = {} /\ sub'[a] = "none"
      /\ \A w \in Writer : op'[w] = NoOp
  BY <1>2, <1>3
<1>5. GoodFile(file, N)
  BY FileIsGood
\* The file, what is acknowledged, and whether the file is damaged.
<1>6. /\ GoodFile(file', N) /\ damaged' \in BOOLEAN
      /\ log' \in Seq(Nat) /\ Ids(log') \subseteq 1..N
      /\ file'.cut => damaged'
      /\ ~damaged' => /\ ~file'.header => file'.lines = <<>>
                      /\ \A i \in DOMAIN log' : entries[log'[i]].by # Run \/ log'[i] \in Lines'
  <2>1. CASE /\ \A w \in Writer : op[w].at # "fill"
             /\ \/ UNCHANGED log
                \/ \E w \in Writer : Written(w) /\ log' = Append(log, op[w].id)
             /\ UNCHANGED <<file, damaged>>
    <3>1. PICK w \in Writer : LogGrows(w)
      BY <2>1, WriterFacts DEF LogGrows
    <3>2. /\ log' \in Seq(Nat) /\ Ids(log') \subseteq 1..N
          /\ Written(w) => op[w].id \in 1..N /\ entries[op[w].id].by = w
          /\ \A i \in DOMAIN log' : \/ i \in DOMAIN log /\ log'[i] = log[i]
                                    \/ Written(w) /\ log'[i] = op[w].id
      BY <3>1, LogFacts
    <3>3. op[Run].at # "fill" /\ Lines' = Lines
      BY <2>1, WriterFacts DEF Lines
    <3>4. ASSUME ~damaged, NEW i \in DOMAIN log'
          PROVE  entries[log'[i]].by # Run \/ log'[i] \in Lines
      BY <1>1, <3>2, <3>3, <3>4 DEF OnFile
    <3> QED
      BY <1>1, <1>5, <2>1, <3>2, <3>3, <3>4 DEF OnFile, Types
  <2>2. CASE \E w \in Writer :
               /\ op[w].at = "write" /\ op[w].mode = "append"
               /\ file' \in CutLine(file, op[w].id) /\ damaged' = TRUE /\ UNCHANGED log
    <3>1. PICK w \in Writer :
            /\ op[w].at = "write" /\ op[w].mode = "append"
            /\ file' \in CutLine(file, op[w].id) /\ damaged' = TRUE /\ UNCHANGED log
      BY <2>2
    <3>2. op[w].id \in 1..N /\ op[w].id \notin Ids(file.lines)
      BY <1>1, <3>1 DEF Own, Idle, Distinct, Unwritten, Lines
    <3>3. op[w].id \in 0..N
      BY <3>2
    <3>4. GoodFile(file', N)
      BY <1>1, <1>5, <3>1, <3>2, <3>3, CutLineFacts
    <3> QED
      BY <1>1, <3>1, <3>4 DEF Types, Refers
  <2>3. CASE \E w \in Writer :
               /\ op[w].at = "fill" /\ file' \in PartOf(op[w].ids)
               /\ damaged' = (damaged \/ log # <<>> \/ file'.cut) /\ UNCHANGED log
    <3>1. PICK w \in Writer :
            /\ op[w].at = "fill" /\ file' \in PartOf(op[w].ids)
            /\ damaged' = (damaged \/ log # <<>> \/ file'.cut) /\ UNCHANGED log
      BY <2>3
    <3>2. w = Run
      BY <1>1, <3>1, WriterFacts DEF SubControl
    <3>3. op[w].ids \in Seq(Nat) /\ NoDup(op[w].ids) /\ Ids(op[w].ids) \subseteq 1..N
      BY <1>1, <3>2, WriterFacts DEF Types, OpRecord, Distinct, Refers
    <3>4. GoodFile(file', N) /\ (file'.cut \/ file'.header \/ file'.lines = <<>>)
      BY <1>1, <3>1, <3>3, PartOfFacts
    <3>5. log \in Seq(Nat) /\ Ids(log) \subseteq 1..N /\ log' = log
      BY <1>1, <3>1 DEF Types, Refers
    <3>6. /\ damaged' \in BOOLEAN /\ (file'.cut => damaged')
          /\ ~damaged' => log' = <<>> /\ ~file'.cut
      BY <3>1
    <3>7. log' = <<>> => DOMAIN log' = {}
      OBVIOUS
    <3> QED
      BY <3>4, <3>5, <3>6, <3>7
  <2> QED
    BY <2>1, <2>2, <2>3 DEF Crash
<1>7. excused' \subseteq 1..N
  <2>1. ASSUME NEW w \in Writer PROVE UsesOf(op[w].id) \subseteq 1..N
    <3>1. op[w].id \in Nat /\ op[w].id <= N
      BY <1>1 DEF Types, Refers, OpRecord
    <3> QED
      BY <1>1, <3>1, UsesTyped
  <2>2. \A a \in Chat : \A c \in pending[a] : c[1] \in 1..N
    BY <1>1 DEF Refers
  <2> QED
    BY <1>1, <1>2, <2>1, <2>2 DEF Refers
<1> HIDE DEF N
<1>8. Types'
  <2>1. lock' \in [owner : {Dead - 1, Dead} \union Writer, stamped : BOOLEAN]
    BY <1>1, <1>2 DEF Types
  <2>2. crashes' \in 0..MaxCrashes
    BY <1>1, <1>2, StoreAssumption DEF Types
  <2>3. excused' \subseteq Nat
    BY <1>7 DEF N
  <2>4. /\ pending' \in [Chat -> SUBSET (Nat \X {1, 2})]
        /\ sub' \in [Chat -> {"none", "works", "reports"}]
    BY <1>2
  <2> QED
    BY <1>1, <1>2, <1>4, <1>6, <2>1, <2>2, <2>3, <2>4 DEF Types, GoodFile, RunAt
<1>9. Refers'
  <2>1. 0 <= N
    BY <1>1
  <2>2. Lines' \subseteq 0..N
    BY <1>6 DEF GoodFile, Lines
  <2> QED
    BY <1>1, <1>2, <1>3, <1>4, <1>6, <1>7, <2>1, <2>2, EmptySeq DEF Refers, N
<1>10. \A w \in Writer : op'[w].at = "none" /\ op'[w].mode = "append" /\ op'[w].ids = <<>>
  BY <1>3, <1>4
<1>11. RunControl' /\ SubControl'
  BY <1>2, <1>4, <1>10, WriterFacts DEF RunControl, SubControl, Idle
<1>12. \A v \in Writer : Own(v)'
  BY <1>10 DEF Own, Idle
<1>13. Distinct'
  <2>1. NoLineTwice'
    BY <1>6 DEF GoodFile, NoTwice, NoDupBut, NoLineTwice
  <2>2. \A v \in Writer : ~Unwritten(v)'
    BY <1>10 DEF Unwritten
  <2> QED
    BY <1>3, <1>4, <1>10, <2>1, <2>2, WriterFacts, EmptySeq DEF Distinct
<1>14. Kept'
  BY <1>10, WriterFacts DEF Kept, Unwritten
<1>15. OnFile'
  <2>1. ~Written(Run)'
    BY <1>10, WriterFacts DEF Written
  <2> QED
    BY <1>2, <1>3, <1>4, <1>6, <2>1 DEF OnFile
<1> QED
  BY <1>8, <1>9, <1>11, <1>12, <1>13, <1>14, <1>15 DEF Inv
-----------------------------------------------------------------------------
(* The theorems.                                                           *)

\* What the actions are that put an entry.
LEMMA AddActions ==
  ASSUME Inv
  PROVE  /\ Say \/ Turn \/ Results \/ (Finally /\ pending[chat] # {}) => AddStep(Run)
         /\ \A a \in Chat : SubReports(a) => AddStep(a)
         /\ \A w \in Writer : Release(w) /\ op[w].next # "none" => AddStep(w)
  BY SayAdds, TurnAdds, ResultsAdds, FlushAdds, SubReportsAdds, ReleaseAdds

LEMMA NextInv == ASSUME Inv, [Next]_vars PROVE Inv'
<1>1. CASE UNCHANGED vars
  BY <1>1, MoveInv DEF Inv, vars, facts, bounds, Types, Refers, RunControl, SubControl, Own,
     Idle, Distinct, NoLineTwice, Unwritten, Kept, OnFile, Written, Lines, Agent
<1>2. CASE \E w \in Writer : AddStep(w)
  BY <1>2, AddStepInv
<1>3. CASE StartChat \/ RunSteps \/ Finally
  BY <1>2, <1>3, WriterFacts, AddActions, StartChatInv, RegenerateInv, SpawnInv, LoopEndsInv,
     FinallyInv DEF RunSteps
<1>4. CASE \E w \in Writer : Proceed(w) \/ Throw(w)
  BY <1>2, <1>4, AddActions, LockInv, WriteInv, FillInv, ReleaseInv, ThrowInv DEF Proceed
<1>5. CASE \E a \in Chat : SubReports(a)
  BY <1>2, <1>5, WriterFacts, AddActions
<1>6. CASE Crash
  BY <1>6, CrashInv
<1> QED
  BY <1>1, <1>3, <1>4, <1>5, <1>6 DEF Next

LEMMA InvHolds == Spec => []Inv
  BY InitInv, NextInv, PTL DEF Spec

\* The session store is well-typed, for every number of chats and entries: what is
\* in memory, on file, awaited and pending are entries there are.
THEOREM StoreTypeCorrect == Spec => []TypeOK
<1>1. Inv => TypeOK
  BY TypesSuffice DEF Inv
<1> QED
  BY <1>1, InvHolds, PTL

\* No entry is ever on file twice, although the first entry to be persisted takes
\* all others with it (session.ts l.493-505), rewrites meet the appends of other
\* chats' subagents, and two may hold the lock.
THEOREM NoEntryTwice == Spec => []NoLineTwice
<1>1. Inv => NoLineTwice
  BY DEF Inv, Distinct
<1> QED
  BY <1>1, InvHolds, PTL

\* A message of a chat whose append has returned stays on file until a crash cuts
\* a line or a rewrite, or a retry takes the message back.
THEOREM NothingAcknowledgedIsLost == Spec => []AcknowledgedStaysOnFile
<1>1. Inv => AcknowledgedStaysOnFile
  BY WriterFacts DEF Inv, OnFile, AcknowledgedStaysOnFile, Rewriting
<1> QED
  BY <1>1, InvHolds, PTL
-----------------------------------------------------------------------------
(* What a restart loads.  As long as no entry went astray and nothing was  *)
(* damaged, one writes at a time, and the file, the memory of the chat and *)
(* what was acknowledged are the same chain of entries but for the entry   *)
(* or the rewrite under way.                                               *)

\* An entry follows the one before it.
Chained(es, seq) ==
  \A i \in DOMAIN seq : es[seq[i]].parent = IF i = 1 THEN 0 ELSE seq[i - 1]

\* A new chat, and one that rewrites, has neither calls to answer nor a failed append.
Fresh(a) == pending[a] = {} /\ a \notin holed
FreshChats ==
  /\ \A a \in Chat : a > chat => Fresh(a)
  /\ run = "begin" \/ op[Run].mode = "rewrite" => Fresh(chat)

OneWriter ==
  /\ \A a \in Chat : ~Idle(a) => a = chat /\ run = "none" /\ a \notin holed
  /\ ~Idle(Run) => chat \notin holed

FileAgrees ==
  /\ Chained(entries, log) /\ NoDup(log)
  /\ op[Run].at # "fill" =>
       /\ (\A w \in Writer : ~Written(w)) => file.lines = log
       /\ \A w \in Writer : Written(w) => file.lines = Append(log, op[w].id)
  /\ op[Run].mode = "append" /\ op[Run].at = "fill" =>
       log = <<>> /\ op[Run].ids = Append(log, op[Run].id)
  /\ op[Run].mode = "rewrite" =>
       /\ op[Run].at # "release" => \E k \in 0..Len(log) : op[Run].ids = SubSeq(log, 1, k)
       /\ op[Run].at = "release" => op[Run].ids = log

MemoryAgrees ==
  Live /\ chat \notin holed =>
    /\ Chained(entries, mem[chat].entries) /\ mem[chat].leaf = LastOf(mem[chat].entries)
    /\ \A w \in Writer : ~Idle(w) /\ op[w].mode = "append" =>
         mem[chat].entries = Append(log, op[w].id)
    /\ op[Run].mode = "rewrite" => mem[chat].entries = op[Run].ids
    /\ (\A w \in Writer : Idle(w)) => mem[chat].entries = log
    /\ ~mem[chat].flushed => log = <<>>

Same == OneWriter /\ FileAgrees /\ MemoryAgrees
HistoryInv == FreshChats /\ (~damaged /\ ~astray => Same)

\* Prefixes.
LEMMA SubSeqFacts ==
  ASSUME NEW T, NEW seq \in Seq(T)
  PROVE  /\ SubSeq(seq, 1, 0) = <<>> /\ SubSeq(seq, 1, Len(seq)) = seq
         /\ \A k \in 1..Len(seq) : SubSeq(seq, 1, k) = Append(SubSeq(seq, 1, k - 1), seq[k])
         /\ \A k \in 0..Len(seq) : /\ SubSeq(seq, 1, k) \in Seq(T) /\ Len(SubSeq(seq, 1, k)) = k
                                   /\ \A i \in 1..k : SubSeq(seq, 1, k)[i] = seq[i]
  OBVIOUS

LEMMA WithoutPrefix ==
  ASSUME NEW T, NEW seq \in Seq(T), NEW gone, NEW k \in 0..Len(seq),
         \A i \in 1..k : seq[i] \notin gone,
         \A i \in k + 1..Len(seq) : seq[i] \in gone
  PROVE  Without(seq, gone) = SubSeq(seq, 1, k)
<1> DEFINE N == Len(seq)
           min(n) == IF n <= k THEN n ELSE k
<1>1. PICK f : Rest(seq, gone, f, N) /\ Without(seq, gone) = f[N]
  BY WithoutIs
<1> DEFINE G == { n \in 0..N : f[n] = SubSeq(seq, 1, min(n)) }
<1>2. N \in Nat /\ k \in 0..N /\ min(0) = 0 /\ min(N) = k
  OBVIOUS
<1>3. 0 \in G
  <2>1. f[0] = <<>> /\ 0 \in 0..N
    BY <1>1, <1>2 DEF Rest
  <2> QED
    BY <1>2, <2>1, SubSeqFacts
<1>4. ASSUME NEW n \in 1..N, n - 1 \in G PROVE n \in G
  <2>1. n \in 0..N /\ n # 0 /\ f[n - 1] = SubSeq(seq, 1, min(n - 1))
    BY <1>4
  <2>2. f[n] = IF seq[n] \in gone THEN f[n - 1] ELSE Append(f[n - 1], seq[n])
    <3> HIDE DEF G
    <3> QED
      BY <1>1, <2>1 DEF Rest
  <2>3. CASE n <= k
    <3>1. seq[n] \notin gone /\ min(n) = n /\ min(n - 1) = n - 1
      BY <2>3
    <3>2. SubSeq(seq, 1, n) = Append(SubSeq(seq, 1, n - 1), seq[n])
      BY SubSeqFacts
    <3> QED
      BY <2>1, <2>2, <3>1, <3>2
  <2>4. CASE ~(n <= k)
    <3>1. seq[n] \in gone /\ min(n) = k /\ min(n - 1) = k
      BY <2>4
    <3> QED
      BY <2>1, <2>2, <3>1
  <2> QED
    BY <2>3, <2>4
<1>5. \A n \in 0..N : n \in G
  <2>1. N \in Nat /\ \A n \in 1..N : n - 1 \in G => n \in G
    BY <1>4
  <2> HIDE DEF N, G
  <2> QED
    BY <1>3, <2>1, UpTo
<1>6. N \in G
  <2> HIDE DEF G
  <2> QED
    BY <1>2, <1>5
<1> QED
  BY <1>1, <1>2, <1>6

\* Following the parents up a chain gives the chain.
LEMMA PathOfChain ==
  ASSUME Types, Refers, NEW state, state.entries \in Seq(Nat),
         Ids(state.entries) \subseteq 1..Len(entries),
         Chained(entries, state.entries), state.leaf = LastOf(state.entries)
  PROVE  Path(entries, state) = state.entries
<1> DEFINE N == Len(entries)
           seq == state.entries
           ids == Ids(seq)
           L == Len(seq)
<1>1. /\ N \in Nat /\ entries \in Seq(EntryRecord) /\ Backwards(entries) /\ DOMAIN entries = 1..N
      /\ seq \in Seq(Nat) /\ L \in Nat /\ DOMAIN seq = 1..L
      /\ \A i \in 1..L : seq[i] \in ids /\ seq[i] \in 1..N
  BY DEF Types, Refers, Ids
<1>2. \E f : Up(entries, ids, f, N)
  <2> HIDE DEF ids
  <2> QED
    BY <1>1, UpExists DEF ids
<1>3. PICK f : Up(entries, ids, f, N) /\ Path(entries, state) = f[state.leaf]
  BY <1>2 DEF Up, Path
<1> DEFINE node(k) == IF k = 0 THEN 0 ELSE seq[k]
           G == { k \in 0..L : f[node(k)] = SubSeq(seq, 1, k) }
<1>4. 0 \in G
  <2>1. 0 \notin ids /\ 0 \in 0..N
    BY <1>1
  <2>2. f[0] = <<>>
    <3> HIDE DEF ids
    <3> QED
      BY <1>3, <2>1 DEF Up
  <2>3. SubSeq(seq, 1, 0) = <<>> /\ node(0) = 0 /\ 0 \in 0..L
    BY <1>1, SubSeqFacts
  <2> QED
    BY <2>2, <2>3
<1>5. ASSUME NEW k \in 1..L, k - 1 \in G PROVE k \in G
  <2>1. k \in 0..L /\ k # 0 /\ f[node(k - 1)] = SubSeq(seq, 1, k - 1)
    BY <1>1, <1>5
  <2>2. seq[k] \in ids /\ seq[k] \in 0..N
    BY <1>1
  <2>3. f[seq[k]] = Append(f[entries[seq[k]].parent], seq[k])
    <3> HIDE DEF ids, seq, G
    <3> QED
      BY <1>3, <2>2 DEF Up
  <2>4. entries[seq[k]].parent = node(k - 1)
    <3>1. Chained(entries, seq) /\ k \in DOMAIN seq /\ (k - 1 = 0 <=> k = 1)
      BY <1>1
    <3> HIDE DEF seq, ids
    <3>2. entries[seq[k]].parent = IF k = 1 THEN 0 ELSE seq[k - 1]
      BY <3>1 DEF Chained
    <3> QED
      BY <3>1, <3>2
  <2>5. SubSeq(seq, 1, k) = Append(SubSeq(seq, 1, k - 1), seq[k])
    BY <1>1, SubSeqFacts
  <2>6. node(k) = seq[k]
    BY <2>1
  <2>7. f[node(k)] = SubSeq(seq, 1, k)
    <3> HIDE DEF node, seq, G
    <3> QED
      BY <2>1, <2>3, <2>4, <2>5, <2>6
  <2> QED
    BY <2>1, <2>7
<1>6. \A k \in 0..L : k \in G
  <2>1. L \in Nat /\ \A k \in 1..L : k - 1 \in G => k \in G
    BY <1>1, <1>5
  <2> HIDE DEF L, G
  <2> QED
    BY <1>4, <2>1, UpTo
<1>6a. L \in G
  <2> HIDE DEF G
  <2> QED
    BY <1>1, <1>6
<1>7. state.leaf = node(L)
  BY <1>1 DEF LastOf, Null
<1>8. SubSeq(seq, 1, L) = seq
  BY <1>1, SubSeqFacts
<1> QED
  BY <1>3, <1>6a, <1>7, <1>8

LEMMA ChainedPrefix ==
  ASSUME NEW seq \in Seq(Nat), Chained(entries, seq), NEW k \in 0..Len(seq)
  PROVE  Chained(entries, SubSeq(seq, 1, k))
<1> DEFINE s == SubSeq(seq, 1, k)
<1>1. s \in Seq(Nat) /\ Len(s) = k /\ DOMAIN s = 1..k /\ \A i \in 1..k : s[i] = seq[i]
  BY SubSeqFacts
<1> HIDE DEF s
<1>2. ASSUME NEW i \in 1..k PROVE entries[s[i]].parent = IF i = 1 THEN 0 ELSE s[i - 1]
  <2>1. i \in DOMAIN seq /\ (i # 1 => i - 1 \in 1..k)
    OBVIOUS
  <2> QED
    BY <1>1, <2>1 DEF Chained
<1> QED
  BY <1>1, <1>2 DEF Chained, s

LEMMA LastOfAppend ==
  ASSUME NEW seq \in Seq(Nat), NEW x \in Nat
  PROVE  /\ LastOf(Append(seq, x)) = x /\ LastOf(<<>>) = 0
         /\ Append(seq, x) \in Seq(Nat) /\ Append(seq, x) # <<>>
  BY DEF LastOf, Null

LEMMA EmptyChain == \A es : Chained(es, <<>>)
  BY DEF Chained

\* A chain goes on with an entry whose parent is its last one.
LEMMA ChainedAppend ==
  ASSUME NEW es, NEW seq \in Seq(Nat), Chained(es, seq),
         NEW n \in Nat, es[n].parent = LastOf(seq)
  PROVE  Chained(es, Append(seq, n))
<1> DEFINE s == Append(seq, n)
           L == Len(seq)
<1>1. /\ L \in Nat /\ DOMAIN seq = 1..L /\ DOMAIN s = 1..L + 1 /\ s[L + 1] = n
      /\ \A i \in 1..L : s[i] = seq[i]
  OBVIOUS
<1>2. LastOf(seq) = IF L = 0 THEN 0 ELSE seq[L]
  BY DEF LastOf, Null
<1> HIDE DEF s, L
<1>3. ASSUME NEW i \in 1..L + 1 PROVE es[s[i]].parent = IF i = 1 THEN 0 ELSE s[i - 1]
  <2>1. CASE i = L + 1
    <3>1. i - 1 = L /\ (i = 1 <=> L = 0) /\ (i # 1 => L \in 1..L)
      BY <1>1, <2>1
    <3>2. i # 1 => s[i - 1] = seq[L]
      BY <1>1, <3>1
    <3> QED
      BY <1>1, <1>2, <2>1, <3>1, <3>2
  <2>2. CASE i # L + 1
    <3>1. i \in 1..L /\ (i # 1 => i - 1 \in 1..L)
      BY <1>1, <2>2
    <3>2. s[i] = seq[i] /\ (i # 1 => s[i - 1] = seq[i - 1])
      BY <1>1, <3>1
    <3> QED
      BY <1>1, <3>1, <3>2 DEF Chained
  <2> QED
    BY <2>1, <2>2
<1> QED
  BY <1>1, <1>3 DEF Chained, s

\* New entries leave a chain as it is.
LEMMA ChainedKept ==
  ASSUME NEW es, NEW fs, NEW n \in Nat, NEW seq \in Seq(Nat), Chained(es, seq),
         Ids(seq) \subseteq 1..n, \A i \in 1..n : fs[i] = es[i]
  PROVE  Chained(fs, seq)
  BY DEF Chained, Ids
-----------------------------------------------------------------------------
(* The steps of the second invariant.                                      *)

\* One writer at a time, and it is the chat's.
LEMMA OneAtATime ==
  ASSUME Inv, OneWriter, NEW w \in Writer, ~Idle(w)
  PROVE  /\ \A v \in Writer : v # w => Idle(v)
         /\ Agent(w) = chat /\ chat \in Chat /\ chat \notin holed /\ Live
         /\ w # Run => w = chat /\ run = "none" /\ op[w].mode = "append"
<1>1. RunControl /\ SubControl /\ \A v \in Writer : v = Run \/ v \in Chat
  BY WriterFacts DEF Inv
<1>2. CASE w = Run
  <2>1. run \notin {"none", "begin"} /\ chat \in Chat
    BY <1>1, <1>2 DEF RunControl
  <2>2. \A v \in Writer : v # Run => Idle(v)
    BY <1>1, <2>1 DEF OneWriter
  <2> QED
    BY <1>2, <2>1, <2>2 DEF OneWriter, Agent, Live
<1>3. CASE w # Run
  <2>1. w \in Chat /\ w = chat /\ run = "none" /\ chat \notin holed
    BY <1>1, <1>3 DEF OneWriter
  <2>2. Idle(Run)
    BY <1>1, <2>1 DEF RunControl
  <2>3. \A v \in Writer : v # w => Idle(v)
    BY <1>1, <2>1, <2>2 DEF OneWriter
  <2>4. sub[chat] = "reports" /\ op[w].mode = "append"
    BY <1>1, <2>1 DEF SubControl
  <2> QED
    BY <1>3, <2>1, <2>3, <2>4 DEF Agent, Live
<1> QED
  BY <1>2, <1>3

\* Before a writer puts an entry, or ends, its memory, the file and what is
\* acknowledged by then are the same chain.
LEMMA AllAgree ==
  ASSUME Inv, Same, NEW w \in Writer, Live, chat \notin holed,
         \A v \in Writer : v # w => Idle(v),
         op[w].at \in {"none", "release"}, op[w].mode = "append" \/ w = Run,
         log' = IF Written(w) THEN Append(log, op[w].id) ELSE log
  PROVE  /\ mem[chat].entries = log' /\ file.lines = log'
         /\ Chained(entries, log') /\ NoDup(log') /\ mem[chat].leaf = LastOf(log')
         /\ log' \in Seq(Nat) /\ Ids(log') \subseteq 1..Len(entries)
         /\ ~mem[chat].flushed => log' = <<>>
<1>1. chat \in Chat /\ RunControl /\ SubControl /\ Types /\ Refers /\ Distinct
  BY DEF Inv, Live
<1>2. FileAgrees /\ MemoryAgrees /\ op[Run].at # "fill"
  BY WriterFacts DEF Same, Idle
<1>3. mem[chat].entries = log' /\ file.lines = log'
  <2>1. CASE op[w].at = "none"
    <3>1. (\A v \in Writer : Idle(v)) /\ \A v \in Writer : ~Written(v)
      BY <2>1 DEF Idle, Written
    <3> QED
      BY <1>2, <3>1 DEF FileAgrees, MemoryAgrees
  <2>2. CASE Written(w)
    <3>1. ~Idle(w) /\ op[w].mode = "append"
      BY <2>2 DEF Written, Idle
    <3> QED
      BY <1>2, <2>2, <3>1 DEF FileAgrees, MemoryAgrees
  <2>3. CASE op[w].at = "release" /\ ~Written(w)
    <3>1. w = Run /\ op[Run].mode = "rewrite"
      BY <1>1, <2>3 DEF Written, Types, OpRecord
    <3>2. \A v \in Writer : ~Written(v)
      BY <2>3 DEF Written, Idle
    <3> QED
      BY <1>2, <2>3, <3>1, <3>2 DEF FileAgrees, MemoryAgrees
  <2> QED
    BY <2>1, <2>2, <2>3
<1>4. Chained(entries, log') /\ mem[chat].leaf = LastOf(log')
  BY <1>2, <1>3 DEF MemoryAgrees
<1>5. /\ NoDup(log') /\ log' \in Seq(Nat) /\ Ids(log') \subseteq 1..Len(entries)
  <2>1. /\ NoDup(mem[chat].entries) /\ mem[chat].entries \in Seq(Nat)
        /\ Ids(mem[chat].entries) \subseteq 1..Len(entries)
    BY <1>1 DEF Distinct, Types, StateRecord, Refers
  <2> QED
    BY <1>3, <2>1
<1>6. ~mem[chat].flushed => log' = <<>>
  <2>1. Written(w) => mem[chat].flushed
    <3>1. w # Run /\ Written(w) => w = chat /\ sub[w] # "none"
      BY <1>1, WriterFacts DEF Same, OneWriter, Written, SubControl, Idle
    <3> QED
      BY <1>1, <3>1 DEF Written, RunControl, SubControl
  <2> QED
    BY <1>2, <2>1 DEF MemoryAgrees
<1> QED
  BY <1>3, <1>4, <1>5, <1>6

\* Who puts an entry while nothing goes astray is the only one at work.
LEMMA AddAlone ==
  ASSUME Inv, Same, NEW w \in Writer, AddStep(w), ~astray'
  PROVE  /\ Agent(w) = chat /\ chat \in Chat /\ chat \notin holed /\ Live
         /\ w # Run => w = chat /\ run = "none" /\ run' = run
         /\ \A v \in Writer : v # w => Idle(v)
         /\ op[w].at \in {"none", "release"} /\ (op[w].mode = "append" \/ w = Run)
         /\ UNCHANGED <<chat, holed, file, excused>>
         /\ log' = IF Written(w) THEN Append(log, op[w].id) ELSE log
<1>1. Types /\ Refers /\ RunControl /\ SubControl /\ Agent(w) \in Chat /\ Adds(w)
  BY DEF Inv, AddStep
<1>2. Agent(w) \notin holed /\ ~Meets(w)
  BY <1>1, AddsFacts
<1>3. /\ Agent(w) = chat /\ chat \in Chat /\ (w # Run => w = chat /\ run = "none" /\ run' = run)
      /\ \A v \in Writer : v # w => Idle(v)
  <2>1. CASE w = Run
    BY <1>1, <1>2, <2>1, WriterFacts DEF Meets, Agent
  <2>2. CASE w # Run
    <3>1. w = chat /\ run = "none" /\ Idle(Run) /\ run' = run
      BY <1>1, <1>2, <2>2 DEF Meets, RunControl, AddStep
    <3>2. \A v \in Writer : v # w => Idle(v)
      BY <3>1, WriterFacts DEF Same, OneWriter
    <3> QED
      BY <1>1, <2>2, <3>1, <3>2 DEF Agent
  <2> QED
    BY <2>1, <2>2
<1>4. /\ op[w].at \in {"none", "release"} /\ Live /\ UNCHANGED <<chat, holed, file, excused>>
      /\ log' = IF Written(w) THEN Append(log, op[w].id) ELSE log
  BY <1>3 DEF AddStep, LogGrows
<1>5. op[w].mode = "append" \/ w = Run
  BY <1>1, <1>3 DEF SubControl
<1> QED
  BY <1>2, <1>3, <1>4, <1>5

LEMMA AddSame ==
  ASSUME Inv, Same, NEW w \in Writer, AddStep(w), ~astray'
  PROVE  Same'
<1> DEFINE n == Len(entries) + 1
<1>1. Types /\ Refers /\ RunControl /\ SubControl /\ Agent(w) \in Chat /\ Adds(w)
  BY DEF Inv, AddStep
<1>2. /\ Agent(w) \notin holed /\ ~Meets(w)
      /\ mem'[Agent(w)].entries = Append(mem[Agent(w)].entries, n) /\ mem'[Agent(w)].leaf = n
      /\ mem'[Agent(w)].flushed = mem[Agent(w)].flushed
      /\ entries'[n].parent = mem[Agent(w)].leaf /\ n \in Nat
      /\ \A i \in 1..Len(entries) : entries'[i] = entries[i]
      /\ op'[w].at = "open" /\ op'[w].mode = "append" /\ op'[w].id = n
      /\ \A v \in Writer : v # w => op'[v] = op[v]
  BY <1>1, AddsFacts
<1>3. /\ Agent(w) = chat /\ chat \in Chat /\ (w # Run => w = chat /\ run = "none" /\ run' = run)
      /\ \A v \in Writer : v # w => Idle(v)
  BY AddAlone
<1>4. /\ op[w].at \in {"none", "release"} /\ Live /\ chat' = chat /\ holed' = holed /\ file' = file
      /\ log' = IF Written(w) THEN Append(log, op[w].id) ELSE log
  BY AddAlone
<1>5. op[w].mode = "append" \/ w = Run
  BY AddAlone
<1>6. /\ mem[chat].entries = log' /\ file.lines = log'
      /\ Chained(entries, log') /\ NoDup(log') /\ mem[chat].leaf = LastOf(log')
      /\ log' \in Seq(Nat) /\ Ids(log') \subseteq 1..Len(entries)
      /\ ~mem[chat].flushed => log' = <<>>
  BY <1>2, <1>3, <1>4, <1>5, AllAgree
<1>7. Len(entries) \in Nat
  BY <1>1 DEF Types
<1>8. Chained(entries', log')
  <2>1. /\ Chained(entries, log') /\ log' \in Seq(Nat) /\ Ids(log') \subseteq 1..Len(entries)
        /\ \A i \in 1..Len(entries) : entries'[i] = entries[i]
    BY <1>2, <1>6
  <2> QED
    BY <1>7, <2>1, ChainedKept
<1>9. Chained(entries', Append(log', n)) /\ LastOf(Append(log', n)) = n
  BY <1>2, <1>3, <1>6, <1>8, ChainedAppend, LastOfAppend
<1>10. \A v \in Writer : (v # w => Idle(v)') /\ ~Written(v)'
  BY <1>2, <1>3 DEF Idle, Written
<1>11. op'[Run].mode = "append" /\ op'[Run].at # "fill"
  <2>1. w # Run => op'[Run] = op[Run] /\ Idle(Run) /\ op[Run].mode = "append"
    BY <1>1, <1>2, <1>3, WriterFacts DEF RunControl, Types, OpRecord
  <2> QED
    BY <1>2, <2>1 DEF Idle
<1>12. OneWriter'
  BY <1>2, <1>3, <1>4, <1>10, WriterFacts DEF OneWriter
<1>13. FileAgrees'
  BY <1>4, <1>6, <1>8, <1>10, <1>11 DEF FileAgrees
<1>14. MemoryAgrees'
  <2>1. \A v \in Writer : ~Idle(v)' => v = w
    BY <1>10
  <2>2. ~Idle(w)'
    BY <1>2 DEF Idle
  <2>3. /\ mem'[chat].entries = Append(log', n) /\ mem'[chat].leaf = n
        /\ ~mem'[chat].flushed => log' = <<>>
    BY <1>2, <1>3, <1>6
  <2> QED
    BY <1>2, <1>4, <1>9, <1>11, <2>1, <2>2, <2>3 DEF MemoryAgrees
<1> QED
  BY <1>12, <1>13, <1>14 DEF Same

\* Steps under the lock that neither write nor release.
Early == {"open", "stamp", "inspect", "remove", "write"}
LEMMA WaitSame ==
  ASSUME Inv, Same, NEW w \in Writer, op[w].at \in Early, NEW at \in Early, GoOn(w, at),
         UNCHANGED <<entries, file, mem, pending, chat, run, sub, facts, astray, bounds>>
  PROVE  Same'
<1>1. UNCHANGED <<log, holed, damaged>>
  BY DEF facts
<1>2. /\ \A v \in Writer : /\ op'[v].mode = op[v].mode /\ op'[v].id = op[v].id
                           /\ op'[v].ids = op[v].ids /\ Idle(v)' = Idle(v)
                           /\ Written(v)' = Written(v)
                           /\ op'[v].at = "fill" <=> op[v].at = "fill"
                           /\ op'[v].at = "release" <=> op[v].at = "release"
  <2>1. /\ op'[w].at = at /\ op'[w].mode = op[w].mode /\ op'[w].id = op[w].id
        /\ op'[w].ids = op[w].ids /\ \A v \in Writer : v # w => op'[v] = op[v]
    BY GoOnFacts DEF Inv, OpAt, Early
  <2> QED
    BY <2>1 DEF Idle, Written, Early
<1>3. Live' = Live
  BY <1>2, WriterFacts DEF Live
<1>4. OneWriter'
  BY <1>1, <1>2, WriterFacts DEF Same, OneWriter
<1>5. FileAgrees'
  BY <1>1, <1>2, WriterFacts DEF Same, FileAgrees
<1>6. MemoryAgrees'
  BY <1>1, <1>2, <1>3, WriterFacts DEF Same, MemoryAgrees
<1> QED
  BY <1>4, <1>5, <1>6 DEF Same

LEMMA MoveSame ==
  ASSUME Inv, Same, UNCHANGED <<entries, file, mem, chat, op, log, holed>>,
         Live' => Live, run = "none" => run' = "none",
         run' = "none" \/ \A a \in Chat : Idle(a)
  PROVE  Same'
<1>1. \A v \in Writer : Idle(v)' = Idle(v) /\ Written(v)' = Written(v)
  BY DEF Idle, Written
<1>2. OneWriter'
  BY <1>1, WriterFacts DEF Same, OneWriter
<1>3. FileAgrees'
  BY <1>1 DEF Same, FileAgrees
<1>4. MemoryAgrees'
  BY <1>1 DEF Same, MemoryAgrees
<1> QED
  BY <1>2, <1>3, <1>4 DEF Same

LEMMA RunMovesSame ==
  ASSUME Inv, Same, LoopEnds \/ Spawn \/ (Finally /\ pending[chat] = {})
  PROVE  Same'
<1>1. RunControl /\ Types /\ chat \in Chat
  BY DEF Inv, LoopEnds, Spawn, Finally, RunControl
<1>2. CASE LoopEnds
  <2>1. \A a \in Chat : Idle(a)
    BY <1>2 DEF Same, OneWriter, LoopEnds
  <2> QED
    BY <1>1, <1>2, <2>1, MoveSame DEF LoopEnds, Live, facts
<1>3. CASE Spawn
  <2>1. \A a \in Chat : Idle(a)
    BY <1>3 DEF Same, OneWriter, Spawn
  <2> QED
    BY <1>1, <1>3, <2>1, MoveSame DEF Spawn, Live, facts
<1>4. CASE Finally /\ pending[chat] = {}
  <2>1. UNCHANGED <<entries, file, mem, chat, op, pending, sub, log, holed>> /\ run' = "none"
    BY <1>4 DEF Finally, facts
  <2> QED
    BY <1>1, <2>1, MoveSame DEF Live, Idle
<1> QED
  BY <1>2, <1>3, <1>4

LEMMA EndSame ==
  ASSUME Inv, Same, NEW w \in Writer, Release(w), op[w].next = "none"
  PROVE  Same'
<1>1. Types /\ RunControl /\ SubControl /\ ~Idle(w) /\ op[w].at = "release"
  BY DEF Inv, Release, Idle
<1>2. /\ op' = [op EXCEPT ![w] = NoOp] /\ UNCHANGED <<entries, file, mem, chat, run, holed>>
      /\ log' = IF Written(w) THEN Append(log, op[w].id) ELSE log
  BY DEF Release, Written
<1>3. /\ \A v \in Writer : v # w => Idle(v)
      /\ chat \in Chat /\ chat \notin holed /\ Live
      /\ w # Run => op[w].mode = "append"
  BY <1>1, OneAtATime DEF Same
<1>4. /\ mem[chat].entries = log' /\ file.lines = log'
      /\ Chained(entries, log') /\ NoDup(log') /\ mem[chat].leaf = LastOf(log')
      /\ ~mem[chat].flushed => log' = <<>>
  BY <1>1, <1>2, <1>3, AllAgree
<1>5. op'[w] = NoOp /\ \A v \in Writer : v # w => op'[v] = op[v]
  BY <1>1, <1>2 DEF Types
<1>6. \A v \in Writer : Idle(v)' /\ ~Written(v)'
  BY <1>3, <1>5 DEF Idle, Written, NoOp
<1>7. op'[Run].at = "none" /\ op'[Run].mode = "append"
  <2>1. w # Run => op[Run].mode = "append"
    BY <1>1, <1>3, WriterFacts DEF RunControl, Types, OpRecord
  <2> QED
    BY <1>5, <1>6, <2>1, WriterFacts DEF Idle, NoOp
<1>8. OneWriter'
  BY <1>6, WriterFacts DEF OneWriter
<1>9. FileAgrees'
  BY <1>2, <1>4, <1>6, <1>7 DEF FileAgrees
<1>10. MemoryAgrees'
  BY <1>2, <1>4, <1>6, <1>7 DEF MemoryAgrees
<1> QED
  BY <1>8, <1>9, <1>10 DEF Same

LEMMA ThrowSame ==
  ASSUME Inv, Same, FreshChats, NEW w \in Writer, Throw(w)
  PROVE  Same'
<1>1. Types /\ RunControl /\ SubControl /\ ~Idle(w) /\ op[w].at \in {"open", "write"}
  BY DEF Inv, Throw, Idle
<1>2. /\ op' = [op EXCEPT ![w] = NoOp] /\ UNCHANGED <<entries, file, mem, pending, chat, log>>
      /\ run' = (IF w = Run THEN "finally" ELSE run)
      /\ sub' = (IF w = Run THEN sub ELSE [sub EXCEPT ![w] = "none"])
      /\ holed' = IF op[w].mode = "append" THEN holed \union {Agent(w)} ELSE holed
  BY DEF Throw
<1>3. /\ \A v \in Writer : v # w => Idle(v)
      /\ chat \in Chat /\ Agent(w) = chat
      /\ w # Run => op[w].mode = "append"
  BY <1>1, OneAtATime DEF Same
<1>4. op'[w] = NoOp /\ \A v \in Writer : v # w => op'[v] = op[v]
  BY <1>1, <1>2 DEF Types
<1>5. \A v \in Writer : Idle(v)' /\ ~Written(v)' /\ ~Written(v)
  BY <1>1, <1>3, <1>4 DEF Idle, Written, NoOp
<1>6. /\ op'[Run].at = "none" /\ op'[Run].mode = "append" /\ op[Run].at # "fill"
  <2>1. w # Run => op[Run].mode = "append" /\ op[Run].at = "none"
    BY <1>1, <1>3, WriterFacts DEF RunControl, Types, OpRecord, Idle
  <2> QED
    BY <1>1, <1>4, <2>1, WriterFacts DEF NoOp
<1>7. OneWriter'
  BY <1>5, WriterFacts DEF OneWriter
<1>8. FileAgrees'
  BY <1>2, <1>5, <1>6 DEF Same, FileAgrees
<1>9. MemoryAgrees'
  <2>1. CASE op[w].mode = "append"
    BY <1>2, <1>3, <2>1 DEF MemoryAgrees
  <2>2. CASE op[w].mode # "append"
    <3>1. w = Run /\ op[Run].mode = "rewrite"
      BY <1>1, <1>3, <2>2 DEF Types, OpRecord
    <3>2. sub[chat] = "none" /\ pending[chat] = {}
      BY <1>1, <3>1 DEF RunControl, FreshChats, Fresh
    <3>3. ~Live'
      BY <1>2, <1>5, <3>1, <3>2 DEF Live
    <3> QED
      BY <3>3 DEF MemoryAgrees
  <2> QED
    BY <2>1, <2>2
<1> QED
  BY <1>7, <1>8, <1>9 DEF Same

LEMMA StartFillSame ==
  ASSUME Inv, Same, NEW w \in Writer, op[w].at = "write",
         op[w].mode = "rewrite" \/ ~mem[Agent(w)].flushed,
         op' = [op EXCEPT ![w].at = "fill", ![w].ids = Content(w)],
         UNCHANGED <<entries, lock, mem, pending, chat, run, sub, facts, astray, bounds>>
  PROVE  Same'
<1>1. Types /\ RunControl /\ SubControl /\ ~Idle(w) /\ UNCHANGED <<log, holed, damaged>>
  BY DEF Inv, Idle, facts
<1>2. /\ \A v \in Writer : v # w => Idle(v)
      /\ chat \in Chat /\ Agent(w) = chat /\ chat \notin holed /\ Live
      /\ w # Run => w = chat /\ op[w].mode = "append"
  BY <1>1, OneAtATime DEF Same
<1>3. w = Run
  BY <1>1, <1>2, WriterFacts DEF SubControl
<1>4. /\ op'[Run].at = "fill" /\ op'[Run].mode = op[Run].mode /\ op'[Run].id = op[Run].id
      /\ op'[Run].ids = Content(Run)
      /\ \A v \in Writer : v # Run => op'[v] = op[v]
  BY <1>1, <1>3 DEF Types, OpRecord
<1>5. /\ \A v \in Writer : Idle(v)' = Idle(v) /\ ~Written(v)' /\ (v # Run => Idle(v))
      /\ ~Idle(Run)
  BY <1>1, <1>2, <1>3, <1>4 DEF Idle, Written
<1>6. op[Run].at = "write" /\ FileAgrees /\ MemoryAgrees
  BY <1>3 DEF Same
<1>7. OneWriter'
  BY <1>1, <1>5, WriterFacts DEF Same, OneWriter
<1>8. /\ op[Run].mode = "append" =>
           /\ mem[chat].entries = Append(log, op[Run].id) /\ Content(Run) = mem[chat].entries
           /\ log = <<>>
      /\ op[Run].mode = "rewrite" => Content(Run) = op[Run].ids
  BY <1>2, <1>3, <1>5, <1>6, WriterFacts DEF MemoryAgrees, Content
<1>9. FileAgrees'
  BY <1>1, <1>4, <1>6, <1>8 DEF FileAgrees
<1>10. MemoryAgrees'
  BY <1>1, <1>2, <1>4, <1>5, <1>6, <1>8 DEF MemoryAgrees
<1> QED
  BY <1>7, <1>9, <1>10 DEF Same

LEMMA AddedSame ==
  ASSUME Inv, Same, ~damaged, NEW w \in Writer, op[w].at = "write", op[w].mode = "append",
         file' = AddLine(file, op[w].id), GoOn(w, "release"),
         UNCHANGED <<entries, lock, mem, pending, chat, run, sub, facts, astray, bounds>>
  PROVE  Same'
<1>1. /\ Types /\ RunControl /\ SubControl /\ ~Idle(w) /\ UNCHANGED <<log, holed, damaged>>
      /\ ~file.cut
  BY DEF Inv, Idle, facts, OnFile
<1>2. /\ \A v \in Writer : v # w => Idle(v)
      /\ chat \in Chat /\ Agent(w) = chat /\ chat \notin holed /\ Live
  BY <1>1, OneAtATime DEF Same
<1>3. /\ op'[w].at = "release" /\ op'[w].mode = "append" /\ op'[w].id = op[w].id
      /\ op'[w].ids = op[w].ids /\ \A v \in Writer : v # w => op'[v] = op[v]
  BY <1>1, GoOnFacts DEF OpAt
<1>4. /\ \A v \in Writer : Idle(v)' = Idle(v) /\ ~Written(v) /\ (Written(v)' <=> v = w)
      /\ op[Run].at # "fill" /\ op'[Run].at # "fill"
      /\ op[Run].mode = "append" /\ op'[Run].mode = "append"
  <2>1. w # Run => op[Run].at = "none" /\ op[Run].mode = "append" /\ op'[Run] = op[Run]
    BY <1>1, <1>2, <1>3, WriterFacts DEF RunControl, Types, OpRecord, Idle
  <2> QED
    BY <1>2, <1>3, <2>1 DEF Idle, Written
<1>5. file'.lines = Append(log, op[w].id)
  <2>1. file.lines = log
    BY <1>4 DEF Same, FileAgrees
  <2>2. file'.lines = Append(file.lines, op[w].id)
    BY <1>1 DEF AddLine, Types, FileRecord
  <2> QED
    BY <2>1, <2>2
<1>6. OneWriter'
  BY <1>1, <1>4, WriterFacts DEF Same, OneWriter
<1>7. FileAgrees'
  BY <1>1, <1>3, <1>4, <1>5 DEF Same, FileAgrees
<1>8. MemoryAgrees'
  <2>1. \A v \in Writer : op'[v].mode = op[v].mode /\ op'[v].id = op[v].id
    BY <1>3
  <2> QED
    BY <1>1, <1>2, <1>4, <2>1 DEF Same, MemoryAgrees
<1> QED
  BY <1>6, <1>7, <1>8 DEF Same

LEMMA FillSame ==
  ASSUME Inv, Same, NEW w \in Writer, Fill(w)
  PROVE  Same'
<1> DEFINE ids == op[Run].ids
<1>1. /\ Types /\ SubControl /\ ~Idle(w) /\ op[w].at = "fill"
      /\ UNCHANGED <<holed, damaged, entries, pending, chat, run, sub>>
  BY DEF Inv, Fill, Idle
<1>2. w = Run
  BY <1>1, WriterFacts DEF SubControl
<1>3. /\ \A v \in Writer : v # Run => Idle(v)
      /\ chat \in Chat /\ Agent(Run) = chat /\ chat \notin holed /\ Live
  BY <1>1, <1>2, OneAtATime DEF Same
<1>4. /\ file' = Whole(ids) /\ mem' = [mem EXCEPT ![chat].flushed = TRUE]
      /\ log' = LogOf(Run) /\ GoOn(Run, "release") /\ op[Run].at = "fill"
  BY <1>1, <1>2, <1>3 DEF Fill
<1>5. /\ op'[Run].at = "release" /\ op'[Run].mode = op[Run].mode /\ op'[Run].id = op[Run].id
      /\ op'[Run].ids = ids /\ \A v \in Writer : v # Run => op'[v] = op[v]
  BY <1>1, <1>4, GoOnFacts, WriterFacts DEF OpAt
<1>6. FileAgrees /\ MemoryAgrees /\ Chained(entries, log) /\ NoDup(log) /\ log \in Seq(Nat)
  BY <1>1 DEF Same, FileAgrees, Types
<1>7. /\ op[Run].mode = "append" => log' = log /\ log = <<>> /\ ids = Append(log', op[Run].id)
      /\ op[Run].mode = "rewrite" => log' = ids
      /\ Chained(entries, log') /\ NoDup(log')
  <2>1. CASE op[Run].mode = "append"
    BY <1>4, <1>6, <2>1 DEF FileAgrees, LogOf
  <2>2. CASE op[Run].mode = "rewrite"
    <3>1. PICK k \in 0..Len(log) : ids = SubSeq(log, 1, k)
      BY <1>4, <1>6, <2>2 DEF FileAgrees
    <3> DEFINE gone == Ids(log) \ Ids(ids)
    <3>2. Len(ids) = k /\ DOMAIN ids = 1..k /\ \A i \in 1..k : ids[i] = log[i]
      BY <1>6, <3>1, SubSeqFacts
    <3>3. \A i \in 1..k : log[i] \notin gone
      BY <3>2 DEF Ids
    <3>4. ASSUME NEW i \in k + 1..Len(log) PROVE log[i] \in gone
      <4>1. i \in DOMAIN log /\ \A j \in 1..k : j \in DOMAIN log /\ j # i
        BY <1>6
      <4>2. \A j \in 1..k : ids[j] # log[i]
        BY <1>6, <3>2, <4>1 DEF NoDup, NoDupBut
      <4> QED
        BY <3>2, <4>1, <4>2 DEF Ids
    <3>5. log' = Without(log, gone)
      BY <1>4, <2>2 DEF LogOf
    <3> HIDE DEF gone
    <3>6. log' = ids
      BY <1>6, <3>1, <3>3, <3>4, <3>5, WithoutPrefix
    <3>7. Chained(entries, ids)
      BY <1>6, <3>1, ChainedPrefix
    <3>8. NoDup(ids)
      BY <1>6, <3>2, <3>1 DEF NoDup, NoDupBut
    <3> QED
      BY <2>2, <3>6, <3>7, <3>8
  <2> QED
    BY <1>1, <2>1, <2>2, WriterFacts DEF Types, OpRecord
<1>8. /\ \A v \in Writer : Idle(v)' = Idle(v) /\ (v # Run => Idle(v)) /\ op'[v].mode = op[v].mode
      /\ \A v \in Writer : Written(v)' <=> v = Run /\ op[Run].mode = "append"
      /\ ~Idle(Run)
  BY <1>1, <1>2, <1>3, <1>5 DEF Idle, Written
<1>9. file'.lines = ids
  BY <1>4 DEF Whole
<1>10. OneWriter'
  BY <1>1, <1>8, WriterFacts DEF Same, OneWriter
<1>11. FileAgrees'
  <2>1. op[Run].mode \in {"append", "rewrite"}
    BY <1>1, WriterFacts DEF Types, OpRecord
  <2>2. (\A v \in Writer : ~Written(v)') => file'.lines = log'
    BY <1>7, <1>8, <1>9, <2>1, WriterFacts
  <2>3. \A v \in Writer : Written(v)' => file'.lines = Append(log', op'[v].id)
    BY <1>5, <1>7, <1>8, <1>9
  <2>4. op'[Run].mode = "rewrite" => op'[Run].ids = log'
    BY <1>5, <1>7
  <2> HIDE DEF ids
  <2> QED
    BY <1>1, <1>5, <1>7, <2>2, <2>3, <2>4 DEF FileAgrees
<1>12. /\ mem'[chat].entries = mem[chat].entries /\ mem'[chat].leaf = mem[chat].leaf
       /\ mem'[chat].flushed
  <2>1. mem[chat] \in StateRecord /\ mem \in [Chat -> StateRecord]
    BY <1>1, <1>3 DEF Types
  <2> DEFINE x == [mem[chat] EXCEPT !.flushed = TRUE]
  <2>2. x.flushed /\ x.entries = mem[chat].entries /\ x.leaf = mem[chat].leaf
    BY <2>1 DEF StateRecord
  <2>3. mem' = [mem EXCEPT ![chat] = x]
    BY <1>4
  <2> HIDE DEF x
  <2> QED
    BY <1>3, <2>1, <2>2, <2>3
<1>13. MemoryAgrees'
  <2>1. op[Run].mode = "append" => mem'[chat].entries = Append(log', op[Run].id)
    BY <1>3, <1>6, <1>7, <1>8, <1>12, WriterFacts DEF MemoryAgrees
  <2>2. op[Run].mode = "rewrite" => mem'[chat].entries = op'[Run].ids
    BY <1>3, <1>5, <1>6, <1>12 DEF MemoryAgrees
  <2>3. Chained(entries, mem'[chat].entries) /\ mem'[chat].leaf = LastOf(mem'[chat].entries)
    BY <1>3, <1>6, <1>12 DEF MemoryAgrees
  <2> QED
    BY <1>1, <1>5, <1>8, <1>12, <2>1, <2>2, <2>3, WriterFacts DEF MemoryAgrees
<1> QED
  BY <1>10, <1>11, <1>13 DEF Same

\* Of a file with at most one line a crash leaves no line that is whole.
LEMMA PartOfOne ==
  ASSUME NEW ids \in Seq(Nat), Len(ids) <= 1, NEW f \in PartOf(ids), ~f.cut
  PROVE  f.lines = <<>>
<1>1. CASE f = NoFile
  BY <1>1 DEF NoFile
<1>2. CASE \E k \in 0..Len(ids) - 1 : f = Whole(SubSeq(ids, 1, k))
  <2>1. f = Whole(SubSeq(ids, 1, 0))
    BY <1>2
  <2> QED
    BY <2>1, SubSeqFacts DEF Whole
<1>3. CASE \E k \in 1..Len(ids) : f \in CutLine(Whole(SubSeq(ids, 1, k - 1)), ids[k])
  <2>1. PICK k \in 1..Len(ids) : f \in CutLine(Whole(SubSeq(ids, 1, k - 1)), ids[k])
    BY <1>3
  <2>2. k = 1 /\ SubSeq(ids, 1, k - 1) = <<>>
    BY <2>1, SubSeqFacts
  <2>3. f.cut
    BY <2>1, <2>2 DEF CutLine, AddLine, Whole
  <2> QED
    BY <2>3
<1> QED
  BY <1>1, <1>2, <1>3 DEF PartOf

LEMMA CrashSame ==
  ASSUME Inv, Same, ~damaged, Crash, ~damaged'
  PROVE  Same'
<1>1. /\ Types /\ Distinct /\ FileAgrees
      /\ run' = "none" /\ chat' = chat /\ entries' = entries /\ holed' = holed
      /\ op' = [w \in Writer |-> NoOp] /\ pending' = [a \in Chat |-> {}]
      /\ sub' = [a \in Chat |-> "none"]
  BY DEF Inv, Same, Crash
<1>2. /\ \A w \in Writer : Idle(w)' /\ ~Written(w)'
      /\ op'[Run].at = "none" /\ op'[Run].mode = "append"
  BY <1>1, WriterFacts DEF Idle, Written, NoOp
<1>3. file'.lines = log' /\ Chained(entries, log') /\ NoDup(log')
  <2>1. CASE /\ \A w \in Writer : op[w].at # "fill"
             /\ (\A w \in Writer : ~Written(w)) /\ log' = log /\ file' = file
    BY <1>1, <2>1, WriterFacts DEF FileAgrees
  <2>2. CASE /\ \A w \in Writer : op[w].at # "fill"
             /\ \E w \in Writer : Written(w) /\ log' = Append(log, op[w].id)
             /\ file' = file
    <3>1. PICK w \in Writer : Written(w) /\ log' = Append(log, op[w].id)
      BY <2>2
    <3>2. ~Idle(w) /\ op[w].mode = "append"
      BY <3>1 DEF Idle, Written
    <3>3. chat \in Chat /\ chat \notin holed /\ Live
      BY <3>2, OneAtATime DEF Same
    <3>4. mem[chat].entries = log' /\ Chained(entries, log')
      BY <3>1, <3>2, <3>3 DEF Same, MemoryAgrees
    <3>5. NoDup(log')
      BY <1>1, <3>3, <3>4 DEF Distinct
    <3>6. file'.lines = log'
      BY <1>1, <2>2, <3>1, WriterFacts DEF FileAgrees
    <3> QED
      BY <3>4, <3>5, <3>6
  <2>3. CASE \E w \in Writer :
               /\ op[w].at = "fill" /\ file' \in PartOf(op[w].ids) /\ log' = log
               /\ damaged' = (damaged \/ log # <<>> \/ file'.cut)
    <3>1. PICK w \in Writer :
               /\ op[w].at = "fill" /\ file' \in PartOf(op[w].ids) /\ log' = log
               /\ damaged' = (damaged \/ log # <<>> \/ file'.cut)
      BY <2>3
    <3>2. w = Run
      BY <3>1, WriterFacts DEF Inv, SubControl
    <3>3. log = <<>> /\ ~file'.cut
      BY <3>1
    <3>4. op[Run].ids \in Seq(Nat) /\ Len(op[Run].ids) <= 1
      <4>1. op[Run].ids \in Seq(Nat) /\ op[Run].mode \in {"append", "rewrite"}
        BY <1>1, WriterFacts DEF Types, OpRecord
      <4>2. op[Run].mode = "append" => op[Run].ids = Append(<<>>, op[Run].id)
        BY <1>1, <3>1, <3>2, <3>3 DEF FileAgrees
      <4>3. op[Run].mode = "rewrite" => \E k \in 0..Len(log) : op[Run].ids = SubSeq(log, 1, k)
        BY <1>1, <3>1, <3>2 DEF FileAgrees
      <4>4. op[Run].mode = "rewrite" => op[Run].ids = <<>>
        BY <3>3, <4>3
      <4>5. ASSUME NEW x \in Nat, op[Run].ids = Append(<<>>, x) PROVE Len(op[Run].ids) <= 1
        <5>1. Append(<<>>, x) = <<x>> /\ Len(<<x>>) = 1
          OBVIOUS
        <5> QED
          BY <4>5, <5>1
      <4>6. op[Run].id \in Nat
        BY <1>1, WriterFacts DEF Types, OpRecord
      <4>7. CASE op[Run].mode = "append"
        BY <4>1, <4>2, <4>5, <4>6, <4>7
      <4>8. CASE op[Run].mode = "rewrite"
        BY <4>1, <4>4, <4>8
      <4> QED
        BY <4>1, <4>7, <4>8
    <3>5. file'.lines = <<>>
      BY <3>1, <3>2, <3>3, <3>4, PartOfOne
    <3> QED
      BY <1>1, <3>1, <3>3, <3>5 DEF FileAgrees
  <2> QED
    BY <2>1, <2>2, <2>3 DEF Crash
<1>4. OneWriter'
  BY <1>2, WriterFacts DEF OneWriter
<1>5. FileAgrees'
  BY <1>1, <1>2, <1>3 DEF FileAgrees
<1>6. ~Live'
  BY <1>1, <1>2, WriterFacts DEF Live
<1>7. MemoryAgrees'
  BY <1>6 DEF MemoryAgrees
<1> QED
  BY <1>4, <1>5, <1>7 DEF Same

\* A file whose lines are whole is loaded line by line.
LEMMA LoadedIsLines ==
  ASSUME Inv, ~damaged, op[Run].at # "fill", Ids(file.lines) \subseteq 1..Len(entries)
  PROVE  /\ Loaded(file).entries = file.lines /\ Loaded(file).leaf = LastOf(file.lines)
         /\ ~Loaded(file).flushed => file.lines = <<>>
<1> DEFINE L == Len(file.lines)
<1>1. file.lines \in Seq(Nat) /\ (~file.header => file.lines = <<>>)
  BY DEF Inv, Types, FileRecord, OnFile
<1>2. \A i \in 1..L : file.lines[i] \notin {Damaged}
  <2>1. \A i \in 1..L : file.lines[i] \in 1..Len(entries)
    BY <1>1 DEF Ids
  <2> HIDE DEF L
  <2> QED
    BY <2>1 DEF Damaged
<1>3. L \in 0..L /\ \A i \in L + 1..L : file.lines[i] \in {Damaged}
  BY <1>1
<1>4. Without(file.lines, {Damaged}) = file.lines
  <2>1. Without(file.lines, {Damaged}) = SubSeq(file.lines, 1, L)
    <3> HIDE DEF L
    <3> QED
      BY <1>1, <1>2, <1>3, WithoutPrefix DEF L
  <2> QED
    BY <1>1, <2>1, SubSeqFacts
<1> QED
  BY <1>1, <1>4 DEF Loaded, NewState, LastOf

LEMMA StartSame ==
  ASSUME Inv, Same, ~damaged, StartChat, ~astray'
  PROVE  Same'
<1> DEFINE new == chat + 1
<1>1. /\ Types /\ RunControl /\ SubControl /\ FileAgrees
      /\ run' = "begin" /\ chat' = new /\ new \in Chat
      /\ mem' = [mem EXCEPT ![new] = Loaded(file)]
      /\ UNCHANGED <<entries, file, pending, op, sub, log, holed>>
  <2>1. chat \in 0..MaxChats /\ chat < MaxChats /\ MaxChats \in Nat
    BY StoreAssumption DEF Inv, Types, StartChat
  <2>2. new \in Chat
    BY <2>1 DEF Chat
  <2> QED
    BY <2>2 DEF Inv, Same, StartChat, facts
<1>2. /\ \A w \in Writer : Idle(w) /\ ~Written(w) /\ Idle(w)' /\ ~Written(w)'
      /\ op[Run].at = "none" /\ op[Run].mode = "append"
  <2>1. \A w \in Writer : Idle(w)
    BY WriterFacts DEF StartChat
  <2> QED
    BY <1>1, <2>1, WriterFacts DEF Idle, Written, RunControl, Types, OpRecord
<1>3. file.lines = log /\ Chained(entries, log) /\ Ids(file.lines) \subseteq 1..Len(entries)
  BY <1>1, <1>2 DEF FileAgrees, Inv, Refers
<1>4. /\ mem'[new].entries = log /\ mem'[new].leaf = LastOf(log)
      /\ ~mem'[new].flushed => log = <<>>
  <2>1. mem'[new] = Loaded(file)
    BY <1>1 DEF Types
  <2> QED
    BY <1>2, <1>3, <2>1, LoadedIsLines
<1>5. OneWriter'
  BY <1>2, WriterFacts DEF OneWriter
<1>6. FileAgrees'
  BY <1>1, <1>2 DEF FileAgrees
<1>7. MemoryAgrees'
  BY <1>1, <1>2, <1>3, <1>4 DEF MemoryAgrees
<1> QED
  BY <1>5, <1>6, <1>7 DEF Same

\* A retry keeps a prefix of what was acknowledged.
LEMMA RegenerateKeeps ==
  ASSUME Inv, Same, FreshChats, Regenerate
  PROVE  /\ \A w \in Writer : Idle(w) /\ ~Written(w)
         /\ mem[chat].entries = log /\ (~mem[chat].flushed => log = <<>>)
         /\ log \in Seq(Nat) /\ Ids(log) \subseteq 1..Len(entries) /\ Chained(entries, log)
         /\ \E k \in 0..Len(log) :
              LET kept == SubSeq(log, 1, k) IN
              /\ CutsWell(log, k)
              /\ kept \in Seq(Nat) /\ (k = Len(log) => kept = log)
              /\ mem'[chat].entries = kept /\ mem'[chat].leaf = LastOf(kept)
              /\ mem'[chat].flushed = mem[chat].flushed
              /\ op' = IF k = Len(log) THEN op
                       ELSE [op EXCEPT ![Run] = Opened("rewrite", Null, kept, "none")]
<1> DEFINE path == Path(entries, mem[chat])
<1>1. /\ Types /\ Refers /\ Distinct /\ RunControl /\ SubControl /\ FileAgrees /\ MemoryAgrees
      /\ run = "begin" /\ chat \in Chat /\ Live /\ chat \notin holed
      /\ UNCHANGED <<entries, file, chat, log, holed>>
  BY DEF Inv, Same, Regenerate, RunControl, Live, FreshChats, Fresh, facts
<1>2. \A w \in Writer : Idle(w) /\ ~Written(w)
  <2>1. \A w \in Writer : Idle(w)
    BY <1>1, WriterFacts DEF Regenerate, Same, OneWriter
  <2> QED
    BY <2>1 DEF Idle, Written
<1>3. /\ mem[chat].entries = log /\ Chained(entries, log) /\ mem[chat].leaf = LastOf(log)
      /\ ~mem[chat].flushed => log = <<>>
      /\ log \in Seq(Nat) /\ Ids(log) \subseteq 1..Len(entries) /\ NoDup(log)
      /\ mem[chat] \in StateRecord
  BY <1>1, <1>2 DEF MemoryAgrees, FileAgrees, Types, Refers
<1>4. path = log
  BY <1>1, <1>3, PathOfChain
<1> HIDE DEF path
<1>5. PICK k \in 0..Len(log) : CutsAt(log, k)
  BY <1>3, <1>4, CutsSomewhere DEF path
<1> DEFINE gone == {log[i] : i \in (k + 1)..Len(log)}
           leaf == IF k = 0 THEN Null ELSE log[k]
           kept == SubSeq(log, 1, k)
<1>6. PICK rest :
        /\ rest = DropFrom(mem[chat], gone, leaf) /\ mem' = [mem EXCEPT ![chat] = rest]
        /\ op' = IF k = Len(log) THEN op
                 ELSE [op EXCEPT ![Run] = Opened("rewrite", Null, rest.entries, "none")]
  BY <1>5 DEF CutsAt
<1>7. /\ kept \in Seq(Nat) /\ Len(kept) = k /\ (\A i \in 1..k : kept[i] = log[i])
      /\ k = Len(log) => kept = log
  <2>1. log \in Seq(Nat) /\ k \in 0..Len(log)
    BY <1>3
  <2> QED
    BY ONLY <2>1, SubSeqFacts
<1>8. Without(log, gone) = kept
  <2>1. ASSUME NEW i \in 1..k, log[i] \in gone PROVE FALSE
    <3>1. PICK j \in k + 1..Len(log) : log[i] = log[j]
      BY <2>1
    <3>2. i \in DOMAIN log /\ j \in DOMAIN log /\ i # j
      BY <1>3, <1>5
    <3> QED
      BY <1>3, <3>1, <3>2 DEF NoDup, NoDupBut
  <2>2. \A i \in k + 1..Len(log) : log[i] \in gone
    OBVIOUS
  <2> HIDE DEF gone
  <2> QED
    BY <1>3, <1>5, <2>1, <2>2, WithoutPrefix
<1>9. leaf = LastOf(kept)
  <2>1. kept = <<>> <=> k = 0
    BY <1>7
  <2>2. k # 0 => kept[k] = log[k]
    BY <1>7
  <2> HIDE DEF kept
  <2> QED
    BY <1>7, <2>1, <2>2 DEF LastOf
<1>10. rest.entries = kept /\ rest.leaf = LastOf(kept) /\ rest.flushed = mem[chat].flushed
  <2> HIDE DEF gone, leaf, kept
  <2> QED
    BY <1>3, <1>6, <1>8, <1>9 DEF DropFrom, StateRecord
<1>11. mem'[chat] = rest
  BY <1>1, <1>6 DEF Types
<1>12. CutsWell(log, k)
  BY <1>5 DEF CutsAt
<1> HIDE DEF gone, leaf
<1> QED
  BY <1>2, <1>3, <1>6, <1>7, <1>10, <1>11, <1>12

LEMMA RegenerateSame ==
  ASSUME Inv, Same, FreshChats, Regenerate
  PROVE  Same'
<1>1. /\ Types /\ Refers /\ Distinct /\ RunControl /\ SubControl /\ FileAgrees /\ MemoryAgrees
      /\ run = "begin" /\ chat \in Chat /\ Live /\ chat \notin holed
      /\ UNCHANGED <<entries, file, chat, log, holed>>
  BY DEF Inv, Same, Regenerate, RunControl, Live, FreshChats, Fresh, facts
<1>2. \A w \in Writer : Idle(w) /\ ~Written(w)
  BY RegenerateKeeps
<1>3. /\ mem[chat].entries = log /\ (~mem[chat].flushed => log = <<>>)
      /\ log \in Seq(Nat) /\ Ids(log) \subseteq 1..Len(entries) /\ Chained(entries, log)
  BY RegenerateKeeps
<1>4. PICK k \in 0..Len(log) :
        LET kept == SubSeq(log, 1, k) IN
        /\ kept \in Seq(Nat) /\ (k = Len(log) => kept = log)
        /\ mem'[chat].entries = kept /\ mem'[chat].leaf = LastOf(kept)
        /\ mem'[chat].flushed = mem[chat].flushed
        /\ op' = IF k = Len(log) THEN op
                 ELSE [op EXCEPT ![Run] = Opened("rewrite", Null, kept, "none")]
  BY RegenerateKeeps
<1> DEFINE kept == SubSeq(log, 1, k)
<1>5. Chained(entries, kept)
  BY <1>3, ChainedPrefix
<1> HIDE DEF kept
<1>6. /\ mem'[chat].entries = kept /\ mem'[chat].leaf = LastOf(kept)
      /\ mem'[chat].flushed = mem[chat].flushed
      /\ op' = IF k = Len(log) THEN op
               ELSE [op EXCEPT ![Run] = Opened("rewrite", Null, kept, "none")]
      /\ k = Len(log) => kept = log
  BY <1>4 DEF kept
<1>7. CASE k = Len(log)
  <2>1. op' = op /\ kept = log
    BY <1>6, <1>7
  <2>2. \A w \in Writer : Idle(w)' /\ ~Written(w)'
    BY <1>2, <2>1 DEF Idle, Written
  <2>3. op[Run].mode = "append" /\ op[Run].at = "none"
    BY <1>1, <1>2, WriterFacts DEF RunControl, Types, OpRecord, Idle
  <2>4. OneWriter'
    BY <2>2, WriterFacts DEF OneWriter
  <2>5. FileAgrees'
    BY <1>1, <1>2, <2>1, <2>2, <2>3 DEF FileAgrees
  <2>6. MemoryAgrees'
    BY <1>1, <1>3, <1>6, <1>5, <2>1, <2>2, <2>3 DEF MemoryAgrees
  <2> QED
    BY <2>4, <2>5, <2>6 DEF Same
<1>8. CASE k # Len(log)
  <2>1. op' = [op EXCEPT ![Run] = Opened("rewrite", Null, kept, "none")]
    BY <1>6, <1>8
  <2>2. /\ op'[Run].at = "open" /\ op'[Run].mode = "rewrite" /\ op'[Run].ids = kept
        /\ \A w \in Writer : w # Run => op'[w] = op[w]
    BY <1>1, <1>6, <2>1, WriterFacts DEF Types, Opened
  <2>3. \A w \in Writer : ~Written(w)' /\ (w # Run => Idle(w)') /\ (~Idle(w)' => op'[w].mode = "rewrite")
    BY <1>2, <2>2 DEF Idle, Written
  <2>4. ~Idle(Run)'
    BY <2>2 DEF Idle
  <2>5. OneWriter'
    BY <1>1, <2>3, WriterFacts DEF OneWriter
  <2>6. FileAgrees'
    <3>1. file.lines = log
      BY <1>1, <1>2, WriterFacts DEF FileAgrees, Idle
    <3>2. \E i \in 0..Len(log) : kept = SubSeq(log, 1, i)
      BY DEF kept
    <3> QED
      BY <1>1, <1>3, <2>2, <2>3, <3>1, <3>2 DEF FileAgrees
  <2>7. MemoryAgrees'
    BY <1>1, <1>3, <1>6, <1>5, <2>2, <2>3, <2>4, WriterFacts DEF MemoryAgrees
  <2> QED
    BY <2>5, <2>6, <2>7 DEF Same
<1> QED
  BY <1>7, <1>8

LEMMA InitHistory == ASSUME Init PROVE HistoryInv
<1>1. /\ log = <<>> /\ file.lines = <<>> /\ holed = {} /\ chat = 0 /\ run = "none"
      /\ \A a \in Chat : pending[a] = {}
      /\ \A w \in Writer : op[w] = NoOp
  BY DEF Init, NoFile
<1>2. \A w \in Writer : Idle(w) /\ ~Written(w) /\ op[w].mode = "append" /\ op[w].at = "none"
  BY <1>1 DEF Idle, Written, NoOp
<1>3. ~Live /\ FreshChats
  BY <1>1, <1>2, WriterFacts DEF Live, Chat, FreshChats, Fresh
<1>4. Chained(entries, log) /\ NoDup(log)
  BY <1>1, EmptyChain, EmptySeq
<1>5. Same
  BY <1>1, <1>2, <1>3, <1>4, WriterFacts DEF Same, OneWriter, FileAgrees, MemoryAgrees
<1> QED
  BY <1>3, <1>5 DEF HistoryInv

\* A new chat is fresh, and so is one that takes a message back.
LEMMA FreshKept ==
  ASSUME Inv, FreshChats, holed' = holed, chat' = chat,
         \A a \in Chat : pending'[a] \subseteq pending[a],
         run' = "begin" \/ op'[Run].mode = "rewrite" => run = "begin" \/ op[Run].mode = "rewrite"
  PROVE  FreshChats'
<1>1. run' = "begin" \/ op'[Run].mode = "rewrite" => chat \in Chat
  BY WriterFacts DEF Inv, RunControl
<1> QED
  BY <1>1 DEF FreshChats, Fresh

\* An append that ends, or fails, is not of a fresh chat.
LEMMA FreshEnd ==
  ASSUME Inv, FreshChats, NEW w \in Writer, op[w].at # "none", chat' = chat,
         holed' \subseteq holed \union {Agent(w)},
         \A a \in Chat : a # Agent(w) => pending'[a] \subseteq pending[a],
         run' # "begin" \/ run' = run, op' = [op EXCEPT ![w] = NoOp]
  PROVE  FreshChats'
<1>1. Types /\ RunControl /\ SubControl /\ ~Idle(w) /\ \A v \in Writer : v = Run \/ v \in Chat
  BY WriterFacts DEF Inv, Idle
<1>2. op'[w].mode = "append" /\ \A v \in Writer : v # w => op'[v] = op[v]
  BY <1>1 DEF Types, NoOp
<1>3. \A a \in Chat : a > chat => a # Agent(w)
  <2>1. w # Run => sub[w] = "reports" /\ w <= chat /\ Agent(w) = w
    BY <1>1 DEF SubControl, Agent
  <2>2. w = Run => Agent(w) = chat
    BY DEF Agent
  <2>3. chat \in Nat /\ Chat \subseteq Nat
    BY <1>1, WriterFacts DEF Types, Chat
  <2>4. \A a \in Chat : a > chat => a # chat /\ ~(a <= chat)
    BY <2>3
  <2> QED
    BY <2>1, <2>2, <2>4
<1>4. ASSUME run' = "begin" \/ op'[Run].mode = "rewrite"
      PROVE  chat \in Chat /\ chat # Agent(w) /\ Fresh(chat)
  <2>1. w # Run
    BY <1>1, <1>2, <1>4 DEF RunControl
  <2>2. run = "begin" \/ op[Run].mode = "rewrite"
    BY <1>2, <1>4, <2>1, WriterFacts
  <2>3. sub[chat] = "none" /\ chat \in Chat
    BY <1>1, <2>2 DEF RunControl
  <2>4. sub[w] = "reports"
    BY <1>1, <2>1 DEF SubControl
  <2> QED
    BY <2>1, <2>2, <2>3, <2>4 DEF Agent, FreshChats
<1> QED
  BY <1>3, <1>4 DEF FreshChats, Fresh

LEMMA FreshNext == ASSUME Inv, FreshChats, [Next]_vars PROVE FreshChats'
<1>1. Types /\ RunControl /\ \A w \in Writer : w = Run \/ w \in Chat
  BY WriterFacts DEF Inv
<1>2. CASE \E w \in Writer : AddStep(w)
  <2>1. PICK w \in Writer : AddStep(w)
    BY <1>2
  <2>2. /\ holed' = holed /\ chat' = chat /\ \A a \in Chat : pending'[a] \subseteq pending[a]
    BY <2>1 DEF AddStep, Fewer
  <2>3. run' = "begin" => run = "begin"
    BY <2>1, <1>1 DEF AddStep
  <2>4. op'[Run].mode = "append" \/ op'[Run] = op[Run]
    <3>1. Types /\ Refers /\ Agent(w) \in Chat /\ Adds(w)
      BY <2>1 DEF Inv, AddStep
    <3>2. op'[w].mode = "append" /\ \A v \in Writer : v # w => op'[v] = op[v]
      BY <3>1, AddsFacts
    <3> QED
      BY <3>2, WriterFacts
  <2> QED
    BY <2>2, <2>3, <2>4, FreshKept
<1>3. CASE StartChat
  <2>1. /\ chat' = chat + 1 /\ holed' = holed /\ pending' = pending /\ chat + 1 \in Chat
        /\ \A a \in Chat : a > chat + 1 => a > chat
    <3>1. chat \in 0..MaxChats /\ chat < MaxChats /\ MaxChats \in Nat
      BY <1>1, <1>3, StoreAssumption DEF Types, StartChat
    <3> QED
      BY <1>3, <3>1 DEF StartChat, facts, Chat
  <2>2. chat + 1 > chat
    BY <1>1 DEF Types
  <2> QED
    BY <2>1, <2>2 DEF FreshChats, Fresh
<1>4. CASE Regenerate
  <2>1. UNCHANGED <<chat, pending, holed>> /\ run = "begin"
    BY <1>4 DEF Regenerate, facts
  <2> QED
    BY <2>1, FreshKept
<1>5. CASE Spawn \/ LoopEnds \/ (Finally /\ pending[chat] = {}) \/ UNCHANGED vars
  <2>1. UNCHANGED <<chat, pending, holed, op>> /\ (run' = "begin" => run = "begin")
    BY <1>5 DEF Spawn, LoopEnds, Finally, facts, vars
  <2> QED
    BY <2>1, FreshKept
<1>6. CASE \E w \in Writer : OpenLock(w) \/ StampLock(w) \/ InspectLock(w) \/ RemoveLock(w)
                             \/ Write(w) \/ Fill(w)
  <2>1. PICK w \in Writer : OpenLock(w) \/ StampLock(w) \/ InspectLock(w) \/ RemoveLock(w)
                            \/ Write(w) \/ Fill(w)
    BY <1>6
  <2>2. UNCHANGED <<chat, pending, holed, run>>
    BY <2>1 DEF OpenLock, StampLock, InspectLock, RemoveLock, Write, Fill, facts
  <2>3. op'[Run].mode = op[Run].mode
    <3>1. \/ \E at \in OpAt : GoOn(w, at)
          \/ op' = [op EXCEPT ![w].at = "fill", ![w].ids = Content(w)]
      BY <2>1 DEF OpenLock, StampLock, InspectLock, RemoveLock, Write, Fill, OpAt
    <3>2. CASE \E at \in OpAt : GoOn(w, at)
      BY <1>1, <3>2, GoOnFacts, WriterFacts
    <3>3. CASE op' = [op EXCEPT ![w].at = "fill", ![w].ids = Content(w)]
      BY <1>1, <3>3, WriterFacts DEF Types, OpRecord
    <3> QED
      BY <3>1, <3>2, <3>3
  <2> QED
    BY <2>2, <2>3, FreshKept
<1>7. CASE \E w \in Writer : Release(w) /\ op[w].next = "none"
  <2>1. PICK w \in Writer : Release(w) /\ op[w].next = "none"
    BY <1>7
  <2>2. /\ op[w].at # "none" /\ UNCHANGED <<chat, holed, run>> /\ op' = [op EXCEPT ![w] = NoOp]
        /\ \A a \in Chat : a # Agent(w) => pending'[a] \subseteq pending[a]
    BY <1>1, <2>1 DEF Release, Types
  <2> QED
    BY <2>2, FreshEnd
<1>8. CASE \E w \in Writer : Throw(w)
  <2>1. PICK w \in Writer : Throw(w)
    BY <1>8
  <2>2. /\ op[w].at # "none" /\ UNCHANGED <<chat, pending>> /\ op' = [op EXCEPT ![w] = NoOp]
        /\ holed' \subseteq holed \union {Agent(w)} /\ (run' # "begin" \/ run' = run)
    BY <2>1 DEF Throw
  <2> QED
    BY <2>2, FreshEnd
<1>9. CASE Crash
  <2>1. /\ UNCHANGED <<chat, holed>> /\ (\A a \in Chat : pending'[a] = {})
        /\ run' = "none" /\ op'[Run].mode = "append"
    BY <1>9, WriterFacts DEF Crash, NoOp
  <2> QED
    BY <2>1, FreshKept
<1> QED
  BY <1>2, <1>3, <1>4, <1>5, <1>6, <1>7, <1>8, <1>9, AddActions, WriterFacts
  DEF Next, RunSteps, Proceed

\* What has gone astray or is damaged stays so.
LEMMA WasWell ==
  ASSUME Inv, [Next]_vars, ~damaged', ~astray'
  PROVE  ~damaged /\ ~astray
<1>1. CASE \E w \in Writer : AddStep(w)
  <2>1. PICK w \in Writer : AddStep(w)
    BY <1>1
  <2>2. Types /\ Refers /\ Agent(w) \in Chat /\ Adds(w) /\ damaged' = damaged
    BY <2>1 DEF Inv, AddStep
  <2> QED
    BY <2>2, AddsFacts
<1>2. CASE StartChat \/ Regenerate \/ Spawn \/ LoopEnds \/ (Finally /\ pending[chat] = {})
  <2>1. CASE StartChat
    BY <2>1 DEF StartChat, facts
  <2>2. CASE Regenerate
    BY <2>2 DEF Regenerate, facts
  <2>3. CASE Spawn \/ LoopEnds
    BY <2>3 DEF Spawn, LoopEnds, facts
  <2>4. CASE Finally /\ pending[chat] = {}
    BY <2>4 DEF Finally, facts
  <2> QED
    BY <1>2, <2>1, <2>2, <2>3, <2>4
<1>3. CASE \E w \in Writer : \/ OpenLock(w) \/ StampLock(w) \/ InspectLock(w) \/ RemoveLock(w)
                             \/ Write(w) \/ Fill(w) \/ Throw(w)
                             \/ Release(w) /\ op[w].next = "none"
  BY <1>3 DEF OpenLock, StampLock, InspectLock, RemoveLock, Write, Fill, Throw, Release, facts
<1>4. CASE Crash
  <2>1. astray' = astray
    BY <1>4 DEF Crash
  <2>2. \/ damaged' = damaged \/ damaged' = TRUE
        \/ \E w \in Writer : damaged' = (damaged \/ log # <<>> \/ file'.cut)
    BY <1>4 DEF Crash
  <2>3. damaged \in BOOLEAN
    BY DEF Inv, Types
  <2> QED
    BY <2>1, <2>2, <2>3
<1>5. CASE UNCHANGED vars
  BY <1>5 DEF vars, facts
<1> QED
  BY <1>1, <1>2, <1>3, <1>4, <1>5, AddActions, WriterFacts DEF Next, RunSteps, Proceed

LEMMA SameNext ==
  ASSUME Inv, HistoryInv, [Next]_vars, ~damaged', ~astray'
  PROVE  Same'
<1>1. ~damaged /\ ~astray
  BY WasWell
<1>2. Same /\ FreshChats
  BY <1>1 DEF HistoryInv
<1>3. CASE \E w \in Writer : AddStep(w)
  BY <1>2, <1>3, AddSame
<1>4. CASE StartChat \/ Regenerate \/ Spawn \/ LoopEnds \/ (Finally /\ pending[chat] = {})
  BY <1>1, <1>2, <1>4, StartSame, RegenerateSame, RunMovesSame
<1>5. CASE \E w \in Writer : OpenLock(w) \/ StampLock(w) \/ InspectLock(w) \/ RemoveLock(w)
  <2>1. PICK w \in Writer : OpenLock(w) \/ StampLock(w) \/ InspectLock(w) \/ RemoveLock(w)
    BY <1>5
  <2>2. op[w].at \in Early /\ \E at \in Early : GoOn(w, at)
    BY <2>1 DEF OpenLock, StampLock, InspectLock, RemoveLock, Early
  <2>3. UNCHANGED <<entries, file, mem, pending, chat, run, sub, facts, astray, bounds>>
    BY <2>1 DEF OpenLock, StampLock, InspectLock, RemoveLock
  <2> QED
    BY <1>2, <2>2, <2>3, WaitSame
<1>6. CASE \E w \in Writer : Write(w) \/ Fill(w)
  BY <1>1, <1>2, <1>6, StartFillSame, AddedSame, FillSame DEF Write
<1>7. CASE \E w \in Writer : Release(w) /\ op[w].next = "none"
  BY <1>2, <1>7, EndSame
<1>8. CASE \E w \in Writer : Throw(w)
  BY <1>2, <1>8, ThrowSame
<1>9. CASE Crash
  BY <1>1, <1>2, <1>9, CrashSame
<1>10. CASE UNCHANGED vars
  <2>1. UNCHANGED <<entries, file, mem, pending, chat, run, op, sub, log, holed>>
    BY <1>10 DEF vars, facts
  <2> QED
    BY <1>2, <2>1 DEF Same, OneWriter, FileAgrees, MemoryAgrees, Live, Idle, Written
<1> QED
  BY <1>3, <1>4, <1>5, <1>6, <1>7, <1>8, <1>9, <1>10, AddActions, WriterFacts
  DEF Next, RunSteps, Proceed

LEMMA HistoryHolds == Spec => [](Inv /\ HistoryInv)
<1>1. Init => Inv /\ HistoryInv
  BY InitInv, InitHistory
<1>2. Inv /\ HistoryInv /\ [Next]_vars => (Inv /\ HistoryInv)'
  BY NextInv, FreshNext, SameNext DEF HistoryInv
<1> QED
  BY <1>1, <1>2, PTL DEF Spec

\* What is loaded are the lines of the file, each after the one before it.
LEMMA HistoryIsLines ==
  ASSUME Inv, Same, ~damaged, op[Run].at # "fill"
  PROVE  History = file.lines
<1>1. Types /\ Refers /\ FileAgrees
  BY DEF Inv, Same
<1>2. ASSUME Chained(entries, file.lines), Ids(file.lines) \subseteq 1..Len(entries)
      PROVE  History = file.lines
  <2>1. /\ Loaded(file).entries = file.lines /\ Loaded(file).leaf = LastOf(file.lines)
        /\ file.lines \in Seq(Nat)
    BY <1>1, <1>2, LoadedIsLines DEF Types, FileRecord
  <2> HIDE DEF Loaded
  <2>2. Path(entries, Loaded(file)) = Loaded(file).entries
    <3> DEFINE state == Loaded(file)
    <3>1. /\ state.entries \in Seq(Nat) /\ Ids(state.entries) \subseteq 1..Len(entries)
          /\ Chained(entries, state.entries) /\ state.leaf = LastOf(state.entries)
      BY <1>2, <2>1
    <3> HIDE DEF state
    <3>2. Path(entries, state) = state.entries
      BY <1>1, <3>1, PathOfChain
    <3> QED
      BY <3>2 DEF state
  <2> QED
    BY <2>1, <2>2 DEF History
<1>3. CASE \A w \in Writer : ~Written(w)
  <2>1. file.lines = log /\ Chained(entries, log) /\ Ids(log) \subseteq 1..Len(entries)
    BY <1>1, <1>3 DEF FileAgrees, Refers
  <2> QED
    BY <1>2, <2>1
<1>4. CASE \E w \in Writer : Written(w)
  <2>1. PICK w \in Writer : Written(w)
    BY <1>4
  <2>2. ~Idle(w) /\ op[w].mode = "append"
    BY <2>1 DEF Written, Idle
  <2>3. chat \in Chat /\ chat \notin holed /\ Live
    BY <2>2, OneAtATime DEF Same
  <2>4. /\ file.lines = Append(log, op[w].id)
        /\ mem[chat].entries = file.lines /\ Chained(entries, file.lines)
    BY <1>1, <2>1, <2>2, <2>3 DEF Same, FileAgrees, MemoryAgrees
  <2>5. Ids(file.lines) \subseteq 1..Len(entries)
    BY <1>1, <2>3, <2>4 DEF Refers
  <2> QED
    BY <1>2, <2>4, <2>5
<1> QED
  BY <1>3, <1>4

LEMMA LoadsTheConversation ==
  ASSUME Inv, HistoryInv
  PROVE  ContextSurvivesRestart
<1> SUFFICES ASSUME ~damaged, ~astray, ~Rewriting
             PROVE  \/ History = log
                    \/ \E w \in Writer : Written(w) /\ History = Append(log, op[w].id)
  BY DEF ContextSurvivesRestart
<1>1. Same /\ FileAgrees /\ op[Run].at # "fill"
  BY WriterFacts DEF HistoryInv, Same, Rewriting
<1>2. History = file.lines
  BY <1>1, HistoryIsLines
<1> QED
  BY <1>1, <1>2 DEF FileAgrees

\* What a restart or the next chat loads is the conversation as acknowledged so
\* far, in order and nothing else, with at most the one entry more whose line is
\* there already: after crashes between two lines, retries, failed appends that
\* nothing followed, locks taken over, and summaries written between chats.
THEOREM RestartLoadsTheConversation == Spec => []ContextSurvivesRestart
  BY LoadsTheConversation, HistoryHolds, PTL
-----------------------------------------------------------------------------
(* The answers to tool calls.  As long as nothing went astray or was       *)
(* damaged, each call of the conversation has exactly one result, or       *)
(* waits: its result is pending, or under way.                             *)

\* In s, a sequence of entries of es, a call of s[i] has no result yet, or exactly
\* one, with nothing but results of the same message between.
OwnResult(es, s, i, k) ==
  es[s[k]].answers # {} /\ es[s[k]].answers \subseteq CallsOf(s[i])
Waits(es, s, i, c) ==
  \A k \in DOMAIN s : c \notin es[s[k]].answers /\ (k > i => OwnResult(es, s, i, k))
Answered(es, s, i, c) ==
  \E j \in DOMAIN s :
    \A k \in DOMAIN s : /\ c \in es[s[k]].answers <=> k = j
                        /\ k \in i + 1..j => OwnResult(es, s, i, k)

\* The calls in open wait, all others are answered, but for the lost messages'.
Paired(es, s, open, lost) ==
  \A i \in DOMAIN s :
    es[s[i]].kind = "use" /\ s[i] \notin lost =>
      \A c \in CallsOf(s[i]) : IF c \in open THEN Waits(es, s, i, c) ELSE Answered(es, s, i, c)

\* Calls of one message.
OneUse(open) == \A c, d \in open : c[1] = d[1]

\* Only results answer calls, and calls made before.
ResultsAnswer ==
  \A id \in DOMAIN entries :
    entries[id].answers # {} =>
      entries[id].kind = "result" /\ \A c \in entries[id].answers : c[1] < id

\* A subagent calls no tools, and no calls are pending between two chats.
NoUse ==
  /\ \A a \in Chat : ~Idle(a) => /\ entries[op[a].id].kind # "use"
                                 /\ op[a].next \in {"none", "summary"}
  /\ run = "none" /\ chat \in Chat => pending[chat] = {}

\* An append's entry, which for calls is not yet among the pending ones, and for
\* results no longer.  Only a flush has a message to follow.
Appends(w) == ~Idle(w) /\ op[w].mode = "append"
AppendPairs(w) ==
  Appends(w) =>
    /\ op[w].id = Len(entries)
    /\ entries[op[w].id].answers \cap pending[chat] = {}
    /\ entries[op[w].id].answers = {} => pending[chat] = {} /\ op[w].next = "none"
    /\ op[w].next # "none" => pending[chat] = {}

\* The calls whose results are pending or under way.
UnderWay == UNION {entries[op[w].id].answers : w \in {v \in Writer : Appends(v)}}
OpenCalls == IF chat \in Chat /\ chat \notin holed THEN pending[chat] \union UnderWay ELSE {}

\* Before the results come, the last entry is the message with the calls.
ToolsWait ==
  run = "tools" /\ chat \notin holed =>
    /\ Idle(Run) => /\ Len(entries) # 0 /\ entries[Len(entries)].kind = "use"
                    /\ pending[chat] = CallsOf(Len(entries))
    /\ ~Idle(Run) => op[Run].next = "use" \/ entries[op[Run].id].kind = "use"

Pairing ==
  /\ Paired(entries, log, OpenCalls, excused) /\ OneUse(OpenCalls)
  /\ \A w \in Writer : AppendPairs(w)
  /\ op[Run].mode = "rewrite" => Paired(entries, op[Run].ids, {}, excused)
  /\ ToolsWait

AnswerInv == ResultsAnswer /\ NoUse /\ (~damaged /\ ~astray => Pairing)

\* An entry more: its answers are open no longer, its calls are.
LEMMA PairedAppend ==
  ASSUME NEW s \in Seq(Nat), NEW id \in Nat, NEW P, NEW lost, NEW A \in SUBSET (Nat \X {1, 2}),
         A = entries[id].answers, Paired(entries, s, P \union A, lost), OneUse(P \union A),
         A \cap P = {}, A = {} => P = {}, entries[id].kind = "use" => A = {},
         \A k \in DOMAIN s : s[k] # id /\ \A c \in entries[s[k]].answers : c[1] # id
  PROVE  Paired(entries, Append(s, id), P \union CallsIn(id), lost)
<1> DEFINE t == Append(s, id)
           L == Len(s)
<1>1. /\ L \in Nat /\ DOMAIN s = 1..L /\ DOMAIN t = 1..L + 1 /\ t[L + 1] = id
      /\ \A k \in 1..L : t[k] = s[k]
  OBVIOUS
<1> HIDE DEF t, L
<1> SUFFICES ASSUME NEW i \in DOMAIN t, entries[t[i]].kind = "use", t[i] \notin lost,
                    NEW c \in CallsOf(t[i])
             PROVE  IF c \in P \union CallsIn(id) THEN Waits(entries, t, i, c)
                                                  ELSE Answered(entries, t, i, c)
  BY DEF Paired, t
<1>2. c[1] = t[i]
  BY DEF CallsOf
<1>3. CASE i = L + 1
  <2>1. t[i] = id /\ c \in CallsIn(id) /\ A = {}
    BY <1>1, <1>3 DEF CallsIn
  <2>2. ASSUME NEW k \in DOMAIN t PROVE c \notin entries[t[k]].answers /\ ~(k > i)
    <3>1. k = L + 1 \/ k \in 1..L
      BY <1>1
    <3>2. CASE k = L + 1
      <4>1. t[k] = id /\ ~(k > i)
        BY <1>1, <1>3, <3>2
      <4>2. entries[t[k]].answers = {}
        BY <2>1, <4>1
      <4> QED
        BY <4>1, <4>2
    <3>3. CASE k \in 1..L
      <4>1. k \in DOMAIN s /\ t[k] = s[k] /\ ~(k > i)
        BY <1>1, <1>3, <3>3
      <4> QED
        BY <1>2, <2>1, <4>1
    <3> QED
      BY <3>1, <3>2, <3>3
  <2> QED
    BY <2>1, <2>2 DEF Waits
<1>4. CASE i \in 1..L
  <2>1. /\ t[i] = s[i] /\ s[i] # id /\ c \notin CallsIn(id)
        /\ IF c \in P \union A THEN Waits(entries, s, i, c) ELSE Answered(entries, s, i, c)
    <3>1. t[i] = s[i] /\ s[i] # id
      BY <1>1, <1>4
    <3>2. c \notin CallsIn(id)
      BY <1>2, <3>1 DEF CallsIn, CallsOf
    <3> QED
      BY <1>1, <1>4, <3>1, <3>2 DEF Paired
  <2>2. \A k \in 1..L : OwnResult(entries, s, i, k) => OwnResult(entries, t, i, k)
    BY <1>1, <2>1 DEF OwnResult
  <2>3. ASSUME c \in P \union A PROVE OwnResult(entries, t, i, L + 1)
    <3>1. \A d \in A : d[1] = s[i]
      BY <1>2, <2>1, <2>3 DEF OneUse
    <3>2. A \subseteq CallsOf(t[i])
      <4>1. ASSUME NEW d \in A PROVE d \in CallsOf(t[i])
        <5>1. d = <<d[1], d[2]>> /\ d[2] \in {1, 2} /\ d[1] = t[i]
          BY <2>1, <3>1
        <5> QED
          BY <5>1 DEF CallsOf
      <4> QED
        BY <4>1
    <3>3. A # {}
      BY <2>3
    <3> QED
      BY <1>1, <3>2, <3>3 DEF OwnResult
  <2>4. CASE c \in P
    <3>1. Waits(entries, s, i, c) /\ c \notin A
      BY <2>1, <2>4
    <3>2. ASSUME NEW k \in DOMAIN t
          PROVE  c \notin entries[t[k]].answers /\ (k > i => OwnResult(entries, t, i, k))
      <4>1. k = L + 1 \/ k \in 1..L
        BY <1>1
      <4> QED
        BY <1>1, <2>2, <2>3, <2>4, <3>1, <4>1 DEF Waits
    <3> QED
      BY <2>4, <3>2 DEF Waits
  <2>5. CASE c \in A
    <3>1. Waits(entries, s, i, c) /\ c \notin P
      BY <2>1, <2>5
    <3>2. ASSUME NEW k \in DOMAIN t
          PROVE  /\ c \in entries[t[k]].answers <=> k = L + 1
                 /\ k \in i + 1..L + 1 => OwnResult(entries, t, i, k)
      <4>1. CASE k = L + 1
        BY <1>1, <2>3, <2>5, <4>1
      <4>2. CASE k \in 1..L
        <5>1. k # L + 1 /\ (k \in i + 1..L + 1 => k > i)
          BY <1>1, <1>4, <4>2
        <5> QED
          BY <1>1, <2>2, <3>1, <4>2, <5>1 DEF Waits
      <4> QED
        BY <1>1, <4>1, <4>2
    <3>3. L + 1 \in DOMAIN t
      BY <1>1
    <3> QED
      BY <2>1, <3>1, <3>2, <3>3 DEF Answered
  <2>6. CASE c \notin P \union A
    <3>1. PICK j \in 1..L : \A k \in 1..L : /\ c \in entries[s[k]].answers <=> k = j
                                            /\ k \in i + 1..j => OwnResult(entries, s, i, k)
      BY <1>1, <2>1, <2>6 DEF Answered
    <3>2. ASSUME NEW k \in DOMAIN t
          PROVE  /\ c \in entries[t[k]].answers <=> k = j
                 /\ k \in i + 1..j => OwnResult(entries, t, i, k)
      <4>1. CASE k = L + 1
        <5>1. k # j /\ k \notin i + 1..j
          BY <1>1, <4>1
        <5> QED
          BY <1>1, <2>6, <4>1, <5>1
      <4>2. CASE k \in 1..L
        <5>1. t[k] = s[k]
          BY <1>1, <4>2
        <5>2. /\ c \in entries[s[k]].answers <=> k = j
              /\ k \in i + 1..j => OwnResult(entries, s, i, k)
          BY <3>1, <4>2
        <5> QED
          BY <2>2, <4>2, <5>1, <5>2
      <4> QED
        BY <1>1, <4>1, <4>2
    <3>3. j \in DOMAIN t
      BY <1>1
    <3> QED
      BY <2>1, <2>6, <3>2, <3>3 DEF Answered
  <2> QED
    BY <2>4, <2>5, <2>6
<1> QED
  BY <1>1, <1>3, <1>4

\* Entries that are made elsewhere change nothing.
LEMMA PairedKept ==
  ASSUME NEW es, NEW fs, NEW n \in Nat, NEW s \in Seq(Nat), NEW open, NEW lost,
         Paired(es, s, open, lost), Ids(s) \subseteq 1..n, \A i \in 1..n : fs[i] = es[i]
  PROVE  Paired(fs, s, open, lost)
<1>1. \A k \in DOMAIN s : fs[s[k]] = es[s[k]]
  BY DEF Ids
<1>2. \A i, k \in DOMAIN s : OwnResult(fs, s, i, k) = OwnResult(es, s, i, k)
  BY <1>1 DEF OwnResult
<1>3. \A i \in DOMAIN s : \A c : Waits(fs, s, i, c) = Waits(es, s, i, c)
  BY <1>1, <1>2 DEF Waits
<1>4. \A i \in DOMAIN s : \A c : Answered(es, s, i, c) => Answered(fs, s, i, c)
  BY <1>1, <1>2 DEF Answered
<1> QED
  BY <1>1, <1>3, <1>4 DEF Paired

\* What is lost does not wait.
LEMMA PairedLost ==
  ASSUME NEW es, NEW s, NEW open, NEW lost, NEW more, Paired(es, s, open, lost),
         lost \subseteq more, \A c \in open : c[1] \in more
  PROVE  Paired(es, s, {}, more)
<1> SUFFICES ASSUME NEW i \in DOMAIN s, es[s[i]].kind = "use", s[i] \notin more,
                    NEW c \in CallsOf(s[i])
             PROVE  Answered(es, s, i, c)
  BY DEF Paired
<1>1. c[1] = s[i]
  BY DEF CallsOf
<1>2. c \notin open
  BY <1>1
<1> QED
  BY <1>2 DEF Paired

\* A conversation is cut after a message that is no result, or before such.
LEMMA PairedPrefix ==
  ASSUME NEW es, NEW s \in Seq(Nat), NEW lost, Paired(es, s, {}, lost), NEW k \in 0..Len(s),
         \/ k \in DOMAIN s /\ es[s[k]].kind # "use" /\ es[s[k]].answers = {}
         \/ \A j \in k + 1..Len(s) : es[s[j]].answers = {}
  PROVE  Paired(es, SubSeq(s, 1, k), {}, lost)
<1> DEFINE t == SubSeq(s, 1, k)
           L == Len(s)
<1>1. L \in Nat /\ k <= L /\ DOMAIN s = 1..L /\ DOMAIN t = 1..k /\ \A i \in 1..k : t[i] = s[i]
  BY SubSeqFacts
<1> HIDE DEF t, L
<1> SUFFICES ASSUME NEW i \in 1..k, es[t[i]].kind = "use", t[i] \notin lost,
                    NEW c \in CallsOf(t[i])
             PROVE  Answered(es, t, i, c)
  BY <1>1 DEF Paired, t
<1>2. i \in 1..L /\ t[i] = s[i] /\ Answered(es, s, i, c)
  BY <1>1 DEF Paired
<1>3. PICK j \in 1..L : \A m \in 1..L : /\ c \in es[s[m]].answers <=> m = j
                                        /\ m \in i + 1..j => OwnResult(es, s, i, m)
  BY <1>1, <1>2 DEF Answered
<1> DEFINE IsOwn(m) == OwnResult(es, s, i, m)
<1>3a. \A m \in 1..L : c \in es[s[m]].answers <=> m = j
  BY <1>3
<1>3b. \A m \in 1..L : m \in i + 1..j => IsOwn(m)
  BY <1>3
<1>3c. \A m \in 1..k : IsOwn(m) => OwnResult(es, t, i, m)
  BY <1>1, <1>2 DEF OwnResult
<1>3d. \A m : IsOwn(m) => es[s[m]].answers # {}
  BY DEF OwnResult
<1> HIDE DEF IsOwn
<1>4. j \in 1..k
  <2>1. SUFFICES ASSUME j > k PROVE FALSE
    BY <1>1, <1>3, <2>1
  <2>2. c \in es[s[j]].answers /\ j \in k + 1..L
    BY <1>1, <1>3a, <2>1
  <2>3. k \in 1..L /\ es[s[k]].kind # "use" /\ es[s[k]].answers = {}
    BY <1>1, <2>2 DEF L
  <2>4. k # i
    BY <1>2, <2>3
  <2>5. k \in i + 1..j
    BY <1>1, <2>1, <2>3, <2>4
  <2> QED
    BY <1>3b, <1>3d, <2>3, <2>5
<1>5. ASSUME NEW m \in DOMAIN t
      PROVE  /\ c \in es[t[m]].answers <=> m = j
             /\ m \in i + 1..j => OwnResult(es, t, i, m)
  <2>1. m \in 1..L /\ t[m] = s[m]
    BY <1>1
  <2> QED
    BY <1>1, <1>3a, <1>3b, <1>3c, <2>1
<1> QED
  BY <1>1, <1>4, <1>5 DEF Answered
-----------------------------------------------------------------------------
(* Appends preserve the pairing.                                           *)

\* What is under way, when at most one writer is at work.
LEMMA OpenIs ==
  ASSUME NEW w \in Writer, \A v \in Writer : v # w => Idle(v), chat \in Chat, chat \notin holed
  PROVE  OpenCalls = pending[chat] \union
                       (IF Appends(w) THEN entries[op[w].id].answers ELSE {})
<1>1. \A v \in Writer : Appends(v) <=> v = w /\ Appends(w)
  BY DEF Appends
<1>2. UnderWay = IF Appends(w) THEN entries[op[w].id].answers ELSE {}
  <2>1. CASE Appends(w)
    <3>1. {v \in Writer : Appends(v)} = {w}
      BY <1>1, <2>1
    <3>2. UnderWay = UNION {entries[op[w].id].answers}
      BY <3>1 DEF UnderWay
    <3> QED
      BY <2>1, <3>2
  <2>2. CASE ~Appends(w)
    <3>1. {v \in Writer : Appends(v)} = {}
      BY <1>1, <2>2
    <3> QED
      BY <2>2, <3>1 DEF UnderWay
  <2> QED
    BY <2>1, <2>2
<1> QED
  BY <1>2 DEF OpenCalls

\* The append that returns makes its calls pending.
LEMMA Settled ==
  ASSUME Inv, Same, ResultsAnswer, Pairing, Live, chat \notin holed,
         NEW w \in Writer, \A v \in Writer : v # w => Idle(v),
         op[w].at \in {"none", "release"}, op[w].mode = "append" \/ w = Run,
         log' = IF Written(w) THEN Append(log, op[w].id) ELSE log
  PROVE  LET calls == IF Written(w) THEN CallsIn(op[w].id) ELSE {}
         IN  /\ Paired(entries, log', pending[chat] \union calls, excused)
             /\ OneUse(pending[chat] \union calls)
<1> DEFINE id == op[w].id
           A == entries[id].answers
           P == pending[chat]
<1>1. chat \in Chat /\ Types /\ Refers
  BY DEF Inv, Live
<1>2. CASE Written(w)
  <2>1. /\ Appends(w) /\ id = Len(entries) /\ A \cap P = {} /\ (A = {} => P = {})
        /\ log' = Append(log, id)
    BY <1>2 DEF Written, Appends, Idle, Pairing, AppendPairs
  <2>2. id \in DOMAIN entries /\ id \in Nat /\ DOMAIN entries = 1..id
    BY <1>1, <2>1 DEF Inv, Own, Appends, Types
  <2>3. /\ A = entries[id].answers /\ A \in SUBSET (Nat \X {1, 2})
        /\ entries[id].kind = "use" => A = {}
    <3>1. entries[id] \in EntryRecord
      BY <1>1, <2>2 DEF Types
    <3>2. A \in SUBSET (Nat \X {1, 2})
      BY <3>1 DEF EntryRecord
    <3>3. entries[id].kind = "use" => A = {}
      BY <2>2 DEF ResultsAnswer
    <3> QED
      BY <3>2, <3>3
  <2>4. OpenCalls = P \union A
    BY <1>1, <2>1, OpenIs
  <2>5. Paired(entries, log, P \union A, excused) /\ OneUse(P \union A)
    BY <2>4 DEF Pairing
  <2>6. \A k \in DOMAIN log : log[k] # id /\ \A c \in entries[log[k]].answers : c[1] # id
    <3>1. NoDup(log') /\ log \in Seq(Nat) /\ Ids(log) \subseteq 1..id
      BY <1>1, <2>1, AllAgree DEF Refers, Types
    <3>2. ASSUME NEW k \in DOMAIN log PROVE log[k] # id /\ log[k] \in 1..id
      <4>1. log[k] \in 1..id
        BY <3>1 DEF Ids
      <4>2. /\ k \in 1..Len(log) /\ Len(log) \in Nat /\ DOMAIN log' = 1..Len(log) + 1
            /\ log'[k] = log[k] /\ log'[Len(log) + 1] = id
        BY <2>1, <2>2, <3>1
      <4>3. k # Len(log) + 1 /\ Len(log) + 1 \in DOMAIN log' /\ k \in DOMAIN log'
        BY <4>2
      <4> QED
        BY <3>1, <4>1, <4>2, <4>3 DEF NoDup, NoDupBut
    <3>3. ASSUME NEW k \in DOMAIN log, NEW c \in entries[log[k]].answers PROVE c[1] # id
      <4>1. log[k] \in 1..id /\ c[1] < log[k]
        BY <2>2, <3>2, <3>3 DEF ResultsAnswer
      <4>2. c \in Nat \X {1, 2}
        <5>1. entries[log[k]] \in EntryRecord
          BY <1>1, <2>2, <4>1 DEF Types
        <5> QED
          BY <3>3, <5>1 DEF EntryRecord
      <4> QED
        BY <2>2, <4>1, <4>2
    <3> QED
      BY <3>2, <3>3
  <2> HIDE DEF id, A, P
  <2>7. Paired(entries, log', P \union CallsIn(id), excused)
    <3>1. log \in Seq(Nat)
      BY <1>1 DEF Types
    <3> QED
      <4>1. /\ A \cap P = {} /\ (A = {} => P = {})
            /\ id \in Nat
        BY <2>1, <2>2
      <4>2. Paired(entries, Append(log, id), P \union CallsIn(id), excused)
        BY <4>1, <2>3, <2>5, <2>6, <3>1, PairedAppend
      <4> QED
        BY <2>1, <4>2
  <2>8. OneUse(P \union CallsIn(id))
    <3>1. CASE entries[id].kind = "use"
      <4>1. P \union CallsIn(id) = CallsOf(id)
        BY <2>1, <2>3, <3>1 DEF CallsIn
      <4> QED
        BY <4>1 DEF OneUse, CallsOf
    <3>2. CASE entries[id].kind # "use"
      BY <2>5, <3>2 DEF OneUse, CallsIn
    <3> QED
      BY <3>1, <3>2
  <2> QED
    BY <1>2, <2>7, <2>8 DEF id, P
<1>3. CASE ~Written(w)
  <2>1. ~Appends(w)
    BY <1>3 DEF Written, Appends, Idle
  <2>2. OpenCalls = P \union {}
    BY <1>1, <2>1, OpenIs
  <2> QED
    BY <1>3, <2>2 DEF Pairing
<1> QED
  BY <1>2, <1>3

\* An entry that is put: results are taken off the pending calls, and only a flush
\* has a message to follow.
PutKind(w, kind, answers, next) ==
  /\ Put(w, kind, answers, next)
  /\ answers # {} => kind = "result"
  /\ w # Run => kind # "use" /\ next \in {"none", "summary"}
  /\ pending' = [pending EXCEPT ![Agent(w)] = @ \ answers]
  /\ next # "none" => answers # {} /\ answers = pending[Agent(w)]

\* It answers pending calls, all if it is no result; calls come before their results.
PutFits(w, kind, answers, next) ==
  /\ answers \subseteq pending[chat] /\ (answers = {} => pending[chat] = {})
  /\ run' = "tools" => kind = "use" \/ next = "use"
  /\ Written(w) => entries[op[w].id].kind # "use"

LEMMA PutFacts ==
  ASSUME Types, NEW w \in Writer, NEW kind \in Kind, Agent(w) \in Chat,
         NEW answers \in SUBSET ((1..Len(entries)) \X {1, 2}), NEW next \in Kind \union {"none"},
         Put(w, kind, answers, next)
  PROVE  LET n == Len(entries) + 1
         IN  /\ entries'[n].kind = kind /\ entries'[n].answers = answers
             /\ op'[w].next = next
<1> DEFINE n == Len(entries) + 1
           e == [parent |-> mem[Agent(w)].leaf, kind |-> kind, answers |-> answers, by |-> w]
<1>1. entries' = Append(entries, e) /\ op' = [op EXCEPT ![w] = Opened("append", n, <<>>, next)]
  BY DEF Put
<1>2. entries'[n] = e
  <2> HIDE DEF e
  <2> QED
    BY <1>1 DEF Types
<1>3. op'[w].next = next
  <2>1. op'[w] = Opened("append", n, <<>>, next)
    BY <1>1 DEF Types
  <2> QED
    BY <2>1 DEF Opened
<1> QED
  BY <1>2, <1>3

LEMMA PutPairs ==
  ASSUME Inv, Same, ResultsAnswer, Pairing, NEW w \in Writer, AddStep(w), ~astray',
         NEW kind \in Kind, NEW answers \in SUBSET ((1..Len(entries)) \X {1, 2}),
         NEW next \in Kind \union {"none"},
         PutKind(w, kind, answers, next), PutFits(w, kind, answers, next)
  PROVE  Pairing'
<1> DEFINE n == Len(entries) + 1
           P == pending[chat]
<1>1. /\ Agent(w) = chat /\ chat \in Chat /\ chat \notin holed /\ Live
      /\ w # Run => w = chat /\ run = "none" /\ run' = run
      /\ \A v \in Writer : v # w => Idle(v)
      /\ op[w].at \in {"none", "release"} /\ (op[w].mode = "append" \/ w = Run)
      /\ UNCHANGED <<chat, holed, file, excused>>
      /\ log' = IF Written(w) THEN Append(log, op[w].id) ELSE log
  BY AddAlone
<1>2. Types /\ Refers /\ RunControl /\ Adds(w)
  BY DEF Inv, AddStep
<1>3. /\ n \in Nat /\ Len(entries') = n
      /\ \A i \in 1..Len(entries) : entries'[i] = entries[i]
      /\ op'[w].at = "open" /\ op'[w].mode = "append" /\ op'[w].id = n
      /\ \A v \in Writer : v # w => op'[v] = op[v]
  BY <1>1, <1>2, AddsFacts
<1>4. entries'[n].kind = kind /\ entries'[n].answers = answers /\ op'[w].next = next
  BY <1>1, <1>2, PutFacts DEF PutKind
<1>5. pending'[chat] = P \ answers
  BY <1>1, <1>2 DEF PutKind, Types
<1>6. Paired(entries, log', P, excused) /\ OneUse(P)
  <2>1. Written(w) => CallsIn(op[w].id) = {}
    BY DEF PutFits, CallsIn
  <2>2. P \union (IF Written(w) THEN CallsIn(op[w].id) ELSE {}) = P
    BY <2>1
  <2> QED
    BY <1>1, <2>2, Settled
<1>7. Paired(entries', log', P, excused')
  <2>1. log' \in Seq(Nat) /\ Ids(log') \subseteq 1..Len(entries) /\ Len(entries) \in Nat
    BY <1>1, <1>2, AllAgree DEF Types
  <2> QED
    BY <1>1, <1>3, <1>6, <2>1, PairedKept
<1>8. \A v \in Writer : (v # w => Idle(v)') /\ (Appends(v)' <=> v = w)
  BY <1>1, <1>3 DEF Idle, Appends
<1>9. OpenCalls' = P
  <2>1. UnderWay' = answers
    <3>1. {v \in Writer : Appends(v)'} = {w}
      BY <1>8
    <3>2. UnderWay' = UNION {entries'[op'[w].id].answers}
      BY <3>1 DEF UnderWay
    <3> QED
      BY <1>3, <1>4, <3>2
  <2>2. OpenCalls' = (P \ answers) \union answers
    BY <1>1, <1>5, <2>1 DEF OpenCalls
  <2> QED
    BY <2>2 DEF PutFits
<1>10. \A v \in Writer : AppendPairs(v)'
  <2>1. answers \cap pending'[chat] = {} /\ (answers = {} => pending'[chat] = {})
    BY <1>5 DEF PutFits
  <2>2. next # "none" => answers # {} /\ pending'[chat] = {}
    BY <1>1, <1>5 DEF PutKind
  <2> QED
    BY <1>1, <1>3, <1>4, <1>8, <2>1, <2>2 DEF AppendPairs
<1>11. op'[Run].mode = "append"
  <2>1. w # Run => Idle(Run) /\ op'[Run] = op[Run]
    BY <1>1, <1>3, WriterFacts
  <2> QED
    BY <1>2, <1>3, <2>1, WriterFacts DEF RunControl, Types, OpRecord
<1>12. ToolsWait'
  <2>1. run' = "tools" => w = Run /\ ~Idle(Run)' /\ (kind = "use" \/ next = "use")
    BY <1>1, <1>3 DEF PutFits, Idle
  <2> QED
    BY <1>3, <1>4, <2>1 DEF ToolsWait
<1> QED
  BY <1>6, <1>7, <1>9, <1>10, <1>11, <1>12 DEF Pairing

\* What the guard makes of an append.
LEMMA AppendPuts ==
  ASSUME Inv, NEW w \in Writer, Agent(w) \in Chat, NEW kind \in Kind,
         NEW answers \in SUBSET ((1..Len(entries)) \X {1, 2}),
         AppendMessage(w, kind, answers), kind = "result" <=> answers # {},
         w # Run => kind = "summary"
  PROVE  \E k \in Kind, an \in SUBSET ((1..Len(entries)) \X {1, 2}), nx \in Kind \union {"none"} :
           /\ PutKind(w, k, an, nx)
           /\ an = {} => pending[Agent(w)] = {}
           /\ an \subseteq pending[Agent(w)] \/ an = answers
           /\ k = kind \/ nx = kind
<1> DEFINE a == Agent(w)
           P == pending[a]
           Sets == SUBSET ((1..Len(entries)) \X {1, 2})
<1>1. P \in Sets /\ pending \in [Chat -> SUBSET (Nat \X {1, 2})]
  <2>1. Len(entries) \in Nat /\ DOMAIN entries = 1..Len(entries)
    BY DEF Inv, Types
  <2> QED
    BY <2>1 DEF Inv, Types, Refers
<1>2. "result" \in Kind /\ "none" \in Kind \union {"none"} /\ {} \in Sets
  BY DEF Kind
<1> HIDE DEF Sets
<1>3. CASE kind = "result" /\ Put(w, kind, answers, "none")
           /\ pending' = [pending EXCEPT ![a] = @ \ answers]
  <2>1. PutKind(w, kind, answers, "none") /\ answers # {}
    BY <1>3 DEF PutKind
  <2> QED
    BY <1>2, <2>1 DEF Sets
<1>4. CASE kind # "result" /\ P # {} /\ Flush(w, kind)
  <2>1. pending' = [pending EXCEPT ![a] = @ \ P]
    <3>1. pending' = [pending EXCEPT ![a] = {}] /\ P \ P = {}
      BY <1>4 DEF Flush
    <3> QED
      BY <3>1
  <2>2. PutKind(w, "result", P, kind)
    BY <1>4, <2>1 DEF PutKind, Flush
  <2> QED
    BY <1>1, <1>2, <1>4, <2>2 DEF Sets
<1>5. CASE kind # "result" /\ P = {} /\ Put(w, kind, {}, "none") /\ UNCHANGED pending
  <2>1. pending' = [pending EXCEPT ![a] = @ \ {}]
    BY <1>1, <1>5
  <2>2. PutKind(w, kind, {}, "none")
    BY <1>5, <2>1 DEF PutKind, Kind
  <2> QED
    BY <1>2, <1>5, <2>2 DEF Sets
<1> QED
  BY <1>3, <1>4, <1>5 DEF AppendMessage

\* What each of these actions puts, and that it fits while nothing goes astray.
Puts(w) ==
  \E k \in Kind, an \in SUBSET ((1..Len(entries)) \X {1, 2}), nx \in Kind \union {"none"} :
    /\ PutKind(w, k, an, nx)
    /\ Same /\ FreshChats /\ Pairing /\ ~astray' => PutFits(w, k, an, nx)

LEMMA RunPuts ==
  ASSUME Inv, run # "none", Idle(Run), NEW kind \in Kind,
         NEW answers \in SUBSET ((1..Len(entries)) \X {1, 2}),
         AppendMessage(Run, kind, answers), kind = "result" <=> answers # {},
         Same /\ Pairing /\ ~astray' => answers \subseteq pending[chat],
         run' = "tools" => kind = "use"
  PROVE  Puts(Run)
<1>1. Agent(Run) = chat /\ chat \in Chat
  BY DEF Inv, RunControl, Agent
<1>2. PICK k \in Kind, an \in SUBSET ((1..Len(entries)) \X {1, 2}), nx \in Kind \union {"none"} :
        /\ PutKind(Run, k, an, nx)
        /\ an = {} => pending[chat] = {}
        /\ an \subseteq pending[chat] \/ an = answers
        /\ k = kind \/ nx = kind
  BY <1>1, AppendPuts, WriterFacts
<1>3. ~Written(Run)
  BY DEF Written, Idle
<1>4. Same /\ Pairing /\ ~astray' => PutFits(Run, k, an, nx)
  BY <1>2, <1>3 DEF PutFits
<1> QED
  BY <1>2, <1>4 DEF Puts

LEMMA ResultsPut == ASSUME Inv, Results PROVE Puts(Run)
<1>1. PICK id \in DOMAIN entries :
        /\ entries[id].kind = "use"
        /\ \A j \in id + 1..Len(entries) : entries[j].kind # "use"
        /\ AppendMessage(Run, "result", CallsOf(id)) \/ AppendMessage(Run, "result", {<<id, 1>>})
        /\ run' \in {"turn", "steered"}
  BY DEF Results
<1>2. run = "tools" /\ Idle(Run) /\ chat \in Chat
  BY DEF Results, Inv, RunControl
<1>3. PICK answers \in SUBSET ((1..Len(entries)) \X {1, 2}) :
        AppendMessage(Run, "result", answers) /\ answers \subseteq CallsOf(id) /\ answers # {}
  <2>1. CASE AppendMessage(Run, "result", CallsOf(id))
    BY <2>1, SubsetOfCalls DEF CallsOf
  <2>2. CASE AppendMessage(Run, "result", {<<id, 1>>})
    BY <2>2, SubsetOfCalls DEF CallsOf
  <2> QED
    BY <1>1, <2>1, <2>2
<1>4. ASSUME Same, Pairing, ~astray' PROVE answers \subseteq pending[chat]
  <2>1. chat \notin holed
    BY <1>4, ResultsAdds, AddAlone, WriterFacts
  <2>2. /\ Len(entries) # 0 /\ entries[Len(entries)].kind = "use"
        /\ pending[chat] = CallsOf(Len(entries))
    BY <1>2, <1>4, <2>1 DEF Pairing, ToolsWait
  <2>3. id = Len(entries)
    <3>1. Len(entries) \in Nat /\ id \in 1..Len(entries)
      BY DEF Inv, Types
    <3>2. id # Len(entries) => Len(entries) \in id + 1..Len(entries)
      BY <3>1
    <3> QED
      BY <1>1, <2>2, <3>2
  <2> QED
    BY <1>3, <2>2, <2>3
<1>5. "result" \in Kind
  BY DEF Kind
<1> QED
  BY <1>1, <1>2, <1>3, <1>4, <1>5, RunPuts

LEMMA TurnPuts == ASSUME Inv, Say \/ Turn PROVE Puts(Run)
<1>1. /\ run # "none" /\ Idle(Run)
      /\ \E kind \in Kind : /\ AppendMessage(Run, kind, {}) /\ kind # "result"
                            /\ run' = "tools" => kind = "use"
  <2>1. CASE Say
    BY <2>1 DEF Say, Kind
  <2>2. CASE Turn
    BY <2>2 DEF Turn, Kind
  <2> QED
    BY <2>1, <2>2
<1>2. {} \in SUBSET ((1..Len(entries)) \X {1, 2})
  OBVIOUS
<1> QED
  BY <1>1, <1>2, RunPuts

LEMMA FlushPuts == ASSUME Inv, Finally, pending[chat] # {} PROVE Puts(Run)
<1> DEFINE P == pending[chat]
<1>1. /\ run = "finally" /\ Idle(Run) /\ chat \in Chat /\ Agent(Run) = chat
      /\ Put(Run, "result", P, "none") /\ pending' = [pending EXCEPT ![chat] = {}]
      /\ run' = run
  BY DEF Inv, Finally, RunControl, Agent, Flush
<1>2. P \in SUBSET ((1..Len(entries)) \X {1, 2})
  <2>1. Len(entries) \in Nat /\ DOMAIN entries = 1..Len(entries)
    BY DEF Inv, Types
  <2> QED
    BY <1>1, <2>1 DEF Inv, Types, Refers
<1>3. PutKind(Run, "result", P, "none")
  <2>1. P \ P = {}
    OBVIOUS
  <2>2. pending' = [pending EXCEPT ![chat] = @ \ P]
    BY <1>1, <2>1
  <2> QED
    BY <1>1, <2>2 DEF PutKind
<1>4. PutFits(Run, "result", P, "none")
  BY <1>1 DEF PutFits, Written, Idle
<1>5. "result" \in Kind
  BY DEF Kind
<1> QED
  BY <1>2, <1>3, <1>4, <1>5 DEF Puts

LEMMA SubReportsPuts == ASSUME Inv, NEW a \in Chat, SubReports(a) PROVE Puts(a)
<1>1. /\ a \in Writer /\ a # Run /\ Agent(a) = a /\ AppendMessage(a, "summary", {})
      /\ run' = run /\ sub[a] = "works"
  BY WriterFacts DEF Agent, SubReports
<1>2. "summary" \in Kind /\ {} \in SUBSET ((1..Len(entries)) \X {1, 2})
  BY DEF Kind
<1>3. PICK k \in Kind, an \in SUBSET ((1..Len(entries)) \X {1, 2}), nx \in Kind \union {"none"} :
        /\ PutKind(a, k, an, nx)
        /\ an = {} => pending[a] = {}
        /\ an \subseteq pending[a]
  <2>1. Agent(a) \in Chat
    BY <1>1
  <2>2. \E k \in Kind, an \in SUBSET ((1..Len(entries)) \X {1, 2}), nx \in Kind \union {"none"} :
           /\ PutKind(a, k, an, nx)
           /\ an = {} => pending[Agent(a)] = {}
           /\ an \subseteq pending[Agent(a)] \/ an = {}
           /\ k = "summary" \/ nx = "summary"
    BY <1>1, <1>2, <2>1, AppendPuts
  <2> QED
    BY <1>1, <2>2
<1>4. ASSUME Same, ~astray' PROVE a = chat /\ run = "none"
  BY <1>1, <1>4, SubReportsAdds, AddAlone
<1>5. ~Written(a)
  BY <1>1 DEF Written, Inv, SubControl, Idle
<1>6. Same /\ ~astray' => PutFits(a, k, an, nx)
  BY <1>1, <1>3, <1>4, <1>5 DEF PutFits
<1> QED
  BY <1>3, <1>6 DEF Puts

LEMMA NextPuts ==
  ASSUME Inv, NoUse, ResultsAnswer, NEW w \in Writer, Release(w), op[w].next # "none"
  PROVE  Puts(w)
<1>1. /\ Put(w, op[w].next, {}, "none") /\ pending' = pending /\ run' = run
      /\ op[w].at = "release" /\ ~Idle(w)
  BY DEF Release, Idle
<1>2. Types /\ RunControl /\ SubControl /\ AddStep(w) /\ Agent(w) \in Chat
  BY ReleaseAdds DEF Inv, AddStep
<1>3. /\ op[w].next \in Kind /\ {} \in SUBSET ((1..Len(entries)) \X {1, 2})
      /\ "none" \in Kind \union {"none"}
  BY <1>2 DEF Types, OpRecord
<1>4. PutKind(w, op[w].next, {}, "none")
  <2>1. pending' = [pending EXCEPT ![Agent(w)] = @ \ {}]
    BY <1>1, <1>2 DEF Types
  <2>2. w # Run => op[w].next # "use"
    BY <1>1, WriterFacts DEF NoUse
  <2> QED
    BY <1>1, <2>1, <2>2 DEF PutKind
<1>5. ASSUME Same, FreshChats, Pairing, ~astray' PROVE PutFits(w, op[w].next, {}, "none")
  <2>1. w # Run => w = chat /\ run = "none"
    BY <1>2, <1>5, AddAlone
  <2>2. CASE op[w].mode = "append"
    <3>1. /\ Appends(w) /\ pending[chat] = {} /\ entries[op[w].id].answers # {}
      BY <1>1, <1>5, <2>2 DEF Appends, Pairing, AppendPairs
    <3>2. op[w].id \in DOMAIN entries
      BY <3>1 DEF Inv, Own, Appends
    <3>3. entries[op[w].id].kind # "use"
      BY <3>1, <3>2 DEF ResultsAnswer
    <3>4. run = "tools" => w = Run /\ op[w].next = "use"
      <4>1. run = "tools" => w = Run
        BY <2>1
      <4>2. chat \notin holed
        BY <1>2, <1>5, AddAlone
      <4> QED
        BY <1>1, <1>5, <3>3, <4>1, <4>2 DEF Pairing, ToolsWait
    <3> QED
      BY <1>1, <3>1, <3>3, <3>4 DEF PutFits
  <2>3. CASE op[w].mode # "append"
    <3>1. w = Run /\ op[Run].mode = "rewrite"
      BY <1>2, <2>3, WriterFacts DEF SubControl, Types, OpRecord
    <3>2. pending[chat] = {} /\ run # "tools"
      BY <1>2, <1>5, <3>1 DEF FreshChats, Fresh, RunControl
    <3> QED
      BY <1>1, <2>3, <3>2 DEF PutFits, Written
  <2> QED
    BY <2>2, <2>3
<1> QED
  BY <1>3, <1>4, <1>5 DEF Puts
-----------------------------------------------------------------------------
(* The other steps preserve the pairing.                                   *)

LEMMA PairingKept ==
  ASSUME Pairing, UNCHANGED <<entries, pending, chat, log, excused, holed>>,
         run' = "tools" => run = "tools",
         \A v \in Writer : /\ op'[v].mode = op[v].mode /\ op'[v].id = op[v].id
                           /\ op'[v].next = op[v].next /\ Idle(v)' = Idle(v),
         op[Run].mode = "rewrite" => op'[Run].ids = op[Run].ids
  PROVE  Pairing'
<1>1. \A v \in Writer : Appends(v)' = Appends(v)
  BY DEF Appends
<1>2. OpenCalls' = OpenCalls
  <2>1. {v \in Writer : Appends(v)'} = {v \in Writer : Appends(v)}
    BY <1>1
  <2>2. UnderWay' = UnderWay
    BY <2>1 DEF UnderWay, Appends
  <2> QED
    BY <2>2 DEF OpenCalls
<1>3. \A v \in Writer : AppendPairs(v)'
  BY <1>1 DEF Pairing, AppendPairs
<1>4. ToolsWait'
  BY WriterFacts DEF Pairing, ToolsWait
<1> QED
  BY <1>2, <1>3, <1>4, WriterFacts DEF Pairing

\* What an await under the lock leaves as it is.
LEMMA AwaitGoesOn ==
  ASSUME Types, NEW w \in Writer,
         \/ OpenLock(w) \/ StampLock(w) \/ InspectLock(w) \/ RemoveLock(w)
         \/ Write(w) \/ Fill(w)
  PROVE  /\ \A v \in Writer : /\ op'[v].mode = op[v].mode /\ op'[v].id = op[v].id
                              /\ op'[v].next = op[v].next /\ Idle(v)' = Idle(v)
         /\ op[Run].mode = "rewrite" => op'[Run].ids = op[Run].ids
         /\ UNCHANGED <<entries, pending, chat, run, excused, holed, astray, damaged>>
<1>1. UNCHANGED <<entries, pending, chat, run, excused, holed, astray, damaged>>
  BY DEF OpenLock, StampLock, InspectLock, RemoveLock, Write, Fill, facts
<1>2. ~Idle(w)
  BY DEF OpenLock, StampLock, InspectLock, RemoveLock, Write, Fill, Idle
<1>3. CASE \E at \in OpAt \ {"none"} : GoOn(w, at)
  <2>1. PICK at \in OpAt \ {"none"} : GoOn(w, at)
    BY <1>3
  <2>2. /\ op'[w].at = at /\ op'[w].mode = op[w].mode /\ op'[w].id = op[w].id
        /\ op'[w].ids = op[w].ids /\ op'[w].next = op[w].next
        /\ \A v \in Writer : v # w => op'[v] = op[v]
    BY <2>1, GoOnFacts
  <2> QED
    BY <1>1, <1>2, <2>1, <2>2, WriterFacts DEF Idle
<1>4. CASE op' = [op EXCEPT ![w].at = "fill", ![w].ids = Content(w)]
  <2>1. /\ op'[w].at = "fill" /\ op'[w].mode = op[w].mode /\ op'[w].id = op[w].id
        /\ op'[w].ids = Content(w) /\ op'[w].next = op[w].next
        /\ \A v \in Writer : v # w => op'[v] = op[v]
    BY <1>4 DEF Types, OpRecord
  <2> QED
    BY <1>1, <1>2, <2>1, WriterFacts DEF Idle, Content
<1> QED
  BY <1>3, <1>4 DEF OpenLock, StampLock, InspectLock, RemoveLock, Write, Fill, OpAt

\* When nothing is appended, what is open is what is pending.
LEMMA NoneAppends ==
  ASSUME \A v \in Writer : ~Appends(v)'
  PROVE  /\ OpenCalls' = IF chat' \in Chat /\ chat' \notin holed' THEN pending'[chat'] ELSE {}
         /\ \A v \in Writer : AppendPairs(v)'
<1>1. {v \in Writer : Appends(v)'} = {}
  OBVIOUS
<1>2. UnderWay' = {}
  BY <1>1 DEF UnderWay
<1> QED
  BY <1>2 DEF OpenCalls, AppendPairs

LEMMA FillPairs ==
  ASSUME Inv, Same, Same', FreshChats, Pairing, NEW w \in Writer, Fill(w)
  PROVE  Pairing'
<1>1. /\ Types /\ RunControl /\ SubControl /\ ~Idle(w) /\ op[w].at = "fill"
  BY DEF Inv, Fill, Idle
<1>2. w = Run
  BY <1>1, WriterFacts DEF SubControl
<1>3. /\ \A v \in Writer : /\ op'[v].mode = op[v].mode /\ op'[v].id = op[v].id
                           /\ op'[v].next = op[v].next /\ Idle(v)' = Idle(v)
      /\ op[Run].mode = "rewrite" => op'[Run].ids = op[Run].ids
      /\ UNCHANGED <<entries, pending, chat, run, excused, holed, astray, damaged>>
  BY <1>1, AwaitGoesOn
<1>4. CASE op[Run].mode = "append"
  <2>1. log' = log
    BY <1>2, <1>4 DEF Fill, LogOf
  <2> QED
    BY <1>3, <2>1, PairingKept
<1>5. CASE op[Run].mode = "rewrite"
  <2>1. /\ op'[Run].at = "release" /\ op'[Run].mode = "rewrite" /\ op'[Run].ids = log'
        /\ op'[Run].ids = op[Run].ids
    <3>1. op'[Run].at = "release"
      BY <1>1, <1>2, GoOnFacts, WriterFacts DEF Fill, OpAt
    <3> QED
      BY <1>3, <1>5, <3>1, WriterFacts DEF Same, FileAgrees
  <2>2. /\ \A v \in Writer : v # Run => Idle(v)
        /\ chat \in Chat /\ chat \notin holed /\ pending[chat] = {}
    BY <1>1, <1>2, <1>5, OneAtATime DEF Same, FreshChats, Fresh
  <2>3. \A v \in Writer : ~Appends(v)'
    BY <1>3, <1>5, <2>2, WriterFacts DEF Appends
  <2>4. OpenCalls' = {} /\ \A v \in Writer : AppendPairs(v)'
    BY <1>3, <2>2, <2>3, NoneAppends
  <2>5. Paired(entries, log', {}, excused)
    BY <1>5, <2>1 DEF Pairing
  <2>6. ToolsWait'
    BY <1>1, <1>3, <1>5 DEF ToolsWait, RunControl
  <2> QED
    BY <1>3, <2>1, <2>4, <2>5, <2>6 DEF Pairing, OneUse
<1> QED
  BY <1>1, <1>4, <1>5, WriterFacts DEF Types, OpRecord

LEMMA EndPairs ==
  ASSUME Inv, Same, FreshChats, ResultsAnswer, Pairing,
         NEW w \in Writer, Release(w), op[w].next = "none"
  PROVE  Pairing'
<1>1. Types /\ RunControl /\ SubControl /\ ~Idle(w) /\ op[w].at = "release"
  BY DEF Inv, Release, Idle
<1>2. /\ op' = [op EXCEPT ![w] = NoOp] /\ UNCHANGED <<entries, chat, run, holed, excused>>
      /\ log' = IF Written(w) THEN Append(log, op[w].id) ELSE log
      /\ pending' = IF Written(w) THEN [pending EXCEPT ![Agent(w)] = @ \union CallsIn(op[w].id)]
                                  ELSE pending
  BY DEF Release, Written
<1>3. /\ \A v \in Writer : v # w => Idle(v)
      /\ chat \in Chat /\ chat \notin holed /\ Live /\ Agent(w) = chat
      /\ w # Run => op[w].mode = "append" /\ run = "none"
  BY <1>1, OneAtATime DEF Same
<1>4. op'[w] = NoOp /\ \A v \in Writer : v # w => op'[v] = op[v]
  BY <1>1, <1>2 DEF Types
<1>5. (\A v \in Writer : Idle(v)') /\ op'[Run].mode = "append"
  <2>1. w # Run => op[Run].mode = "append"
    BY <1>1, <1>3, WriterFacts DEF RunControl, Types, OpRecord
  <2> QED
    BY <1>3, <1>4, <2>1, WriterFacts DEF Idle, NoOp
<1>6. pending'[chat] = pending[chat] \union (IF Written(w) THEN CallsIn(op[w].id) ELSE {})
  BY <1>1, <1>2, <1>3 DEF Types
<1>7. Paired(entries, log', pending'[chat], excused) /\ OneUse(pending'[chat])
  <2>1. op[w].mode = "append" \/ w = Run
    BY <1>3
  <2> QED
    BY <1>1, <1>2, <1>3, <1>6, <2>1, Settled
<1>8. OpenCalls' = pending'[chat] /\ \A v \in Writer : AppendPairs(v)'
  <2>1. \A v \in Writer : ~Appends(v)'
    BY <1>5 DEF Appends
  <2> QED
    BY <1>2, <1>3, <2>1, NoneAppends
<1>9. ToolsWait'
  <2>1. ASSUME run = "tools"
        PROVE  /\ Len(entries) # 0 /\ entries[Len(entries)].kind = "use"
               /\ pending'[chat] = CallsOf(Len(entries))
    <3>1. w = Run /\ op[Run].mode = "append"
      BY <1>1, <1>3, <2>1, WriterFacts DEF RunControl, Types, OpRecord
    <3>2. Written(w) /\ Appends(w)
      BY <1>1, <3>1 DEF Written, Appends
    <3>3. entries[op[w].id].kind = "use" /\ op[w].id = Len(entries)
      BY <1>1, <1>3, <2>1, <3>1, <3>2 DEF Pairing, ToolsWait, AppendPairs
    <3>4. op[w].id \in DOMAIN entries
      BY <3>2 DEF Inv, Own, Appends
    <3>5. entries[op[w].id].answers = {}
      BY <3>3, <3>4 DEF ResultsAnswer
    <3>6. pending[chat] = {}
      BY <3>2, <3>5 DEF Pairing, AppendPairs
    <3>7. Len(entries) # 0
      BY <1>1, <3>3, <3>4 DEF Types
    <3> QED
      BY <1>6, <3>2, <3>3, <3>6, <3>7 DEF CallsIn
  <2> QED
    BY <1>2, <1>5, <2>1, WriterFacts DEF ToolsWait
<1> QED
  BY <1>2, <1>5, <1>7, <1>8, <1>9 DEF Pairing

\* A failed append takes the open calls along: their results, or they themselves,
\* are not on file.
LEMMA ThrowPairs ==
  ASSUME Inv, Same, FreshChats, Pairing, NEW w \in Writer, Throw(w)
  PROVE  Pairing'
<1>1. Types /\ RunControl /\ SubControl /\ ~Idle(w)
  BY DEF Inv, Throw, Idle
<1>2. /\ op' = [op EXCEPT ![w] = NoOp] /\ UNCHANGED <<entries, pending, chat, log>>
      /\ run' = (IF w = Run THEN "finally" ELSE run)
      /\ excused' = excused \union UsesOf(op[w].id)
      /\ holed' = IF op[w].mode = "append" THEN holed \union {Agent(w)} ELSE holed
  BY DEF Throw
<1>3. /\ \A v \in Writer : v # w => Idle(v)
      /\ chat \in Chat /\ chat \notin holed /\ Agent(w) = chat
      /\ w # Run => op[w].mode = "append" /\ run = "none"
  BY <1>1, OneAtATime DEF Same
<1>4. op'[w] = NoOp /\ \A v \in Writer : v # w => op'[v] = op[v]
  BY <1>1, <1>2 DEF Types
<1>5. (\A v \in Writer : Idle(v)' /\ ~Appends(v)') /\ op'[Run].mode = "append"
  <2>1. w # Run => op[Run].mode = "append"
    BY <1>1, <1>3, WriterFacts DEF RunControl, Types, OpRecord
  <2> QED
    BY <1>3, <1>4, <2>1, WriterFacts DEF Idle, Appends, NoOp
<1>6. /\ OpenCalls' = IF chat \notin holed' THEN pending[chat] ELSE {}
      /\ \A v \in Writer : AppendPairs(v)'
  BY <1>2, <1>3, <1>5, NoneAppends
<1>7. OpenCalls' = {} /\ \A c \in OpenCalls : c[1] \in excused'
  <2>1. CASE op[w].mode = "append"
    <3> DEFINE A == entries[op[w].id].answers
    <3>1. Appends(w) /\ (A = {} => pending[chat] = {})
      BY <1>1, <2>1 DEF Appends, Pairing, AppendPairs
    <3>2. OpenCalls = pending[chat] \union A
      BY <1>3, <3>1, OpenIs
    <3>3. op[w].id # Null
      BY <1>1, <3>1 DEF Inv, Own, Appends, Types, Null
    <3>4. \A c \in A : c[1] \in excused'
      BY <1>2, <3>3 DEF UsesOf
    <3>5. OneUse(OpenCalls)
      BY DEF Pairing
    <3> HIDE DEF A
    <3>6. ASSUME NEW c \in OpenCalls PROVE c[1] \in excused'
      <4>1. PICK d \in A : TRUE
        BY <3>1, <3>2
      <4>2. c[1] = d[1]
        BY <3>2, <3>5, <4>1 DEF OneUse
      <4> QED
        BY <3>4, <4>1, <4>2
    <3> QED
      BY <1>2, <1>3, <1>6, <2>1, <3>6
  <2>2. CASE op[w].mode # "append"
    <3>1. op[Run].mode = "rewrite" /\ w = Run
      BY <1>1, <1>3, <2>2 DEF Types, OpRecord
    <3>2. pending[chat] = {}
      BY <1>3, <3>1 DEF FreshChats, Fresh
    <3>3. ~Appends(w)
      BY <2>2 DEF Appends
    <3>4. OpenCalls = {}
      BY <1>3, <3>2, <3>3, OpenIs
    <3> QED
      BY <1>6, <3>2, <3>4
  <2> QED
    BY <2>1, <2>2
<1>8. Paired(entries, log, {}, excused')
  <2>1. Paired(entries, log, OpenCalls, excused) /\ excused \subseteq excused'
    BY <1>2 DEF Pairing
  <2> QED
    BY <1>7, <2>1, PairedLost
<1>9. ToolsWait'
  BY <1>2, <1>3 DEF ToolsWait
<1> QED
  BY <1>2, <1>5, <1>6, <1>7, <1>8, <1>9 DEF Pairing, OneUse

\* So does a crash.
LEMMA CrashPairs ==
  ASSUME Inv, Same, ResultsAnswer, Pairing, ~damaged, Crash, ~damaged'
  PROVE  Pairing'
<1>1. /\ Types /\ run' = "none" /\ UNCHANGED <<entries, chat, holed>>
      /\ op' = [w \in Writer |-> NoOp] /\ pending' = [a \in Chat |-> {}]
      /\ excused' = excused \union {c[1] : c \in UNION {pending[a] : a \in Chat}}
                            \union UNION {UsesOf(op[w].id) : w \in Writer}
  BY DEF Inv, Crash
<1>2. (\A v \in Writer : Idle(v)' /\ ~Appends(v)') /\ op'[Run].mode = "append"
  BY <1>1, WriterFacts DEF Idle, Appends, NoOp
<1>3. OpenCalls' = {} /\ \A v \in Writer : AppendPairs(v)'
  <2>1. chat \in Chat => pending'[chat] = {}
    BY <1>1
  <2> QED
    BY <1>1, <1>2, <2>1, NoneAppends
<1>4. /\ excused \subseteq excused'
      /\ \A a \in Chat : \A c \in pending[a] : c[1] \in excused'
      /\ \A w \in Writer : UsesOf(op[w].id) \subseteq excused'
  BY <1>1
<1>5. Paired(entries, log', {}, excused')
  <2>1. CASE log' = log
    <3>1. \A c \in OpenCalls : c[1] \in excused'
      <4>1. ASSUME NEW w \in Writer, Appends(w), NEW c \in entries[op[w].id].answers
            PROVE  c[1] \in excused'
        <5>1. op[w].id # Null
          BY <1>1, <4>1 DEF Inv, Own, Appends, Types, Null
        <5>2. c[1] \in UsesOf(op[w].id)
          BY <5>1 DEF UsesOf
        <5> QED
          BY <1>4, <5>2
      <4> QED
        BY <1>4, <4>1 DEF OpenCalls, UnderWay
    <3> QED
      BY <1>4, <2>1, <3>1, PairedLost DEF Pairing
  <2>2. CASE \E w \in Writer : Written(w) /\ log' = Append(log, op[w].id)
    <3>1. PICK w \in Writer : Written(w) /\ log' = Append(log, op[w].id)
      BY <2>2
    <3>2. /\ ~Idle(w) /\ Appends(w) /\ op[w].at = "release" /\ op[w].mode = "append"
          /\ op[w].id \in DOMAIN entries
      BY <3>1 DEF Written, Idle, Appends, Inv, Own
    <3>3. /\ \A v \in Writer : v # w => Idle(v)
          /\ chat \in Chat /\ chat \notin holed /\ Live
      BY <3>2, OneAtATime DEF Same
    <3>4. Paired(entries, log', pending[chat] \union CallsIn(op[w].id), excused)
      BY <3>1, <3>2, <3>3, Settled
    <3>5. \A c \in CallsIn(op[w].id) : c[1] \in excused'
      <4>1. op[w].id # Null
        BY <1>1, <3>2 DEF Types, Null
      <4>2. \A c \in CallsIn(op[w].id) : c[1] \in UsesOf(op[w].id)
        BY <4>1 DEF CallsIn, CallsOf, UsesOf
      <4> QED
        BY <1>4, <4>2
    <3> QED
      BY <1>4, <3>3, <3>4, <3>5, PairedLost
  <2> QED
    BY <2>1, <2>2 DEF Crash
<1>6. ToolsWait'
  BY <1>1 DEF ToolsWait
<1> QED
  BY <1>1, <1>2, <1>3, <1>5, <1>6 DEF Pairing, OneUse

\* A new chat starts with nothing open.
LEMMA StartPairs ==
  ASSUME Inv, FreshChats, NoUse, Pairing, StartChat, ~astray'
  PROVE  Pairing'
<1>1. /\ Types /\ RunControl /\ run = "none" /\ run' = "begin" /\ chat' = chat + 1
      /\ UNCHANGED <<entries, pending, op, log, excused, holed>>
      /\ \A w \in Writer : Idle(w) /\ ~Appends(w)
  BY WriterFacts DEF Inv, StartChat, facts, Appends
<1>2. (\A v \in Writer : Idle(v)' /\ ~Appends(v)') /\ op'[Run].mode = "append"
  BY <1>1, WriterFacts DEF Idle, Appends, RunControl, Types, OpRecord
<1>3. OpenCalls = {}
  <2>1. CASE chat \in Chat /\ chat \notin holed
    BY <1>1, <2>1, OpenIs, WriterFacts DEF NoUse
  <2>2. CASE ~(chat \in Chat /\ chat \notin holed)
    BY <2>2 DEF OpenCalls
  <2> QED
    BY <2>1, <2>2
<1>4. OpenCalls' = {} /\ \A v \in Writer : AppendPairs(v)'
  <2>1. chat + 1 \in Chat => pending[chat + 1] = {}
    BY <1>1 DEF FreshChats, Fresh, Types
  <2> QED
    BY <1>1, <1>2, <2>1, NoneAppends
<1>5. ToolsWait'
  BY <1>1 DEF ToolsWait
<1> QED
  BY <1>1, <1>2, <1>3, <1>4, <1>5 DEF Pairing

\* A retry cuts the conversation where no call and its result are parted.
LEMMA RegeneratePairs ==
  ASSUME Inv, Same, FreshChats, ResultsAnswer, Pairing, Regenerate
  PROVE  Pairing'
<1>1. /\ Types /\ RunControl /\ chat \in Chat /\ chat \notin holed /\ pending[chat] = {}
      /\ run' \in {"turn", "resay"}
      /\ UNCHANGED <<entries, pending, chat, log, excused, holed>>
  BY DEF Inv, Regenerate, RunControl, FreshChats, Fresh, facts
<1>2. /\ \A w \in Writer : Idle(w) /\ ~Written(w)
      /\ log \in Seq(Nat) /\ Ids(log) \subseteq 1..Len(entries)
  BY RegenerateKeeps
<1>3. PICK k \in 0..Len(log) :
        LET kept == SubSeq(log, 1, k) IN
        /\ CutsWell(log, k)
        /\ kept \in Seq(Nat)
        /\ op' = IF k = Len(log) THEN op
                 ELSE [op EXCEPT ![Run] = Opened("rewrite", Null, kept, "none")]
  BY RegenerateKeeps
<1> DEFINE kept == SubSeq(log, 1, k)
<1>4. OpenCalls = {}
  <2>1. ~Appends(Run)
    BY <1>2, WriterFacts DEF Appends
  <2> QED
    BY <1>1, <1>2, <2>1, OpenIs, WriterFacts
<1>5. Paired(entries, log, {}, excused)
  BY <1>4 DEF Pairing
<1>6. Paired(entries, kept, {}, excused)
  <2>1. ASSUME NEW i \in DOMAIN log
        PROVE  entries[log[i]].kind # "result" => entries[log[i]].answers = {}
    <3>1. log[i] \in DOMAIN entries
      <4>1. DOMAIN entries = 1..Len(entries)
        BY <1>1 DEF Types
      <4>2. log[i] \in Ids(log)
        BY DEF Ids
      <4> QED
        BY <1>2, <4>1, <4>2
    <3> QED
      BY <3>1 DEF ResultsAnswer
  <2>2. \A i \in k + 1..Len(log) : i \in DOMAIN log
    BY <1>2, <1>3
  <2>3. \/ k \in DOMAIN log /\ entries[log[k]].kind # "use" /\ entries[log[k]].answers = {}
        \/ \A j \in k + 1..Len(log) : entries[log[j]].answers = {}
    BY <1>3, <2>1, <2>2 DEF CutsWell, Assistant
  <2> QED
    BY <1>2, <1>3, <1>5, <2>3, PairedPrefix
<1> HIDE DEF kept
<1>7. /\ op'[Run].mode = "rewrite" => op'[Run].ids = kept
      /\ \A w \in Writer : ~Appends(w)'
  <2>1. CASE op' = op
    BY <1>1, <1>2, <2>1, WriterFacts DEF Appends, Idle, RunControl
  <2>2. CASE op' = [op EXCEPT ![Run] = Opened("rewrite", Null, kept, "none")]
    <3>1. /\ op'[Run].mode = "rewrite" /\ op'[Run].ids = kept
          /\ \A w \in Writer : w # Run => op'[w] = op[w]
      BY <1>1, <2>2, WriterFacts DEF Types, Opened
    <3> QED
      BY <1>2, <3>1 DEF Appends, Idle
  <2> QED
    BY <1>3, <2>1, <2>2 DEF kept
<1>8. OpenCalls' = {} /\ \A v \in Writer : AppendPairs(v)'
  BY <1>1, <1>7, NoneAppends
<1>9. ToolsWait'
  BY <1>1 DEF ToolsWait
<1> QED
  BY <1>1, <1>5, <1>6, <1>7, <1>8, <1>9 DEF Pairing, OneUse
-----------------------------------------------------------------------------
(* All steps together.                                                     *)

\* The steps as the answers see them.
Adding(w) == AddStep(w) /\ Puts(w)
Moving == Spawn \/ LoopEnds \/ (Finally /\ pending[chat] = {}) \/ UNCHANGED vars
Awaiting(w) ==
  OpenLock(w) \/ StampLock(w) \/ InspectLock(w) \/ RemoveLock(w) \/ Write(w) \/ Fill(w)
Ending(w) == Release(w) /\ op[w].next = "none"

LEMMA StepKinds ==
  ASSUME Inv, NoUse, ResultsAnswer, [Next]_vars
  PROVE  \/ \E w \in Writer : Adding(w) \/ Awaiting(w) \/ Ending(w) \/ Throw(w)
         \/ StartChat \/ Regenerate \/ Moving \/ Crash
<1>1. /\ Say \/ Turn \/ Results \/ (Finally /\ pending[chat] # {}) => Adding(Run)
      /\ \A a \in Chat : SubReports(a) => Adding(a)
      /\ \A w \in Writer : Release(w) /\ op[w].next # "none" => Adding(w)
  BY AddActions, TurnPuts, ResultsPut, FlushPuts, SubReportsPuts, NextPuts DEF Adding
<1> QED
  BY <1>1, WriterFacts DEF Next, RunSteps, Proceed, Awaiting, Ending, Moving

LEMMA AddingFacts ==
  ASSUME Inv, NEW w \in Writer, Adding(w)
  PROVE  LET n == Len(entries) + 1
         IN  /\ Agent(w) \in Chat /\ n \in Nat /\ DOMAIN entries = 1..Len(entries)
             /\ DOMAIN entries' = 1..n
             /\ \A i \in 1..Len(entries) : entries'[i] = entries[i]
             /\ entries'[n].answers \subseteq (1..Len(entries)) \X {1, 2}
             /\ entries'[n].answers # {} => entries'[n].kind = "result"
             /\ op'[w].id = n
             /\ w # Run => entries'[n].kind # "use" /\ op'[w].next \in {"none", "summary"}
             /\ \A v \in Writer : v # w => op'[v] = op[v]
<1>1. Types /\ Refers /\ Agent(w) \in Chat /\ Adds(w)
  BY DEF Inv, Adding, AddStep
<1>2. PICK k \in Kind, an \in SUBSET ((1..Len(entries)) \X {1, 2}), nx \in Kind \union {"none"} :
        PutKind(w, k, an, nx)
  BY DEF Adding, Puts
<1>3. Put(w, k, an, nx) /\ (an # {} => k = "result")
      /\ (w # Run => k # "use" /\ nx \in {"none", "summary"})
  BY <1>2 DEF PutKind
<1>4. LET n == Len(entries) + 1
      IN  entries'[n].kind = k /\ entries'[n].answers = an /\ op'[w].next = nx
  BY <1>1, <1>3, PutFacts
<1> QED
  BY <1>1, <1>3, <1>4, AddsFacts

\* The steps that put no entry leave the entries as they are.
LEMMA EntriesKept ==
  ASSUME \/ \E w \in Writer : Awaiting(w) \/ Ending(w) \/ Throw(w)
         \/ StartChat \/ Regenerate \/ Moving \/ Crash
  PROVE  entries' = entries
<1>1. CASE \E w \in Writer : Awaiting(w) \/ Ending(w) \/ Throw(w)
  BY <1>1 DEF Awaiting, Ending, Throw, OpenLock, StampLock, InspectLock, RemoveLock, Write, Fill,
     Release
<1>2. CASE StartChat \/ Regenerate \/ Crash
  BY <1>2 DEF StartChat, Regenerate, Crash
<1>3. CASE Moving
  BY <1>3 DEF Moving, Spawn, LoopEnds, Finally, vars
<1> QED
  BY <1>1, <1>2, <1>3

LEMMA ResultsAnswerNext ==
  ASSUME Inv, NoUse, ResultsAnswer, [Next]_vars
  PROVE  ResultsAnswer'
<1>1. CASE \E w \in Writer : Adding(w)
  <2>1. PICK w \in Writer : Adding(w)
    BY <1>1
  <2> DEFINE n == Len(entries) + 1
  <2>2. /\ n \in Nat /\ Len(entries) \in Nat /\ DOMAIN entries = 1..Len(entries)
        /\ DOMAIN entries' = 1..n
        /\ \A i \in 1..Len(entries) : entries'[i] = entries[i]
        /\ entries'[n].answers \subseteq (1..Len(entries)) \X {1, 2}
        /\ entries'[n].answers # {} => entries'[n].kind = "result"
    BY <2>1, AddingFacts DEF Inv, Types
  <2>3. ASSUME NEW id \in DOMAIN entries', entries'[id].answers # {}
        PROVE  entries'[id].kind = "result" /\ \A c \in entries'[id].answers : c[1] < id
    <3>1. CASE id = n
      BY <2>2, <2>3, <3>1
    <3>2. CASE id # n
      <4>1. id \in 1..Len(entries)
        BY <2>2, <3>2
      <4> QED
        BY <2>2, <2>3, <4>1 DEF ResultsAnswer
    <3> QED
      BY <3>1, <3>2
  <2> QED
    BY <2>3 DEF ResultsAnswer
<1>2. CASE entries' = entries
  BY <1>2 DEF ResultsAnswer
<1> QED
  BY <1>1, <1>2, StepKinds, EntriesKept

LEMMA NoUseNext ==
  ASSUME Inv, NoUse, ResultsAnswer, [Next]_vars
  PROVE  NoUse'
<1>1. /\ Types /\ RunControl /\ SubControl
      /\ Run \in Writer /\ Chat \subseteq Writer /\ Run \notin Chat
  BY WriterFacts DEF Inv
<1>2. ASSUME entries' = entries, run' = "none" /\ chat' \in Chat => pending'[chat'] = {},
             \A a \in Chat :
               ~Idle(a)' => ~Idle(a) /\ op'[a].id = op[a].id /\ op'[a].next = op[a].next
      PROVE  NoUse'
  BY <1>2 DEF NoUse
<1>3. CASE \E w \in Writer : Adding(w)
  <2>1. PICK w \in Writer : Adding(w)
    BY <1>3
  <2> DEFINE n == Len(entries) + 1
  <2>2. /\ DOMAIN entries = 1..Len(entries)
        /\ \A i \in 1..Len(entries) : entries'[i] = entries[i]
        /\ op'[w].id = n
        /\ w # Run => entries'[n].kind # "use" /\ op'[w].next \in {"none", "summary"}
        /\ \A v \in Writer : v # w => op'[v] = op[v]
    BY <2>1, AddingFacts
  <2>3. ASSUME NEW a \in Chat, ~Idle(a)'
        PROVE  entries'[op'[a].id].kind # "use" /\ op'[a].next \in {"none", "summary"}
    <3>1. CASE a = w
      BY <1>1, <2>2, <3>1
    <3>2. CASE a # w
      <4>1. op'[a] = op[a] /\ ~Idle(a) /\ op[a].mode = "append"
        BY <1>1, <2>2, <2>3, <3>2 DEF SubControl, Idle
      <4>2. op[a].id \in DOMAIN entries
        BY <1>1, <4>1 DEF Inv, Own
      <4> QED
        BY <2>2, <4>1, <4>2 DEF NoUse
    <3> QED
      BY <3>1, <3>2
  <2>4. run' = "none" /\ chat' \in Chat => pending'[chat'] = {}
    <3>1. AddStep(w)
      BY <2>1 DEF Adding
    <3>2. chat' = chat /\ (run' = "none" => run = "none")
          /\ \A a \in Chat : pending'[a] \subseteq pending[a]
      BY <3>1 DEF AddStep, Fewer
    <3> QED
      BY <3>2 DEF NoUse
  <2> QED
    BY <2>3, <2>4 DEF NoUse
<1>4. CASE StartChat \/ Regenerate
  <2>1. run' # "none" /\ \A a \in Chat : op'[a] = op[a]
    <3>1. CASE StartChat
      BY <3>1 DEF StartChat
    <3>2. CASE Regenerate
      BY <1>1, <3>2 DEF Regenerate, Types
    <3> QED
      BY <1>4, <3>1, <3>2
  <2> QED
    BY <1>2, <1>4, <2>1, EntriesKept DEF Idle
<1>5. CASE Moving
  <2>1. UNCHANGED <<pending, chat, op>> /\ (run' = "none" => run = "none" \/ pending[chat] = {})
    BY <1>5 DEF Moving, Spawn, LoopEnds, Finally, vars
  <2>2. run' = "none" /\ chat' \in Chat => pending'[chat'] = {}
    BY <2>1 DEF NoUse
  <2>3. \A a \in Chat : Idle(a)' = Idle(a)
    BY <2>1 DEF Idle
  <2> QED
    BY <1>2, <1>5, <2>1, <2>2, <2>3, EntriesKept
<1>6. CASE \E w \in Writer : Awaiting(w)
  <2>1. /\ UNCHANGED <<entries, pending, chat, run>>
        /\ \A v \in Writer : /\ op'[v].id = op[v].id /\ op'[v].next = op[v].next
                             /\ Idle(v)' = Idle(v)
    BY <1>1, <1>6, AwaitGoesOn DEF Awaiting
  <2> QED
    BY <1>1, <1>2, <2>1 DEF NoUse
<1>7. CASE \E w \in Writer : Ending(w) \/ Throw(w)
  <2>1. PICK w \in Writer : Ending(w) \/ Throw(w)
    BY <1>7
  <2>2. /\ op' = [op EXCEPT ![w] = NoOp] /\ chat' = chat /\ ~Idle(w)
        /\ run' = "none" => run = "none"
    BY <2>1 DEF Ending, Release, Throw, Idle
  <2>3. \A v \in Writer : op'[v] = IF v = w THEN NoOp ELSE op[v]
    BY <1>1, <2>2 DEF Types
  <2>4. ASSUME run' = "none", chat' \in Chat PROVE pending'[chat'] = {}
    <3>1. run = "none" /\ w \in Chat /\ pending[chat] = {}
      BY <1>1, <2>2, <2>4, WriterFacts DEF RunControl, NoUse
    <3>2. CASE Throw(w)
      BY <2>2, <3>1, <3>2 DEF Throw
    <3>3. CASE Ending(w)
      <4>1. CallsIn(op[w].id) = {}
        BY <2>2, <3>1 DEF NoUse, CallsIn
      <4>2. \/ pending' = [pending EXCEPT ![Agent(w)] = @ \union CallsIn(op[w].id)]
            \/ pending' = pending
        BY <3>3 DEF Ending, Release
      <4>3. pending'[chat] = pending[chat]
        BY <1>1, <2>2, <2>4, <4>1, <4>2 DEF Types
      <4> QED
        BY <2>2, <3>1, <4>3
    <3> QED
      BY <2>1, <3>2, <3>3
  <2>5. \A a \in Chat : ~Idle(a)' => a # w
    BY <1>1, <2>3 DEF Idle, NoOp
  <2> QED
    BY <1>1, <1>2, <1>7, <2>3, <2>4, <2>5, EntriesKept DEF Idle
<1>8. CASE Crash
  <2>1. /\ \A a \in Chat : pending'[a] = {} /\ op'[a] = NoOp
    BY <1>1, <1>8 DEF Crash
  <2>2. \A a \in Chat : Idle(a)'
    BY <2>1 DEF Idle, NoOp
  <2> QED
    BY <1>2, <1>8, <2>1, <2>2, EntriesKept
<1> QED
  BY <1>3, <1>4, <1>5, <1>6, <1>7, <1>8, StepKinds

LEMMA MovePairs ==
  ASSUME Pairing, Moving
  PROVE  Pairing'
<1>1. UNCHANGED <<entries, pending, chat, log, excused, holed, op>>
  BY DEF Moving, Spawn, LoopEnds, Finally, vars, facts
<1>2. run' = "tools" => run = "tools"
  BY DEF Moving, Spawn, LoopEnds, Finally, vars
<1>3. \A v \in Writer : Idle(v)' = Idle(v)
  BY <1>1 DEF Idle
<1> QED
  BY <1>1, <1>2, <1>3, PairingKept

LEMMA AwaitPairs ==
  ASSUME Inv, Same, Same', FreshChats, Pairing, NEW w \in Writer, Awaiting(w)
  PROVE  Pairing'
<1>1. CASE Fill(w)
  BY <1>1, FillPairs
<1>2. CASE ~Fill(w)
  <2>1. OpenLock(w) \/ StampLock(w) \/ InspectLock(w) \/ RemoveLock(w) \/ Write(w)
    BY <1>2 DEF Awaiting
  <2>2. log' = log
    BY <2>1 DEF OpenLock, StampLock, InspectLock, RemoveLock, Write, facts
  <2> QED
    BY <2>1, <2>2, AwaitGoesOn, PairingKept DEF Inv
<1> QED
  BY <1>1, <1>2

LEMMA AddingPairs ==
  ASSUME Inv, Same, FreshChats, ResultsAnswer, Pairing, NEW w \in Writer, Adding(w), ~astray'
  PROVE  Pairing'
<1>1. PICK k \in Kind, an \in SUBSET ((1..Len(entries)) \X {1, 2}), nx \in Kind \union {"none"} :
        PutKind(w, k, an, nx) /\ PutFits(w, k, an, nx)
  BY DEF Adding, Puts
<1> QED
  BY <1>1, PutPairs DEF Adding

LEMMA PairingNext ==
  ASSUME Inv, HistoryInv, AnswerInv, [Next]_vars, ~damaged', ~astray'
  PROVE  Pairing'
<1>1. /\ ~damaged /\ ~astray /\ Same /\ Same' /\ FreshChats /\ ResultsAnswer /\ NoUse /\ Pairing
  BY WasWell, SameNext DEF HistoryInv, AnswerInv
<1>2. CASE \E w \in Writer : Adding(w)
  BY <1>1, <1>2, AddingPairs
<1>3. CASE \E w \in Writer : Awaiting(w) \/ Ending(w) \/ Throw(w)
  BY <1>1, <1>3, AwaitPairs, EndPairs, ThrowPairs DEF Ending
<1>4. CASE StartChat \/ Regenerate \/ Moving \/ Crash
  BY <1>1, <1>4, StartPairs, RegeneratePairs, MovePairs, CrashPairs
<1> QED
  BY <1>1, <1>2, <1>3, <1>4, StepKinds

LEMMA InitAnswer == ASSUME Init PROVE AnswerInv
<1>1. /\ entries = <<>> /\ log = <<>> /\ chat = 0 /\ run = "none"
      /\ \A w \in Writer : op[w] = NoOp
  BY DEF Init
<1>2. (\A w \in Writer : Idle(w) /\ ~Appends(w)) /\ op[Run].mode = "append" /\ chat \notin Chat
  BY <1>1, WriterFacts DEF Idle, Appends, NoOp, Chat
<1>3. ResultsAnswer /\ NoUse
  BY <1>1, <1>2, WriterFacts DEF ResultsAnswer, NoUse
<1>4. OpenCalls = {} /\ Paired(entries, log, OpenCalls, excused)
  BY <1>1, <1>2 DEF OpenCalls, Paired
<1>5. Pairing
  BY <1>1, <1>2, <1>4 DEF Pairing, OneUse, AppendPairs, ToolsWait
<1> QED
  BY <1>3, <1>5 DEF AnswerInv

LEMMA AnswerHolds == Spec => [](Inv /\ HistoryInv /\ AnswerInv)
<1>1. Init => Inv /\ HistoryInv /\ AnswerInv
  BY InitInv, InitHistory, InitAnswer
<1>2. Inv /\ HistoryInv /\ AnswerInv /\ [Next]_vars => (Inv /\ HistoryInv /\ AnswerInv)'
  <2>1. ASSUME Inv, HistoryInv, AnswerInv, [Next]_vars
        PROVE  (Inv /\ HistoryInv /\ AnswerInv)'
    <3>1. Inv' /\ FreshChats' /\ (~damaged' /\ ~astray' => Same')
      BY <2>1, NextInv, FreshNext, SameNext DEF HistoryInv
    <3>2. ResultsAnswer' /\ NoUse'
      BY <2>1, ResultsAnswerNext, NoUseNext DEF AnswerInv
    <3>3. ~damaged' /\ ~astray' => Pairing'
      BY <2>1, PairingNext
    <3> QED
      BY <3>1, <3>2, <3>3 DEF HistoryInv, AnswerInv
  <2> QED
    BY <2>1
<1> QED
  BY <1>1, <1>2, PTL DEF Spec

\* Once a run is over, every tool call of the conversation has exactly one result,
\* with nothing but results of the same message between, for every number of chats:
\* the guard flushes before any other message and in Agent.run's finally block
\* (session-tool-result-guard.ts, agent.ts), so that blocked tools, steering, aborts
\* and errors leave no call open; but for calls a crash or a failed append took.
THEOREM EveryCallIsAnswered == Spec => []CallsAreAnswered
<1>1. ASSUME Inv, HistoryInv, AnswerInv, Quiet, ~damaged, ~astray
      PROVE  History = log /\ Paired(entries, History, {}, excused)
  <2>1. \A w \in Writer : Idle(w) /\ ~Written(w) /\ ~Appends(w) /\ op[w].at # "fill"
    BY <1>1 DEF Quiet, Idle, Written, Appends
  <2>2. History = log
    BY <1>1, <2>1, LoadsTheConversation DEF ContextSurvivesRestart, Rewriting
  <2>3. OpenCalls = {}
    <3>1. chat \in Chat => pending[chat] = {}
      BY <1>1 DEF AnswerInv, NoUse, Quiet
    <3>2. {w \in Writer : Appends(w)} = {}
      BY <2>1
    <3>3. UnderWay = {}
      BY <3>2 DEF UnderWay
    <3> QED
      BY <3>1, <3>3 DEF OpenCalls
  <2> QED
    BY <1>1, <2>2, <2>3 DEF AnswerInv, Pairing
<1>2. Inv /\ HistoryInv /\ AnswerInv => CallsAreAnswered
  BY <1>1 DEF CallsAreAnswered, Paired, Answered, OwnResult
<1> QED
  BY <1>2, AnswerHolds, PTL
-----------------------------------------------------------------------------
(* The store implements Transcript.  While all is well, what a writer      *)
(* awaits determines how context, file and acknowledged entries relate.    *)

\* When nothing is awaited they are the same; an entry is in the context first, then
\* on file; so is what a rewrite leaves.
Views ==
  ~damaged /\ ~astray =>
    /\ (\A w \in Writer : Idle(w)) => Context = log
    /\ \A w \in Writer : Appends(w) => Context = Append(log, op[w].id)
    /\ op[Run].mode = "rewrite" => Context = op[Run].ids
    /\ (\A w \in Writer : ~Written(w)) => Stored = log
    /\ \A w \in Writer : Written(w) => Stored = Append(log, op[w].id)

LEMMA KeptIs ==
  ASSUME Inv, Same, ~damaged
  PROVE  /\ (\A w \in Writer : ~Written(w)) => Stored = log
         /\ \A w \in Writer : Written(w) => Stored = Append(log, op[w].id)
<1>1. CASE Rewriting
  <2>1. PICK w \in Writer : op[w].at = "fill"
    BY <1>1 DEF Rewriting
  <2>2. \A v \in Writer : v # w => Idle(v)
    BY <2>1, OneAtATime DEF Same, Idle
  <2>3. \A v \in Writer : ~Written(v)
    BY <2>1, <2>2 DEF Idle, Written
  <2> QED
    BY <1>1, <2>3 DEF Stored
<1>2. CASE ~Rewriting
  <2>1. op[Run].at # "fill"
    BY <1>2, WriterFacts DEF Rewriting
  <2>2. Stored = file.lines
    BY <1>2, <2>1, HistoryIsLines DEF Stored
  <2> QED
    BY <2>1, <2>2 DEF Same, FileAgrees
<1> QED
  BY <1>1, <1>2

LEMMA ContextIs ==
  ASSUME Inv, Same, ~damaged
  PROVE  /\ (\A w \in Writer : Idle(w)) => Context = log
         /\ \A w \in Writer : Appends(w) => Context = Append(log, op[w].id)
         /\ op[Run].mode = "rewrite" => Context = op[Run].ids
<1> DEFINE On == chat \notin holed
                 /\ (run \notin {"none", "finally"} \/ \E w \in Writer : ~Idle(w))
<1>1. Types /\ Refers /\ RunControl /\ MemoryAgrees
  BY DEF Inv, Same
<1>2. ASSUME On
      PROVE  chat \in Chat /\ Live /\ Context = mem[chat].entries
  <2>1. chat \in Chat /\ Live
    <3>1. CASE run \notin {"none", "finally"}
      BY <1>1, <3>1 DEF RunControl, Live
    <3>2. CASE \E w \in Writer : ~Idle(w)
      BY <3>2, OneAtATime DEF Same
    <3> QED
      BY <1>2, <3>1, <3>2
  <2> DEFINE state == mem[chat]
  <2>2. /\ state.entries \in Seq(Nat) /\ Ids(state.entries) \subseteq 1..Len(entries)
        /\ Chained(entries, state.entries) /\ state.leaf = LastOf(state.entries)
    BY <1>1, <1>2, <2>1 DEF Types, StateRecord, Refers, MemoryAgrees
  <2> HIDE DEF state
  <2>3. Path(entries, state) = state.entries
    BY <1>1, <2>2, PathOfChain
  <2> QED
    BY <1>2, <2>1, <2>3 DEF state, Context
<1>3. ASSUME NEW w \in Writer, ~Idle(w)
      PROVE  On
  BY <1>3, OneAtATime DEF Same
<1>4. ~On => Context = Stored
  BY DEF Context
<1> HIDE DEF On
<1>5. ASSUME \A w \in Writer : Idle(w)
      PROVE  Context = log
  <2>1. CASE On
    BY <1>1, <1>2, <1>5, <2>1 DEF MemoryAgrees, On
  <2>2. CASE ~On
    <3>1. \A w \in Writer : ~Written(w)
      BY <1>5 DEF Idle, Written
    <3> QED
      BY <1>4, <2>2, <3>1, KeptIs
  <2> QED
    BY <2>1, <2>2
<1>6. ASSUME NEW w \in Writer, Appends(w)
      PROVE  Context = Append(log, op[w].id)
  BY <1>1, <1>2, <1>3, <1>6 DEF Appends, MemoryAgrees, On
<1>7. ASSUME op[Run].mode = "rewrite"
      PROVE  Context = op[Run].ids
  <2>1. ~Idle(Run)
    BY <1>1, <1>7 DEF RunControl
  <2> QED
    BY <1>1, <1>2, <1>3, <1>7, <2>1, WriterFacts DEF MemoryAgrees, On
<1> QED
  BY <1>5, <1>6, <1>7

LEMMA ViewsHold == Spec => [](Inv /\ HistoryInv /\ Views)
<1>1. Inv /\ HistoryInv => Views
  BY KeptIs, ContextIs DEF HistoryInv, Views
<1> QED
  BY <1>1, HistoryHolds, PTL

\* An entry more, and some entries less.
LEMMA OneMoreFacts ==
  ASSUME NEW seq \in Seq(Nat), NEW id \in Nat
  PROVE  Promise!OneMore(seq, Append(seq, id))
<1>1. /\ Append(seq, id) # <<>> /\ Len(Append(seq, id)) - 1 = Len(seq)
      /\ SubSeq(Append(seq, id), 1, Len(seq)) = seq
  OBVIOUS
<1> QED
  BY <1>1 DEF Promise!OneMore

\* The step is one of Transcript's, or it does not see it.
Step ==
  \/ Promise!Put \/ Promise!Keep \/ Promise!Acknowledge \/ Promise!TakeBack
  \/ Promise!Rewrite \/ Promise!FallBack
  \/ UNCHANGED <<Context, Stored, log>>

LEMMA PutStep ==
  ASSUME Inv, Inv', Same, Views, Views', ~damaged, ~astray, ~damaged', ~astray',
         NEW w \in Writer, AddStep(w)
  PROVE  Promise!Put
<1>1. /\ \A v \in Writer : v # w => Idle(v)
      /\ op[w].at \in {"none", "release"} /\ (op[w].mode = "append" \/ w = Run)
      /\ log' = IF Written(w) THEN Append(log, op[w].id) ELSE log
  BY AddAlone
<1>2. Types /\ Refers /\ RunControl /\ Adds(w) /\ Agent(w) \in Chat /\ Len(entries) + 1 \in Nat
  BY DEF Inv, AddStep, Types
<1>3. /\ op'[w].at = "open" /\ op'[w].mode = "append" /\ op'[w].id = Len(entries) + 1
      /\ \A v \in Writer : v # w => op'[v] = op[v]
  BY <1>2, AddsFacts
<1>4. \A v \in Writer : v # w => ~Written(v)
  BY <1>1 DEF Idle, Written
<1>5. Stored = log' /\ Context = log'
  <2>1. CASE op[w].at = "none"
    <3>1. \A v \in Writer : Idle(v) /\ ~Written(v)
      BY <1>1, <1>4, <2>1 DEF Idle, Written
    <3> QED
      BY <1>1, <3>1 DEF Views
  <2>2. CASE Written(w)
    BY <1>1, <2>2 DEF Views, Appends, Written, Idle
  <2>3. CASE op[w].at = "release" /\ ~Written(w)
    <3>1. w = Run /\ op[Run].mode = "rewrite" /\ \A v \in Writer : ~Written(v)
      BY <1>1, <1>2, <1>4, <2>3 DEF Written, Types, OpRecord
    <3>2. Context = op[Run].ids /\ Stored = log /\ log' = log
      BY <1>1, <3>1 DEF Views
    <3>3. op[Run].ids = log
      BY <2>3, <3>1 DEF Same, FileAgrees
    <3> QED
      BY <3>2, <3>3
  <2> QED
    BY <1>1, <2>1, <2>2, <2>3
<1>6. Appends(w)' /\ \A v \in Writer : ~Written(v)'
  BY <1>3, <1>4 DEF Appends, Idle, Written
<1>7. Context' = Append(log', Len(entries) + 1) /\ Stored' = log'
  BY <1>3, <1>6 DEF Views
<1>8. log' \in Seq(Nat)
  BY DEF Inv, Types
<1>9. Promise!OneMore(log', Append(log', Len(entries) + 1))
  BY <1>2, <1>8, OneMoreFacts
<1> QED
  BY <1>5, <1>7, <1>9 DEF Promise!Put

\* An append is kept by its last write; a rewrite, by its only one.
LEMMA AwaitStep ==
  ASSUME Inv, Same, Same', Views, Views', ~damaged, ~astray, ~damaged', ~astray',
         NEW w \in Writer, Awaiting(w)
  PROVE  Step
<1>1. /\ Types /\ RunControl /\ SubControl /\ ~Idle(w) /\ op[w].at # "release"
      /\ log \in Seq(Nat) /\ op[w].id \in Nat /\ op[w].mode \in {"append", "rewrite"}
  BY DEF Inv, Awaiting, OpenLock, StampLock, InspectLock, RemoveLock, Write, Fill, Idle, Types,
     OpRecord
<1>2. /\ \A v \in Writer : /\ op'[v].mode = op[v].mode /\ op'[v].id = op[v].id
                           /\ op'[v].next = op[v].next /\ Idle(v)' = Idle(v)
      /\ op[Run].mode = "rewrite" => op'[Run].ids = op[Run].ids
      /\ UNCHANGED <<entries, pending, chat, run, excused, holed, astray, damaged>>
  BY <1>1, AwaitGoesOn DEF Awaiting
<1>3. /\ \A v \in Writer : v # w => Idle(v) /\ Idle(v)' /\ ~Written(v) /\ ~Written(v)'
      /\ ~Written(w)
  <2>1. \A v \in Writer : v # w => Idle(v)
    BY <1>1, OneAtATime DEF Same
  <2> QED
    BY <1>1, <1>2, <2>1 DEF Idle, Written
<1>4. Stored = log
  BY <1>3 DEF Views
<1>5. CASE op[w].mode = "append"
  <2>1. Context = Append(log, op[w].id) /\ Appends(w)'
    BY <1>1, <1>2, <1>5 DEF Views, Appends
  <2>2. log' = log
    BY <1>5 DEF Awaiting, OpenLock, StampLock, InspectLock, RemoveLock, Write, Fill, LogOf, facts
  <2>3. Context' = Context
    BY <1>2, <2>1, <2>2 DEF Views
  <2>4. CASE Written(w)'
    <3>1. Stored' = Context
      BY <1>2, <2>1, <2>2, <2>4 DEF Views
    <3>2. Promise!OneMore(Stored, Context)
      BY <1>1, <1>4, <2>1, OneMoreFacts
    <3> QED
      BY <1>4, <2>2, <2>3, <3>1, <3>2 DEF Step, Promise!Keep
  <2>5. CASE ~Written(w)'
    <3>1. Stored' = log'
      BY <1>3, <2>5 DEF Views
    <3> QED
      BY <1>4, <2>2, <2>3, <3>1 DEF Step
  <2> QED
    BY <2>4, <2>5
<1>6. CASE op[w].mode = "rewrite"
  <2>1. w = Run /\ Context = op[Run].ids /\ Context' = Context
    <3>1. w = Run
      BY <1>1, <1>6, WriterFacts DEF SubControl
    <3> QED
      BY <1>2, <1>6, <3>1 DEF Views
  <2>2. Stored' = log'
    <3>1. \A v \in Writer : ~Written(v)'
      BY <1>2, <1>3, <1>6 DEF Written
    <3> QED
      BY <3>1 DEF Views
  <2>3. CASE Fill(w)
    <3>1. Promise!StartOf(Context, log)
      BY <1>1, <1>6, <2>1 DEF Same, FileAgrees, Promise!StartOf
    <3>2. log' = Context'
      <4>1. op'[Run].at = "release" /\ op'[Run].mode = "rewrite"
        BY <1>1, <1>2, <1>6, <2>1, <2>3, GoOnFacts, WriterFacts DEF Fill, OpAt
      <4> QED
        BY <1>2, <1>6, <2>1, <4>1 DEF Same, FileAgrees
    <3> QED
      BY <1>4, <2>1, <2>2, <3>1, <3>2 DEF Step, Promise!Rewrite
  <2>4. CASE ~Fill(w)
    <3>1. log' = log
      BY <2>4 DEF Awaiting, OpenLock, StampLock, InspectLock, RemoveLock, Write, facts
    <3> QED
      BY <1>4, <2>1, <2>2, <3>1 DEF Step
  <2> QED
    BY <2>3, <2>4
<1> QED
  BY <1>1, <1>5, <1>6

\* When nothing is awaited any more.
LEMMA AllIdleThen ==
  ASSUME Views', ~damaged', ~astray', \A v \in Writer : Idle(v)'
  PROVE  Context' = log' /\ Stored' = log'
<1>1. \A v \in Writer : ~Written(v)'
  BY DEF Idle, Written
<1> QED
  BY <1>1 DEF Views

LEMMA EndStep ==
  ASSUME Inv, Same, Views, Views', ~damaged, ~astray, ~damaged', ~astray',
         NEW w \in Writer, Ending(w)
  PROVE  Promise!Acknowledge
<1>1. /\ Types /\ SubControl /\ ~Idle(w) /\ op[w].at = "release" /\ op' = [op EXCEPT ![w] = NoOp]
      /\ log' = IF Written(w) THEN Append(log, op[w].id) ELSE log
  BY DEF Inv, Ending, Release, Idle, Written
<1>2. \A v \in Writer : v # w => Idle(v) /\ ~Written(v)
  BY <1>1, OneAtATime DEF Same, Idle, Written
<1>3. \A v \in Writer : Idle(v)'
  BY <1>1, <1>2 DEF Types, Idle, NoOp
<1>4. Context = log' /\ Stored = log'
  <2>1. CASE Written(w)
    BY <1>1, <2>1 DEF Views, Appends, Written
  <2>2. CASE ~Written(w)
    <3>1. w = Run /\ op[Run].mode = "rewrite"
      BY <1>1, <2>2, WriterFacts DEF Written, SubControl, Types, OpRecord
    <3>2. Context = op[Run].ids /\ Stored = log
      BY <1>2, <2>2, <3>1 DEF Views
    <3>3. op[Run].ids = log
      BY <1>1, <3>1 DEF Same, FileAgrees
    <3> QED
      BY <1>1, <2>2, <3>2, <3>3
  <2> QED
    BY <2>1, <2>2
<1> QED
  BY <1>3, <1>4, AllIdleThen DEF Promise!Acknowledge

LEMMA ThrowStep ==
  ASSUME Inv, Same, Views, Views', ~damaged, ~astray, ~damaged', ~astray',
         NEW w \in Writer, Throw(w)
  PROVE  Promise!FallBack
<1>1. /\ Types /\ ~Idle(w) /\ ~Written(w) /\ op' = [op EXCEPT ![w] = NoOp] /\ log' = log
  BY DEF Inv, Throw, Idle, Written
<1>2. \A v \in Writer : v # w => Idle(v) /\ ~Written(v)
  BY <1>1, OneAtATime DEF Same, Idle, Written
<1>3. \A v \in Writer : Idle(v)'
  BY <1>1, <1>2 DEF Types, Idle, NoOp
<1>4. Stored = log
  BY <1>1, <1>2 DEF Views
<1> QED
  BY <1>1, <1>3, <1>4, AllIdleThen DEF Promise!FallBack

\* A restart takes the entry whose line is on file as acknowledged.
LEMMA CrashStep ==
  ASSUME Inv, Same, Views, Views', ~damaged, ~astray, ~damaged', ~astray', Crash
  PROVE  Promise!Acknowledge \/ Promise!FallBack
<1>1. \A v \in Writer : Idle(v)'
  BY DEF Crash, Idle, NoOp
<1>2. Context' = log' /\ Stored' = log'
  BY <1>1, AllIdleThen
<1>3. CASE \E w \in Writer : Written(w) /\ log' = Append(log, op[w].id)
  <2>1. PICK w \in Writer : Written(w) /\ log' = Append(log, op[w].id)
    BY <1>3
  <2>2. Context = log' /\ Stored = log'
    BY <2>1 DEF Views, Appends, Written, Idle
  <2> QED
    BY <1>2, <2>2 DEF Promise!Acknowledge
<1>4. CASE (\A w \in Writer : ~Written(w)) /\ log' = log
  <2>1. Stored = log
    BY <1>4 DEF Views
  <2> QED
    BY <1>2, <1>4, <2>1 DEF Promise!FallBack
<1>5. CASE (\E w \in Writer : op[w].at = "fill") /\ log' = log
  <2>1. PICK w \in Writer : op[w].at = "fill"
    BY <1>5
  <2>2. \A v \in Writer : v # w => Idle(v)
    BY <2>1, OneAtATime DEF Same, Idle
  <2>3. \A v \in Writer : ~Written(v)
    BY <2>1, <2>2 DEF Idle, Written
  <2> QED
    BY <1>4, <1>5, <2>3
<1> QED
  BY <1>3, <1>4, <1>5 DEF Crash

LEMMA RunStep ==
  ASSUME Inv, Same, FreshChats, Views, Views', ~damaged, ~astray, ~damaged', ~astray',
         StartChat \/ Regenerate
  PROVE  Step
<1>1. /\ log' = log /\ Types /\ RunControl
      /\ \A w \in Writer : Idle(w) /\ ~Written(w)
  BY WriterFacts, RegenerateKeeps DEF Inv, StartChat, Regenerate, facts, Idle, Written
<1>2. Context = log /\ Stored = log
  BY <1>1 DEF Views
<1>3. CASE op' = op
  <2>1. \A w \in Writer : Idle(w)'
    BY <1>1, <1>3 DEF Idle
  <2> QED
    BY <1>1, <1>2, <2>1, AllIdleThen DEF Step
<1>4. CASE \E k \in 0..Len(log) :
             op' = [op EXCEPT ![Run] = Opened("rewrite", Null, SubSeq(log, 1, k), "none")]
  <2>1. PICK k \in 0..Len(log) :
             op' = [op EXCEPT ![Run] = Opened("rewrite", Null, SubSeq(log, 1, k), "none")]
    BY <1>4
  <2> DEFINE start == SubSeq(log, 1, k)
  <2>2. Promise!StartOf(start, log)
    BY DEF Promise!StartOf
  <2> HIDE DEF start
  <2>3. /\ op'[Run].mode = "rewrite" /\ op'[Run].ids = start
        /\ \A w \in Writer : w # Run => op'[w] = op[w]
    BY <1>1, <2>1, WriterFacts DEF Types, Opened, start
  <2>4. \A w \in Writer : ~Written(w)'
    BY <1>1, <2>3 DEF Written
  <2>5. Context' = start /\ Stored' = log
    BY <1>1, <2>3, <2>4 DEF Views
  <2> QED
    BY <1>1, <1>2, <2>2, <2>5 DEF Step, Promise!TakeBack
<1>5. Regenerate => (op' = op \/ \E k \in 0..Len(log) :
             op' = [op EXCEPT ![Run] = Opened("rewrite", Null, SubSeq(log, 1, k), "none")])
  BY RegenerateKeeps
<1>6. StartChat => op' = op
  BY DEF StartChat
<1> QED
  BY <1>3, <1>4, <1>5, <1>6

LEMMA MoveStep ==
  ASSUME Inv, Same, Views, Views', ~damaged, ~astray, ~damaged', ~astray', Moving
  PROVE  UNCHANGED <<Context, Stored, log>>
<1>1. op' = op /\ log' = log
  BY DEF Moving, Spawn, LoopEnds, Finally, vars, facts
<1>2. \A w \in Writer : Idle(w)' = Idle(w) /\ Written(w)' = Written(w) /\ Appends(w)' = Appends(w)
  BY <1>1 DEF Idle, Written, Appends
<1>3. Stored' = Stored
  BY <1>1, <1>2 DEF Views
<1>4. CASE \A w \in Writer : Idle(w)
  BY <1>1, <1>2, <1>4 DEF Views
<1>5. CASE \E w \in Writer : ~Idle(w)
  <2>1. PICK w \in Writer : ~Idle(w)
    BY <1>5
  <2>2. Appends(w) \/ op[Run].mode = "rewrite"
    BY <2>1, WriterFacts DEF Appends, Inv, SubControl, Types, OpRecord
  <2> QED
    BY <1>1, <1>2, <1>3, <2>2 DEF Views
<1> QED
  BY <1>1, <1>3, <1>4, <1>5

LEMMA TranscriptStep ==
  ASSUME Inv, HistoryInv, AnswerInv, Views, Inv', HistoryInv', AnswerInv', Views', [Next]_vars
  PROVE  [Promise!TranscriptNext]_(Promise!transcriptVars)
<1>1. damaged \in BOOLEAN /\ astray \in BOOLEAN /\ damaged' \in BOOLEAN /\ astray' \in BOOLEAN
  BY DEF Inv, Types
<1>2. CASE damaged' \/ astray'
  BY <1>1, <1>2 DEF Promise!TranscriptNext
<1>3. CASE ~damaged' /\ ~astray'
  <2>1. /\ ~damaged /\ ~astray /\ Same /\ Same' /\ FreshChats /\ ResultsAnswer /\ NoUse
    BY <1>3, WasWell DEF HistoryInv, AnswerInv
  <2>2. Step
    <3>1. CASE \E w \in Writer : Adding(w)
      BY <1>3, <2>1, <3>1, PutStep DEF Adding, Step
    <3>2. CASE \E w \in Writer : Awaiting(w)
      BY <1>3, <2>1, <3>2, AwaitStep
    <3>3. CASE \E w \in Writer : Ending(w) \/ Throw(w)
      BY <1>3, <2>1, <3>3, EndStep, ThrowStep DEF Step
    <3>4. CASE StartChat \/ Regenerate
      BY <1>3, <2>1, <3>4, RunStep
    <3>5. CASE Moving \/ Crash
      BY <1>3, <2>1, <3>5, MoveStep, CrashStep DEF Step
    <3> QED
      BY <2>1, <3>1, <3>2, <3>3, <3>4, <3>5, StepKinds
  <2>3. (damaged \/ astray) = FALSE /\ (damaged' \/ astray') = FALSE
    BY <1>3, <2>1
  <2> QED
    BY <2>2, <2>3 DEF Step, Promise!TranscriptNext, Promise!transcriptVars
<1> QED
  BY <1>2, <1>3

\* SessionManager keeps the promise of Transcript, for every number of chats,
\* entries, subagents, failures and crashes: each entry is in the context first, on
\* file next and acknowledged last, before the next one is put; entries are taken
\* back from the end only; and after a failed append, a failed rewrite or a restart
\* the chat goes on from what is on file.
THEOREM StoreKeepsItsPromise == Spec => ImplementsTranscript
<1>1. Init /\ Views => Promise!TranscriptInit
  <2>1. ASSUME Init, Views PROVE Promise!TranscriptInit
    <3>1. /\ log = <<>> /\ damaged = FALSE /\ astray = FALSE
          /\ \A w \in Writer : Idle(w) /\ ~Written(w)
      BY <2>1 DEF Init, Idle, Written, NoOp
    <3>2. Context = <<>> /\ Stored = <<>>
      BY <2>1, <3>1 DEF Views
    <3> QED
      BY <3>1, <3>2 DEF Promise!TranscriptInit
  <2> QED
    BY <2>1
<1> DEFINE I == Inv /\ HistoryInv /\ AnswerInv /\ Views
<1>2. Spec => []I
  BY AnswerHolds, ViewsHold, PTL
<1>3. I /\ I' /\ [Next]_vars => [Promise!TranscriptNext]_(Promise!transcriptVars)
  BY TranscriptStep
<1>4. I => Views
  OBVIOUS
<1> HIDE DEF I
<1> QED
  BY <1>1, <1>2, <1>3, <1>4, PTL DEF Spec, ImplementsTranscript, Promise!TranscriptSpec
=============================================================================
