-------------------------- MODULE SchemaBuildProofs --------------------------
(***************************************************************************)
(* Proofs about SchemaBuild for any number of starts.  What the rebuild    *)
(* relies on is the order of its statements (Ordered), which holds of each *)
(* build function and is kept by putting scripts of different schemas one  *)
(* after the other; the rest of the argument knows nothing else of the 70  *)
(* statements.                                                             *)
(***************************************************************************)
EXTENDS SchemaBuild, SequenceTheorems, TLAPS

Names == {""} \cup UNION {{TablesOf(s)[i] : i \in 1..Len(TablesOf(s))} : s \in Schemas}
Statements ==
  [op : {"drop", "schema", "table", "version"}, schema : Schemas, table : Names]

\* No statement is repeated, a drop comes first of what concerns its schema,
\* and what a statement needs comes before it.
Ordered(q) ==
  \A k \in 1..Len(q) :
    /\ \A j \in 1..(k - 1) : q[j] # q[k]
    /\ q[k].op = "drop" => \A j \in 1..(k - 1) : q[j].schema # q[k].schema
    /\ q[k].op \in {"schema", "table"} => \E j \in 1..(k - 1) : q[j] = Drop(q[k].schema)
    /\ q[k].op = "table" => \E j \in 1..(k - 1) : q[j] = Create(q[k].schema)
    /\ q[k].op = "version" =>
         \E j \in 1..(k - 1) : q[j] = CreateTable(<<q[k].schema, q[k].table>>)

Items(q) == {q[k] : k \in 1..Len(q)}

\* Every statement is about one of these schemas.
About(q, S) == \A k \in 1..Len(q) : q[k].schema \in S

LEMMA Fields ==
  /\ \A s : /\ Drop(s).op = "drop" /\ Drop(s).schema = s
            /\ Create(s).op = "schema" /\ Create(s).schema = s
  /\ \A t : /\ CreateTable(t).op = "table"
            /\ CreateTable(t).schema = t[1] /\ CreateTable(t).table = t[2]
BY DEF Drop, Create, CreateTable, Statement

LEMMA OrderedConcat ==
  ASSUME NEW p \in Seq(Statements), NEW q \in Seq(Statements), NEW S, NEW T,
         Ordered(p), Ordered(q), About(p, S), About(q, T), S \cap T = {}
  PROVE  /\ p \o q \in Seq(Statements)
         /\ Ordered(p \o q)
         /\ About(p \o q, S \cup T)
         /\ Items(p \o q) = Items(p) \cup Items(q)
<1> DEFINE r == p \o q
<1>1. /\ r \in Seq(Statements)
      /\ Len(r) = Len(p) + Len(q)
      /\ Len(p) \in Nat /\ Len(q) \in Nat
      /\ \A i \in 1..(Len(p) + Len(q)) : r[i] = IF i <= Len(p) THEN p[i] ELSE q[i - Len(p)]
  BY ConcatProperties, LenProperties
<1> HIDE DEF r
<1>2. \A k \in 1..Len(p) : k \in 1..Len(r) /\ r[k] = p[k]
  BY <1>1
<1>3. ASSUME NEW k \in 1..Len(q) PROVE Len(p) + k \in 1..Len(r) /\ r[Len(p) + k] = q[k]
  <2>1. /\ Len(p) + k \in 1..(Len(p) + Len(q))
        /\ ~(Len(p) + k <= Len(p))
        /\ (Len(p) + k) - Len(p) = k
    BY <1>1
  <2>2. QED
    BY <1>1, <2>1
<1>4. \A k \in 1..Len(r) : k \in 1..Len(p) \/ \E i \in 1..Len(q) : k = Len(p) + i
  <2>1. ASSUME NEW k \in 1..Len(r), k > Len(p) PROVE k - Len(p) \in 1..Len(q)
    BY <1>1, <2>1
  <2>2. QED
    BY <1>1, <2>1
<1>5. About(r, S \cup T)
  BY <1>2, <1>3, <1>4 DEF About
<1>6. Ordered(r)
  <2> SUFFICES ASSUME NEW k \in 1..Len(r)
               PROVE  /\ \A j \in 1..(k - 1) : r[j] # r[k]
                      /\ r[k].op = "drop" => \A j \in 1..(k - 1) : r[j].schema # r[k].schema
                      /\ r[k].op \in {"schema", "table"} =>
                           \E j \in 1..(k - 1) : r[j] = Drop(r[k].schema)
                      /\ r[k].op = "table" => \E j \in 1..(k - 1) : r[j] = Create(r[k].schema)
                      /\ r[k].op = "version" =>
                           \E j \in 1..(k - 1) : r[j] = CreateTable(<<r[k].schema, r[k].table>>)
    BY DEF Ordered
  <2>1. CASE k \in 1..Len(p)
    <3>1. r[k] = p[k] /\ \A j \in 1..(k - 1) : j \in 1..Len(p) /\ r[j] = p[j]
      BY <1>1, <1>2, <2>1
    <3>2. /\ \A j \in 1..(k - 1) : p[j] # p[k]
          /\ p[k].op = "drop" => \A j \in 1..(k - 1) : p[j].schema # p[k].schema
          /\ p[k].op \in {"schema", "table"} =>
               \E j \in 1..(k - 1) : p[j] = Drop(p[k].schema)
          /\ p[k].op = "table" => \E j \in 1..(k - 1) : p[j] = Create(p[k].schema)
          /\ p[k].op = "version" =>
               \E j \in 1..(k - 1) : p[j] = CreateTable(<<p[k].schema, p[k].table>>)
      BY <2>1 DEF Ordered
    <3>3. /\ \A j \in 1..(k - 1) : r[j] # r[k]
          /\ r[k].op = "drop" => \A j \in 1..(k - 1) : r[j].schema # r[k].schema
      BY <3>1, <3>2
    <3>4. QED
      BY <3>1, <3>2, <3>3, Zenon
  <2>2. ASSUME NEW i \in 1..Len(q), k = Len(p) + i
        PROVE  /\ r[k] = q[i]
               /\ \A j \in 1..(i - 1) : Len(p) + j \in 1..(k - 1) /\ r[Len(p) + j] = q[j]
               /\ \A j \in 1..(k - 1) : \/ r[j].schema \in S /\ q[i].schema \in T
                                        \/ \E l \in 1..(i - 1) : r[j] = q[l]
    <3>1. r[k] = q[i] /\ q[i].schema \in T
      BY <1>3, <2>2 DEF About
    <3>2. \A j \in 1..(i - 1) : Len(p) + j \in 1..(k - 1) /\ r[Len(p) + j] = q[j]
      BY <1>1, <1>3, <2>2
    <3>3. ASSUME NEW j \in 1..(k - 1)
          PROVE  \/ r[j].schema \in S /\ q[i].schema \in T
                 \/ \E l \in 1..(i - 1) : r[j] = q[l]
      <4>1. CASE j \in 1..Len(p)
        BY <1>2, <3>1, <4>1 DEF About
      <4>2. CASE j > Len(p)
        <5>1. j - Len(p) \in 1..(i - 1) /\ Len(p) + (j - Len(p)) = j
          BY <1>1, <2>2, <4>2
        <5>2. QED
          BY <3>2, <5>1
      <4>3. QED
        BY <1>1, <4>1, <4>2
    <3>4. QED
      BY <3>1, <3>2, <3>3
  <2>3. ASSUME NEW i \in 1..Len(q), k = Len(p) + i
        PROVE  /\ \A j \in 1..(i - 1) : q[j] # q[i]
               /\ q[i].op = "drop" => \A j \in 1..(i - 1) : q[j].schema # q[i].schema
               /\ q[i].op \in {"schema", "table"} =>
                    \E j \in 1..(i - 1) : q[j] = Drop(q[i].schema)
               /\ q[i].op = "table" => \E j \in 1..(i - 1) : q[j] = Create(q[i].schema)
               /\ q[i].op = "version" =>
                    \E j \in 1..(i - 1) : q[j] = CreateTable(<<q[i].schema, q[i].table>>)
    BY DEF Ordered
  <2>4. CASE k \notin 1..Len(p)
    <3>1. PICK i \in 1..Len(q) : k = Len(p) + i
      BY <1>4, <2>4
    <3>2. /\ r[k] = q[i]
          /\ \A j \in 1..(i - 1) : Len(p) + j \in 1..(k - 1) /\ r[Len(p) + j] = q[j]
          /\ \A j \in 1..(k - 1) : \/ r[j].schema \in S /\ q[i].schema \in T
                                   \/ \E l \in 1..(i - 1) : r[j] = q[l]
      BY <2>2, <3>1
    <3>3. /\ \A j \in 1..(i - 1) : q[j] # q[i]
          /\ q[i].op = "drop" => \A j \in 1..(i - 1) : q[j].schema # q[i].schema
          /\ q[i].op \in {"schema", "table"} =>
               \E j \in 1..(i - 1) : q[j] = Drop(q[i].schema)
          /\ q[i].op = "table" => \E j \in 1..(i - 1) : q[j] = Create(q[i].schema)
          /\ q[i].op = "version" =>
               \E j \in 1..(i - 1) : q[j] = CreateTable(<<q[i].schema, q[i].table>>)
      BY <2>3, <3>1
    <3>4. ASSUME NEW j \in 1..(k - 1)
          PROVE  r[j] # r[k] /\ (r[k].op = "drop" => r[j].schema # r[k].schema)
      <4>1. CASE r[j].schema \in S /\ q[i].schema \in T
        BY <3>2, <4>1
      <4>2. ASSUME NEW l \in 1..(i - 1), r[j] = q[l]
            PROVE  r[j] # r[k] /\ (r[k].op = "drop" => r[j].schema # r[k].schema)
        BY <3>2, <3>3, <4>2
      <4>3. QED
        BY <3>2, <4>1, <4>2
    <3>5. /\ r[k].op \in {"schema", "table"} =>
               \E j \in 1..(k - 1) : r[j] = Drop(r[k].schema)
          /\ r[k].op = "table" => \E j \in 1..(k - 1) : r[j] = Create(r[k].schema)
          /\ r[k].op = "version" =>
               \E j \in 1..(k - 1) : r[j] = CreateTable(<<r[k].schema, r[k].table>>)
      BY <3>2, <3>3, Zenon
    <3>6. QED
      BY <3>4, <3>5
  <2>5. QED
    BY <2>1, <2>4
<1>7. Items(r) = Items(p) \cup Items(q)
  <2>1. Items(p) \subseteq Items(r)
    BY <1>2 DEF Items
  <2>2. Items(q) \subseteq Items(r)
    BY <1>3 DEF Items
  <2>3. ASSUME NEW k \in 1..Len(r) PROVE r[k] \in Items(p) \cup Items(q)
    <3>1. CASE k \in 1..Len(p)
      BY <1>2, <3>1 DEF Items
    <3>2. ASSUME NEW i \in 1..Len(q), k = Len(p) + i PROVE r[k] \in Items(q)
      BY <1>3, <3>2 DEF Items
    <3>3. QED
      BY <1>4, <3>1, <3>2
  <2>4. QED
    BY <2>1, <2>2, <2>3 DEF Items
<1>8. QED
  BY <1>1, <1>5, <1>6, <1>7 DEF r

(***************************************************************************)
(* One build function                                                      *)
(***************************************************************************)

NamesOnce(f) ==
  /\ Len(f) \in Nat
  /\ f \in [1..Len(f) -> Names]
  /\ \A i, j \in 1..Len(f) : i # j => f[i] # f[j]

LEMMA ListOfNames ==
  ASSUME NEW s \in Schemas, NEW f, NEW n \in Nat, TablesOf(s) = f,
         Len(f) = n, f = [i \in 1..n |-> f[i]],
         \A i, j \in 1..n : i # j => f[i] # f[j]
  PROVE  NamesOnce(TablesOf(s))
<1>1. ASSUME NEW i \in 1..n PROVE f[i] \in Names
  <2>1. f[i] \in {TablesOf(s)[j] : j \in 1..Len(TablesOf(s))}
    OBVIOUS
  <2>2. {TablesOf(s)[j] : j \in 1..Len(TablesOf(s))} \in
          {{TablesOf(t)[j] : j \in 1..Len(TablesOf(t))} : t \in Schemas}
    OBVIOUS
  <2>3. QED
    BY <2>1, <2>2, Zenon DEF Names
<1>2. QED
  BY <1>1 DEF NamesOnce

LEMMA TablesDistinct ==
  ASSUME NEW s \in Schemas
  PROVE  NamesOnce(TablesOf(s))
<1>1. CASE s = "GENERAL"
  <2>1. TablesOf(s) = GeneralTables
    BY <1>1 DEF TablesOf
  <2>2. /\ Len(GeneralTables) = 1
        /\ GeneralTables = [i \in 1..1 |-> GeneralTables[i]]
        /\ \A i, j \in 1..1 : i = j
    BY DEF GeneralTables
  <2>3. 1 \in Nat
    OBVIOUS
  <2>4. QED
    BY <2>1, <2>2, <2>3, ListOfNames, Zenon
<1>2. CASE s = "RESOURCE"
  <2>1. TablesOf(s) = ResourceTables
    BY <1>2 DEF TablesOf
  <2>2. /\ Len(ResourceTables) = 3
        /\ ResourceTables = [i \in 1..3 |-> ResourceTables[i]]
        /\ \A i, j \in 1..3 : i # j => ResourceTables[i] # ResourceTables[j]
    BY DEF ResourceTables
  <2>3. QED
    BY <2>1, <2>2, ListOfNames
<1>3. CASE s = "STATE"
  <2>1. TablesOf(s) = StateTables
    BY <1>3 DEF TablesOf
  <2>2. /\ Len(StateTables) = 9
        /\ StateTables = [i \in 1..9 |-> StateTables[i]]
        /\ \A i, j \in 1..9 : i # j => StateTables[i] # StateTables[j]
    BY DEF StateTables
  <2>3. QED
    BY <2>1, <2>2, ListOfNames
<1>4. CASE s = "DATA"
  <2>1. TablesOf(s) = DataTables
    BY <1>4 DEF TablesOf
  <2>2. Len(DataTables) = 48 /\ DataTables = [i \in 1..48 |-> DataTables[i]]
    BY SMTT(60) DEF DataTables
  <2>3. \A i, j \in 1..48 : i # j => DataTables[i] # DataTables[j]
    BY SMTT(60) DEF DataTables
  <2>4. PICK n \in Nat : n = 48
    OBVIOUS
  <2>5. /\ Len(DataTables) = n /\ DataTables = [i \in 1..n |-> DataTables[i]]
        /\ \A i, j \in 1..n : i # j => DataTables[i] # DataTables[j]
    BY <2>2, <2>3, <2>4, Zenon
  <2>6. QED
    BY <2>1, <2>5, ListOfNames
<1>5. QED
  BY <1>1, <1>2, <1>3, <1>4 DEF Schemas

LEMMA ShortSeqs ==
  ASSUME NEW S, NEW a \in S, NEW b \in S
  PROVE  <<>> \in Seq(S) /\ <<a>> \in Seq(S) /\ <<a, b>> \in Seq(S)
<1>1. <<>> \in Seq(S)
  BY EmptySeq
<1>2. <<a>> = [i \in 1..1 |-> a]
  OBVIOUS
<1>3. <<a, b>> = [i \in 1..2 |-> IF i = 1 THEN a ELSE b]
  OBVIOUS
<1>4. <<a>> \in [1..1 -> S] /\ <<a, b>> \in [1..2 -> S]
  BY <1>2, <1>3
<1>5. 1 \in Nat /\ 2 \in Nat
  OBVIOUS
<1>6. QED
  BY <1>1, <1>4, <1>5, SeqDef

\* The two statements with which every build function begins, and what is
\* left to do at its end.
Version == Statement("version", "GENERAL", "META")
Begin(s) == <<Drop(s), Create(s)>>
End(s) == IF s = "GENERAL" THEN <<Version>> ELSE <<>>
Ends(s) == IF s = "GENERAL" THEN 1 ELSE 0

LEMMA ScriptShape ==
  ASSUME NEW s \in Schemas
  PROVE  LET n == Len(TablesOf(s)) IN
         /\ n \in Nat
         /\ Script(s) \in Seq(Statements)
         /\ Len(Script(s)) = 2 + n + Ends(s)
         /\ Script(s)[1] = Drop(s)
         /\ Script(s)[2] = Create(s)
         /\ \A i \in 1..n : Script(s)[2 + i] = CreateTable(<<s, TablesOf(s)[i]>>)
         /\ s = "GENERAL" => Script(s)[3 + n] = Version
<1> DEFINE T == TablesOf(s)
           n == Len(T)
           c == CreateTables(s)
           p == Begin(s) \o c
<1>1. n \in Nat /\ T \in [1..n -> Names] /\ \A i, j \in 1..n : i # j => T[i] # T[j]
  BY TablesDistinct DEF NamesOnce
<1>2. DOMAIN T = 1..n
  BY <1>1
<1>3. c = [i \in 1..n |-> CreateTable(<<s, T[i]>>)]
  BY <1>2 DEF CreateTables, CreateTable
<1>4. c \in Seq(Statements) /\ Len(c) = n
  <2>1. \A i \in 1..n : CreateTable(<<s, T[i]>>) \in Statements
    BY <1>1 DEF CreateTable, Statement, Statements
  <2> HIDE DEF T, n, c
  <2>2. c \in [1..n -> Statements]
    BY <1>3, <2>1
  <2>3. c \in Seq(Statements)
    BY <1>1, <2>2, SeqDef
  <2>4. QED
    BY <1>1, <2>2, <2>3, LenProperties
<1>5. /\ Begin(s) \in Seq(Statements) /\ Len(Begin(s)) = 2
      /\ Begin(s)[1] = Drop(s) /\ Begin(s)[2] = Create(s)
  <2>1. Drop(s) \in Statements /\ Create(s) \in Statements
    BY DEF Drop, Create, Statement, Statements, Names
  <2>2. QED
    BY <2>1, ShortSeqs DEF Begin
<1>6. /\ End(s) \in Seq(Statements) /\ Len(End(s)) = Ends(s)
      /\ s = "GENERAL" => End(s)[1] = Version
  <2>1. CASE s = "GENERAL"
    <3>1. TablesOf("GENERAL")[1] = "META" /\ Len(TablesOf("GENERAL")) = 1
      BY DEF TablesOf, GeneralTables
    <3>2. "META" \in {TablesOf(s)[j] : j \in 1..Len(TablesOf(s))}
      BY <2>1, <3>1
    <3>3. "META" \in Names
      BY <3>2 DEF Names
    <3>4. Version \in Statements
      BY <2>1, <3>3 DEF Version, Statement, Statements
    <3>5. QED
      BY <2>1, <3>4, ShortSeqs DEF End, Ends
  <2>2. CASE s # "GENERAL"
    BY <2>2, EmptySeq DEF End, Ends
  <2>3. QED
    BY <2>1, <2>2
<1>7. Script(s) = p \o End(s)
  BY DEF Script, Begin, End, Version, Drop, Create
<1> HIDE DEF T, n, c
<1>8. /\ p \in Seq(Statements) /\ Len(p) = 2 + n
      /\ p[1] = Drop(s) /\ p[2] = Create(s)
      /\ \A i \in 1..n : p[2 + i] = CreateTable(<<s, T[i]>>)
  <2>0. /\ p \in Seq(Statements) /\ Len(p) = Len(Begin(s)) + Len(c)
        /\ \A i \in 1..(Len(Begin(s)) + Len(c)) :
             p[i] = IF i <= Len(Begin(s)) THEN Begin(s)[i] ELSE c[i - Len(Begin(s))]
    BY <1>4, <1>5, ConcatProperties, Zenon
  <2> HIDE DEF p
  <2>1. /\ p \in Seq(Statements) /\ Len(p) = 2 + n
        /\ \A i \in 1..(2 + n) : p[i] = IF i <= 2 THEN Begin(s)[i] ELSE c[i - 2]
    BY <1>4, <1>5, <2>0
  <2>2. p[1] = Begin(s)[1] /\ p[2] = Begin(s)[2]
    BY <1>1, <2>1
  <2>3. ASSUME NEW i \in 1..n PROVE p[2 + i] = CreateTable(<<s, T[i]>>)
    <3>1. 2 + i \in 1..(2 + n) /\ ~(2 + i <= 2) /\ (2 + i) - 2 = i
      BY <1>1
    <3>2. QED
      BY <1>3, <2>1, <3>1
  <2>4. QED
    BY <1>5, <2>1, <2>2, <2>3
<1> HIDE DEF p
<1>9. /\ Script(s) \in Seq(Statements) /\ Len(Script(s)) = 2 + n + Ends(s)
      /\ \A i \in 1..(2 + n + Ends(s)) :
           Script(s)[i] = IF i <= 2 + n THEN p[i] ELSE End(s)[i - (2 + n)]
  <2>1. /\ p \o End(s) \in Seq(Statements)
        /\ Len(p \o End(s)) = Len(p) + Len(End(s))
        /\ \A i \in 1..(Len(p) + Len(End(s))) :
             (p \o End(s))[i] = IF i <= Len(p) THEN p[i] ELSE End(s)[i - Len(p)]
    BY <1>6, <1>8, ConcatProperties, Zenon
  <2>2. /\ Script(s) \in Seq(Statements) /\ Len(Script(s)) = Len(p) + Len(End(s))
        /\ \A i \in 1..(Len(p) + Len(End(s))) :
             Script(s)[i] = IF i <= Len(p) THEN p[i] ELSE End(s)[i - Len(p)]
    BY <1>7, <2>1
  <2>3. QED
    BY <1>6, <1>8, <2>2
<1>10. Ends(s) \in Nat /\ (s = "GENERAL" => Ends(s) = 1)
  BY DEF Ends
<1>11. \A i \in 1..(2 + n) : Script(s)[i] = p[i]
  BY <1>1, <1>9, <1>10
<1>12. s = "GENERAL" => Script(s)[3 + n] = Version
  <2> SUFFICES ASSUME s = "GENERAL" PROVE Script(s)[3 + n] = Version
    OBVIOUS
  <2>1. (3 + n) - (2 + n) = 1 /\ ~(3 + n <= 2 + n)
    BY <1>1
  <2>2. 3 + n \in 1..(2 + n + Ends(s))
    BY <1>1, <1>10
  <2>3. Script(s)[3 + n] = End(s)[(3 + n) - (2 + n)]
    BY <1>9, <2>1, <2>2
  <2>4. QED
    BY <1>6, <2>1, <2>3
<1>13. Script(s)[1] = Drop(s) /\ Script(s)[2] = Create(s)
  BY <1>1, <1>8, <1>11
<1>14. \A i \in 1..n : Script(s)[2 + i] = CreateTable(<<s, T[i]>>)
  BY <1>1, <1>8, <1>11
<1>15. QED
  BY <1>1, <1>9, <1>12, <1>13, <1>14 DEF n, T

\* What the build function of a schema executes.
StatementsOf(s) ==
  {Drop(s), Create(s)}
    \cup {CreateTable(<<s, TablesOf(s)[i]>>) : i \in 1..Len(TablesOf(s))}
    \cup (IF s = "GENERAL" THEN {Version} ELSE {})

LEMMA ScriptOrdered ==
  ASSUME NEW s \in Schemas
  PROVE  /\ Script(s) \in Seq(Statements)
         /\ Ordered(Script(s))
         /\ About(Script(s), {s})
         /\ Items(Script(s)) = StatementsOf(s)
<1> DEFINE T == TablesOf(s)
           n == Len(T)
           q == Script(s)
<1>1. n \in Nat /\ \A i, j \in 1..n : i # j => T[i] # T[j]
  BY TablesDistinct DEF NamesOnce
<1>2. /\ q \in Seq(Statements)
      /\ Len(q) = 2 + n + Ends(s)
      /\ q[1] = Drop(s) /\ q[2] = Create(s)
      /\ \A i \in 1..n : q[2 + i] = CreateTable(<<s, T[i]>>)
      /\ s = "GENERAL" => q[3 + n] = Version
  BY ScriptShape
<1>3. s = "GENERAL" => n = 1 /\ T[1] = "META"
  BY DEF TablesOf, GeneralTables
<1> HIDE DEF T, n, q
<1>4. /\ q[1].op = "drop" /\ q[1].schema = s
      /\ q[2].op = "schema" /\ q[2].schema = s
      /\ \A i \in 1..n : /\ q[2 + i].op = "table" /\ q[2 + i].schema = s
                         /\ q[2 + i].table = T[i]
      /\ s = "GENERAL" => q[3 + n].op = "version" /\ q[3 + n].schema = s
                          /\ q[3 + n].table = "META"
  <2>1. ASSUME NEW i \in 1..n
        PROVE q[2 + i].op = "table" /\ q[2 + i].schema = s /\ q[2 + i].table = T[i]
    <3>1. q[2 + i] = CreateTable(<<s, T[i]>>)
      BY <1>2
    <3>2. QED
      BY <3>1, Fields
  <2>2. q[1].op = "drop" /\ q[1].schema = s /\ q[2].op = "schema" /\ q[2].schema = s
    BY <1>2, Fields
  <2>3. ASSUME s = "GENERAL"
        PROVE q[3 + n].op = "version" /\ q[3 + n].schema = s /\ q[3 + n].table = "META"
    BY <1>2, <2>3 DEF Version, Statement
  <2>4. QED
    BY <2>1, <2>2, <2>3
<1>5. ASSUME NEW k \in 1..Len(q)
      PROVE  \/ k = 1 \/ k = 2 \/ (k > 2 /\ k - 2 \in 1..n /\ k = 2 + (k - 2))
             \/ (s = "GENERAL" /\ k = 3 + n)
  BY <1>1, <1>2 DEF Ends
<1>6. About(q, {s})
  BY <1>4, <1>5 DEF About
<1>7. ASSUME NEW k \in 1..Len(q), NEW j \in 1..(k - 1) PROVE q[j] # q[k]
  <2>1. CASE k = 2
    BY <1>4, <2>1
  <2>2. CASE k > 2 /\ k - 2 \in 1..n
    <3>1. q[k].op = "table" /\ q[k].table = T[k - 2]
      BY <1>4, <1>5, <2>2
    <3>2. CASE j \in {1, 2}
      BY <1>4, <3>1, <3>2
    <3>3. CASE j > 2
      <4>1. j - 2 \in 1..n /\ j = 2 + (j - 2) /\ j - 2 # k - 2
        BY <1>1, <2>2, <3>3
      <4>2. q[j].table = T[j - 2]
        BY <1>4, <4>1
      <4>3. QED
        BY <1>1, <2>2, <3>1, <4>1, <4>2
    <3>4. QED
      BY <3>2, <3>3
  <2>3. CASE s = "GENERAL" /\ k = 3 + n
    <3>1. q[k].op = "version"
      BY <1>4, <2>3
    <3>2. j \in 1..Len(q) /\ j # 3 + n
      BY <1>1, <1>2, <2>3
    <3>3. q[j].op # "version"
      BY <1>4, <1>5, <3>2
    <3>4. QED
      BY <3>1, <3>3
  <2>4. CASE k = 1
    BY <2>4
  <2>5. QED
    BY <1>5, <2>1, <2>2, <2>3, <2>4
<1>8. ASSUME NEW k \in 1..Len(q)
      PROVE  /\ q[k].op = "drop" => \A j \in 1..(k - 1) : q[j].schema # q[k].schema
             /\ q[k].op \in {"schema", "table"} =>
                  \E j \in 1..(k - 1) : q[j] = Drop(q[k].schema)
             /\ q[k].op = "table" => \E j \in 1..(k - 1) : q[j] = Create(q[k].schema)
             /\ q[k].op = "version" =>
                  \E j \in 1..(k - 1) : q[j] = CreateTable(<<q[k].schema, q[k].table>>)
  <2>1. CASE k = 1
    BY <1>4, <2>1
  <2>2. CASE k = 2
    <3>1. 1 \in 1..(k - 1)
      BY <2>2
    <3>2. QED
      BY <1>2, <1>4, <2>2, <3>1
  <2>3. CASE k > 2 /\ k - 2 \in 1..n
    <3>1. 1 \in 1..(k - 1) /\ 2 \in 1..(k - 1)
      BY <2>3
    <3>2. q[k].op = "table" /\ q[k].schema = s
      BY <1>4, <1>5, <2>3
    <3>3. QED
      BY <1>2, <3>1, <3>2
  <2>4. CASE s = "GENERAL" /\ k = 3 + n
    <3>1. n = 1 /\ T[1] = "META" /\ k = 4
      BY <1>3, <2>4
    <3>2. q[k].op = "version" /\ q[k].schema = s /\ q[k].table = "META"
      BY <1>4, <2>4
    <3>3. q[2 + 1] = CreateTable(<<q[k].schema, q[k].table>>)
      BY <1>2, <3>1, <3>2
    <3>4. 2 + 1 \in 1..(k - 1)
      BY <3>1
    <3>5. QED
      BY <3>2, <3>3, <3>4
  <2>5. QED
    BY <1>5, <2>1, <2>2, <2>3, <2>4
<1>9. Ordered(q)
  BY <1>7, <1>8 DEF Ordered
<1>10. Items(q) = StatementsOf(s)
  <2>1. \A k \in 1..Len(q) : q[k] \in StatementsOf(s)
    BY <1>2, <1>5 DEF StatementsOf, T, n
  <2>2. 1 \in 1..Len(q) /\ 2 \in 1..Len(q) /\ \A i \in 1..n : 2 + i \in 1..Len(q)
    BY <1>1, <1>2 DEF Ends
  <2>3. s = "GENERAL" => 3 + n \in 1..Len(q)
    BY <1>1, <1>2 DEF Ends
  <2>4. StatementsOf(s) \subseteq Items(q)
    BY <1>2, <2>2, <2>3 DEF StatementsOf, Items, T, n
  <2>5. QED
    BY <2>1, <2>4 DEF Items
<1>11. QED
  BY <1>2, <1>6, <1>9, <1>10 DEF q

LEMMA BuildOrdered ==
  /\ Build \in Seq(Statements)
  /\ Ordered(Build)
  /\ Items(Build) = UNION {StatementsOf(s) : s \in Schemas}
<1> DEFINE a == Script("GENERAL")
           b == a \o Script("RESOURCE")
           c == b \o Script("STATE")
<1>1. /\ "GENERAL" \in Schemas /\ "RESOURCE" \in Schemas
      /\ "STATE" \in Schemas /\ "DATA" \in Schemas
  BY DEF Schemas
<1>2. /\ a \in Seq(Statements) /\ Ordered(a) /\ About(a, {"GENERAL"})
      /\ Items(a) = StatementsOf("GENERAL")
  BY <1>1, ScriptOrdered
<1>3. /\ b \in Seq(Statements) /\ Ordered(b) /\ About(b, {"GENERAL"} \cup {"RESOURCE"})
      /\ Items(b) = Items(a) \cup StatementsOf("RESOURCE")
  <2>1. {"GENERAL"} \cap {"RESOURCE"} = {}
    OBVIOUS
  <2>2. /\ Script("RESOURCE") \in Seq(Statements) /\ Ordered(Script("RESOURCE"))
        /\ About(Script("RESOURCE"), {"RESOURCE"})
        /\ Items(Script("RESOURCE")) = StatementsOf("RESOURCE")
    BY <1>1, ScriptOrdered
  <2> HIDE DEF a
  <2>3. QED
    BY <1>2, <2>1, <2>2, OrderedConcat
<1>4. /\ c \in Seq(Statements) /\ Ordered(c)
      /\ About(c, ({"GENERAL"} \cup {"RESOURCE"}) \cup {"STATE"})
      /\ Items(c) = Items(b) \cup StatementsOf("STATE")
  <2>1. ({"GENERAL"} \cup {"RESOURCE"}) \cap {"STATE"} = {}
    OBVIOUS
  <2>2. /\ Script("STATE") \in Seq(Statements) /\ Ordered(Script("STATE"))
        /\ About(Script("STATE"), {"STATE"})
        /\ Items(Script("STATE")) = StatementsOf("STATE")
    BY <1>1, ScriptOrdered
  <2> HIDE DEF b
  <2>3. QED
    BY <1>3, <2>1, <2>2, OrderedConcat
<1>5. /\ Build \in Seq(Statements) /\ Ordered(Build)
      /\ Items(Build) = Items(c) \cup StatementsOf("DATA")
  <2>1. (({"GENERAL"} \cup {"RESOURCE"}) \cup {"STATE"}) \cap {"DATA"} = {}
    OBVIOUS
  <2>2. /\ Script("DATA") \in Seq(Statements) /\ Ordered(Script("DATA"))
        /\ About(Script("DATA"), {"DATA"})
        /\ Items(Script("DATA")) = StatementsOf("DATA")
    BY <1>1, ScriptOrdered
  <2>3. Build = c \o Script("DATA")
    BY DEF Build
  <2> HIDE DEF c
  <2>4. QED
    BY <1>4, <2>1, <2>2, <2>3, OrderedConcat
<1>6. UNION {StatementsOf(s) : s \in Schemas} =
        StatementsOf("GENERAL") \cup StatementsOf("RESOURCE")
          \cup StatementsOf("STATE") \cup StatementsOf("DATA")
  BY DEF Schemas
<1>7. QED
  BY <1>2, <1>3, <1>4, <1>5, <1>6

(***************************************************************************)
(* What a rebuild knows at each of its statements                          *)
(***************************************************************************)

LEMMA StatementForms ==
  ASSUME NEW e \in Items(Build)
  PROVE  /\ e.op \in {"drop", "schema", "table", "version"} /\ e.schema \in Schemas
         /\ e.op = "drop" => e = Drop(e.schema)
         /\ e.op = "schema" => e = Create(e.schema)
         /\ e.op = "table" => /\ e = CreateTable(<<e.schema, e.table>>)
                             /\ <<e.schema, e.table>> \in Created
         /\ e.op = "version" => e = Version
<1>1. PICK s \in Schemas : e \in StatementsOf(s)
  BY BuildOrdered
<1>2. CASE e \in {Drop(s), Create(s)}
  BY <1>2, Fields
<1>3. ASSUME NEW i \in 1..Len(TablesOf(s)), e = CreateTable(<<s, TablesOf(s)[i]>>)
      PROVE  /\ e.op = "table" /\ e.schema = s /\ e.table = TablesOf(s)[i]
             /\ <<s, TablesOf(s)[i]>> \in Created
  <2>1. e.op = "table" /\ e.schema = s /\ e.table = TablesOf(s)[i]
    BY <1>3, Fields
  <2>2. i \in DOMAIN TablesOf(s)
    BY TablesDistinct DEF NamesOnce
  <2>3. <<s, TablesOf(s)[i]>> \in {<<s, TablesOf(s)[j]>> : j \in DOMAIN TablesOf(s)}
    BY <2>2
  <2>4. QED
    BY <2>1, <2>3 DEF Created
<1>4. CASE e = Version
  BY <1>4 DEF Version, Statement, Schemas
<1>5. QED
  BY <1>1, <1>2, <1>3, <1>4 DEF StatementsOf

LEMMA AllExecuted ==
  /\ \A s \in Schemas : Drop(s) \in Items(Build)
  /\ \A t \in Created : CreateTable(t) \in Items(Build)
  /\ Version \in Items(Build)
<1>1. \A s \in Schemas : Drop(s) \in StatementsOf(s)
  BY DEF StatementsOf
<1>2. ASSUME NEW t \in Created PROVE CreateTable(t) \in Items(Build)
  <2>1. PICK s \in Schemas : t \in {<<s, TablesOf(s)[i]>> : i \in DOMAIN TablesOf(s)}
    BY DEF Created
  <2>2. PICK i \in DOMAIN TablesOf(s) : t = <<s, TablesOf(s)[i]>>
    BY <2>1
  <2>3. i \in 1..Len(TablesOf(s))
    BY TablesDistinct DEF NamesOnce
  <2>4. CreateTable(t) \in StatementsOf(s)
    BY <2>2, <2>3 DEF StatementsOf
  <2>5. QED
    BY <2>4, BuildOrdered
<1>3. Version \in StatementsOf("GENERAL") /\ "GENERAL" \in Schemas
  BY DEF StatementsOf, Schemas
<1>4. QED
  BY <1>1, <1>2, <1>3, BuildOrdered

\* The next statement: what it needs has been executed, it has not, and if
\* it drops a schema nothing about that schema has.
LEMMA NextStatement ==
  ASSUME at \in 1..(Len(Build) + 1), at <= Len(Build)
  PROVE  LET e == Build[at] IN
         /\ e \in Items(Build)
         /\ e \notin Executed
         /\ e.op = "drop" => \A x \in Executed : x.schema # e.schema
         /\ e.op \in {"schema", "table"} => Drop(e.schema) \in Executed
         /\ e.op = "table" => Create(e.schema) \in Executed
         /\ e.op = "version" => CreateTable(<<e.schema, e.table>>) \in Executed
         /\ Executed \subseteq Items(Build)
         /\ at' = at + 1 => Executed' = Executed \cup {e}
<1>1. Len(Build) \in Nat
  BY BuildOrdered, LenProperties
<1>2. at \in 1..Len(Build) /\ \A j \in 1..(at - 1) : j \in 1..Len(Build)
  BY <1>1
<1>3. Build[at] \in Items(Build) /\ Executed \subseteq Items(Build)
  BY <1>2 DEF Items, Executed
<1>4. ASSUME at' = at + 1 PROVE Executed' = Executed \cup {Build[at]}
  <2>1. 1..(at' - 1) = 1..(at - 1) \cup {at}
    BY <1>2, <1>4
  <2>2. Executed' = {Build[k] : k \in 1..(at' - 1)}
    BY DEF Executed
  <2>3. QED
    BY <2>1, <2>2 DEF Executed
<1>5. /\ \A j \in 1..(at - 1) : Build[j] # Build[at]
      /\ Build[at].op = "drop" => \A j \in 1..(at - 1) : Build[j].schema # Build[at].schema
      /\ Build[at].op \in {"schema", "table"} =>
           \E j \in 1..(at - 1) : Build[j] = Drop(Build[at].schema)
      /\ Build[at].op = "table" => \E j \in 1..(at - 1) : Build[j] = Create(Build[at].schema)
      /\ Build[at].op = "version" =>
           \E j \in 1..(at - 1) : Build[j] = CreateTable(<<Build[at].schema, Build[at].table>>)
  BY <1>2, BuildOrdered DEF Ordered
<1>6. Build[at] \notin Executed
  BY <1>5 DEF Executed
<1>7. Build[at].op = "drop" => \A x \in Executed : x.schema # Build[at].schema
  BY <1>5 DEF Executed
<1>8. /\ Build[at].op \in {"schema", "table"} => Drop(Build[at].schema) \in Executed
      /\ Build[at].op = "table" => Create(Build[at].schema) \in Executed
      /\ Build[at].op = "version" =>
           CreateTable(<<Build[at].schema, Build[at].table>>) \in Executed
  BY <1>5, Zenon DEF Executed
<1>9. QED
  BY <1>3, <1>4, <1>6, <1>7, <1>8

(***************************************************************************)
(* The steps                                                               *)
(***************************************************************************)

LEMMA InitIInv == Init => IInv
<1> SUFFICES ASSUME Init PROVE IInv
  OBVIOUS
<1>1. Len(Build) \in Nat
  BY BuildOrdered, LenProperties
<1>2. <<"GENERAL", "META">> \in Created /\ <<"DATA", "MOD">> \in Created
  <2>1. TablesOf("GENERAL")[1] = "META" /\ TablesOf("DATA")[1] = "MOD"
    BY DEF TablesOf, GeneralTables, DataTables
  <2>2. 1 \in DOMAIN TablesOf("GENERAL") /\ 1 \in DOMAIN TablesOf("DATA")
    BY DEF TablesOf, GeneralTables, DataTables
  <2>3. /\ <<"GENERAL", "META">> \in {<<"GENERAL", TablesOf("GENERAL")[i]>> : i \in DOMAIN TablesOf("GENERAL")}
        /\ <<"DATA", "MOD">> \in {<<"DATA", TablesOf("DATA")[i]>> : i \in DOMAIN TablesOf("DATA")}
    BY <2>1, <2>2
  <2>4. "GENERAL" \in Schemas /\ "DATA" \in Schemas
    BY DEF Schemas
  <2>5. QED
    BY <2>3, <2>4 DEF Created
<1>3. TypeOK
  BY <1>1, <1>2, StartsAssumption DEF Init, TypeOK, AllTables
<1>4. RebuildInv
  BY DEF Init, RebuildInv, Rebuilt
<1>5. VersionInv
  BY DEF Init, VersionInv
<1>6. QED
  BY <1>3, <1>4, <1>5 DEF IInv

\* In a rebuild every statement can be executed.
LEMMA ExecuteApplies == IInv => RebuildNeverClashes
<1> SUFFICES ASSUME IInv, process = "building", at <= Len(Build)
             PROVE  Applicable(Build[at])
  BY DEF RebuildNeverClashes
<1> DEFINE e == Build[at]
<1>1. at \in 1..(Len(Build) + 1)
  BY DEF IInv, TypeOK
<1>2. /\ e \in Items(Build) /\ e \notin Executed
      /\ e.op \in {"schema", "table"} => Drop(e.schema) \in Executed
      /\ e.op = "table" => Create(e.schema) \in Executed
      /\ e.op = "version" => CreateTable(<<e.schema, e.table>>) \in Executed
  BY <1>1, NextStatement
<1> HIDE DEF e
<1>3. /\ e.op \in {"drop", "schema", "table", "version"}
      /\ e.op = "schema" => e = Create(e.schema)
      /\ e.op = "table" => e = CreateTable(<<e.schema, e.table>>)
  BY <1>2, StatementForms
<1>4. /\ \A s \in schemas : Drop(s) \in Executed => Create(s) \in Executed
      /\ \A t \in tables : Drop(t[1]) \in Executed => CreateTable(t) \in Executed
      /\ \A x \in Executed : /\ x.op = "schema" => x.schema \in schemas
                             /\ x.op = "table" => <<x.schema, x.table>> \in tables
  BY DEF IInv, RebuildInv, Rebuilt
<1>5. CASE e.op = "drop"
  BY <1>5 DEF Applicable, e
<1>6. CASE e.op = "schema"
  <2>1. e.schema \notin schemas
    BY <1>2, <1>3, <1>4, <1>6
  <2>2. QED
    BY <1>6, <2>1 DEF Applicable, e
<1>7. CASE e.op = "table"
  <2>1. e.schema \in schemas
    BY <1>2, <1>4, <1>7, Fields
  <2>2. <<e.schema, e.table>>[1] = e.schema
    OBVIOUS
  <2>3. <<e.schema, e.table>> \notin tables
    BY <1>2, <1>3, <1>4, <1>7, <2>2
  <2>4. QED
    BY <1>7, <2>1, <2>3 DEF Applicable, e
<1>8. CASE e.op = "version"
  <2>1. CreateTable(<<e.schema, e.table>>) \in Executed
    BY <1>2, <1>8
  <2>2. /\ CreateTable(<<e.schema, e.table>>).op = "table"
        /\ CreateTable(<<e.schema, e.table>>).schema = e.schema
        /\ CreateTable(<<e.schema, e.table>>).table = e.table
    BY Fields
  <2>3. <<e.schema, e.table>> \in tables
    BY <1>4, <2>1, <2>2
  <2>4. QED
    BY <1>8, <2>3 DEF Applicable, e
<1>9. QED
  BY <1>3, <1>5, <1>6, <1>7, <1>8 DEF e

\* A statement leaves the database as the rebuild relies on.
LEMMA StepExecute == IInv /\ Execute => IInv'
<1> SUFFICES ASSUME IInv, Execute PROVE IInv'
  OBVIOUS
<1> DEFINE e == Build[at]
<1>1. /\ process = "building" /\ process' = "building" /\ at <= Len(Build)
      /\ at' = at + 1 /\ Apply(e) /\ Applicable(e) /\ UNCHANGED <<code, starts>>
  BY DEF Execute
<1>2. at \in 1..(Len(Build) + 1) /\ Len(Build) \in Nat
  BY BuildOrdered, LenProperties DEF IInv, TypeOK
<1>3. /\ e \in Items(Build) /\ e \notin Executed
      /\ e.op = "drop" => \A x \in Executed : x.schema # e.schema
      /\ Executed \subseteq Items(Build)
      /\ Executed' = Executed \cup {e}
  BY <1>1, <1>2, NextStatement
<1> HIDE DEF e
<1>4. /\ e.op \in {"drop", "schema", "table", "version"} /\ e.schema \in Schemas
      /\ e.op = "drop" => e = Drop(e.schema)
      /\ e.op = "schema" => e = Create(e.schema)
      /\ e.op = "table" => /\ e = CreateTable(<<e.schema, e.table>>)
                          /\ <<e.schema, e.table>> \in Created
      /\ e.op = "version" => e = Version
  BY <1>3, StatementForms
<1>5. /\ \A s \in schemas : Drop(s) \in Executed => Create(s) \in Executed
      /\ \A t \in tables : Drop(t[1]) \in Executed => CreateTable(t) \in Executed
      /\ \A x \in Executed : /\ x.op = "schema" => x.schema \in schemas
                             /\ x.op = "table" => <<x.schema, x.table>> \in tables
                             /\ x.op = "version" => version = "current"
  BY <1>1 DEF IInv, RebuildInv, Rebuilt
<1>6. /\ schemas \subseteq Schemas
      /\ tables \subseteq AllTables \cup {<<"DATA", "MAP">>}
      /\ version \in {"none", "old", "current"}
      /\ version # "none" => <<"GENERAL", "META">> \in tables
      /\ code \in {"NONE", "UNKNOWN", "NOT_RUN"} /\ starts \in 0..MaxStarts
  BY DEF IInv, TypeOK, VersionInv
<1>7. at' \in 1..(Len(Build) + 1)
  BY <1>1, <1>2
<1>8. SUFFICES /\ schemas' \subseteq Schemas
               /\ tables' \subseteq AllTables \cup {<<"DATA", "MAP">>}
               /\ version' \in {"none", "old", "current"}
               /\ version' # "none" => <<"GENERAL", "META">> \in tables'
               /\ \A s \in schemas' : Drop(s) \in Executed' => Create(s) \in Executed'
               /\ \A t \in tables' : Drop(t[1]) \in Executed' => CreateTable(t) \in Executed'
               /\ \A x \in Executed' : /\ x.op = "schema" => x.schema \in schemas'
                                       /\ x.op = "table" => <<x.schema, x.table>> \in tables'
                                       /\ x.op = "version" => version' = "current"
  BY <1>1, <1>6, <1>7 DEF IInv, TypeOK, RebuildInv, Rebuilt, VersionInv
<1>9. CASE e.op = "drop"
  <2>1. /\ schemas' = schemas \ {e.schema}
        /\ tables' = {t \in tables : t[1] # e.schema}
        /\ version' = IF e.schema = "GENERAL" THEN "none" ELSE version
    BY <1>1, <1>9 DEF Apply
  <2>2. version' # "none" => <<"GENERAL", "META">> \in tables'
    BY <1>6, <2>1
  <2>3. ASSUME NEW s \in schemas', Drop(s) \in Executed' PROVE Create(s) \in Executed'
    BY <1>3, <1>4, <1>5, <1>9, <2>1, <2>3, Fields
  <2>4. ASSUME NEW t \in tables', Drop(t[1]) \in Executed' PROVE CreateTable(t) \in Executed'
    BY <1>3, <1>4, <1>5, <1>9, <2>1, <2>4, Fields
  <2>5. ASSUME NEW x \in Executed'
        PROVE  /\ x.op = "schema" => x.schema \in schemas'
               /\ x.op = "table" => <<x.schema, x.table>> \in tables'
               /\ x.op = "version" => version' = "current"
    <3>1. CASE x = e
      BY <1>9, <3>1
    <3>2. CASE x \in Executed
      <4>1. x.schema # e.schema
        BY <1>3, <1>9, <3>2
      <4>2. <<x.schema, x.table>>[1] = x.schema
        OBVIOUS
      <4>3. x.op = "version" => x.schema = "GENERAL"
        <5>1. x \in Items(Build)
          BY <1>3, <3>2
        <5>2. x.op = "version" => x = Version
          BY <5>1, StatementForms
        <5>3. QED
          BY <5>2 DEF Version, Statement
      <4>4. QED
        BY <1>5, <2>1, <3>2, <4>1, <4>2, <4>3
    <3>3. QED
      BY <1>3, <3>1, <3>2
  <2>6. QED
    BY <1>6, <2>1, <2>2, <2>3, <2>4, <2>5
<1>10. CASE e.op = "schema"
  <2>1. schemas' = schemas \cup {e.schema} /\ tables' = tables /\ version' = version
    BY <1>1, <1>10 DEF Apply
  <2>2. \A s : Drop(s) \in Executed' => Drop(s) \in Executed
    BY <1>3, <1>10, Fields
  <2>3. ASSUME NEW s \in schemas', Drop(s) \in Executed' PROVE Create(s) \in Executed'
    BY <1>3, <1>4, <1>5, <1>10, <2>1, <2>2, <2>3
  <2>4. ASSUME NEW t \in tables', Drop(t[1]) \in Executed' PROVE CreateTable(t) \in Executed'
    BY <1>3, <1>5, <2>1, <2>2, <2>4
  <2>5. QED
    BY <1>3, <1>4, <1>5, <1>6, <1>10, <2>1, <2>3, <2>4
<1>11. CASE e.op = "table"
  <2>1. /\ tables' = tables \cup {<<e.schema, e.table>>}
        /\ schemas' = schemas /\ version' = version
    BY <1>1, <1>11 DEF Apply
  <2>2. \A s : Drop(s) \in Executed' => Drop(s) \in Executed
    BY <1>3, <1>11, Fields
  <2>3. ASSUME NEW s \in schemas', Drop(s) \in Executed' PROVE Create(s) \in Executed'
    BY <1>3, <1>5, <2>1, <2>2, <2>3
  <2>4. ASSUME NEW t \in tables', Drop(t[1]) \in Executed' PROVE CreateTable(t) \in Executed'
    BY <1>3, <1>4, <1>5, <1>11, <2>1, <2>2, <2>4
  <2>5. QED
    BY <1>3, <1>4, <1>5, <1>6, <1>11, <2>1, <2>3, <2>4 DEF AllTables
<1>12. CASE e.op = "version"
  <2>1. schemas' = schemas /\ tables' = tables /\ version' = "current"
    BY <1>1, <1>12 DEF Apply
  <2>2. <<"GENERAL", "META">> \in tables
    <3>1. <<e.schema, e.table>> \in tables
      BY <1>1, <1>12 DEF Applicable
    <3>2. e.schema = "GENERAL" /\ e.table = "META"
      BY <1>4, <1>12 DEF Version, Statement
    <3>3. QED
      BY <3>1, <3>2
  <2>3. \A s : Drop(s) \in Executed' => Drop(s) \in Executed
    BY <1>3, <1>12, Fields
  <2>4. /\ \A s \in schemas' : Drop(s) \in Executed' => Create(s) \in Executed'
        /\ \A t \in tables' : Drop(t[1]) \in Executed' => CreateTable(t) \in Executed'
    BY <1>3, <1>5, <2>1, <2>3
  <2>5. QED
    BY <1>3, <1>5, <1>6, <1>12, <2>1, <2>2, <2>4
<1>13. QED
  BY <1>4, <1>9, <1>10, <1>11, <1>12

\* What starts and ends a rebuild or a process leaves the database alone.
LEMMA StepProcess ==
  IInv /\ (Start \/ StatementFails \/ BuildEnds \/ Check \/ Die) => IInv'
<1> SUFFICES ASSUME IInv, Start \/ StatementFails \/ BuildEnds \/ Check \/ Die PROVE IInv'
  OBVIOUS
<1>1. Len(Build) \in Nat /\ MaxStarts \in Nat
  BY BuildOrdered, LenProperties, StartsAssumption
<1>2. UNCHANGED database
  BY DEF Start, StatementFails, BuildEnds, Check, Die
<1>3. TypeOK'
  BY <1>1, <1>2 DEF IInv, TypeOK, database, Start, StatementFails, BuildEnds, Check, Die
<1>4. VersionInv'
  BY <1>1, <1>2 DEF IInv, TypeOK, VersionInv, database, Start, StatementFails, BuildEnds,
                    Check, Die
<1>5. RebuildInv'
  <2>1. CASE Start
    <3>1. at' = 1
      BY <2>1 DEF Start
    <3>2. Executed' = {}
      BY <3>1 DEF Executed
    <3>3. QED
      BY <3>2 DEF RebuildInv
  <2>2. CASE StatementFails \/ Die
    <3>1. ~Rebuilt'
      BY <2>2 DEF Rebuilt, StatementFails, Die
    <3>2. QED
      BY <3>1 DEF RebuildInv
  <2>3. CASE BuildEnds \/ Check
    <3>1. (Rebuilt' => Rebuilt) /\ at' = at
      BY <2>3 DEF Rebuilt, BuildEnds, Check
    <3>2. Executed' = Executed
      BY <3>1 DEF Executed
    <3>3. QED
      BY <1>2, <3>1, <3>2 DEF IInv, RebuildInv, database
  <2>4. QED
    BY <2>1, <2>2, <2>3
<1>6. QED
  BY <1>3, <1>4, <1>5 DEF IInv

LEMMA StepIInv == IInv /\ [Next]_vars => IInv'
<1> SUFFICES ASSUME IInv, [Next]_vars PROVE IInv'
  OBVIOUS
<1>1. CASE Execute
  BY <1>1, StepExecute
<1>2. CASE Start \/ StatementFails \/ BuildEnds \/ Check \/ Die
  BY <1>2, StepProcess
<1>3. CASE UNCHANGED vars
  <2>1. Executed' = Executed
    BY <1>3 DEF vars, Executed
  <2>2. QED
    BY <1>3, <2>1 DEF vars, IInv, TypeOK, RebuildInv, Rebuilt, VersionInv
<1>4. QED
  BY <1>1, <1>2, <1>3 DEF Next

(***************************************************************************)
(* What follows of every behaviour                                         *)
(***************************************************************************)

\* The state of the database in the middle of a rebuild is an invariant.
THEOREM Invariance == Spec => []IInv
BY InitIInv, StepIInv, PTL DEF Spec

\* Every variable keeps its type, the tables those of the schemas.
THEOREM Typed == Spec => []TypeOK
<1>1. IInv => TypeOK
  BY DEF IInv
<1>2. QED
  BY <1>1, Invariance, PTL

\* No statement of a rebuild clashes with what an older version, a failed
\* or a killed rebuild has left: buildDatabase can always be run again.
THEOREM NeverClashes == Spec => []RebuildNeverClashes
BY ExecuteApplies, Invariance, PTL

\* In every process that has run buildDatabase, and in the one that serves
\* after it, NONE means that all its tables are there, that none is left which
\* the header does not declare, and that the version is the current one,
\* whatever an older version or an earlier rebuild had left.
THEOREM BuiltWhenNone == Spec => []NoneMeansBuilt
<1>1. IInv => NoneMeansBuilt
  <2> SUFFICES ASSUME IInv, process \in {"built", "serving"}, code = "NONE"
               PROVE  Created \subseteq tables /\ tables \subseteq AllTables /\ version = "current"
    BY DEF NoneMeansBuilt
  <2>1. at = Len(Build) + 1 /\ Len(Build) \in Nat
    BY BuildOrdered, LenProperties DEF IInv, VersionInv
  <2>2. Executed = Items(Build)
    <3>1. 1..(at - 1) = 1..Len(Build)
      BY <2>1
    <3>2. QED
      BY <3>1 DEF Executed, Items
  <2>3. /\ \A t \in tables : Drop(t[1]) \in Executed => CreateTable(t) \in Executed
        /\ \A x \in Executed : /\ x.op = "table" => <<x.schema, x.table>> \in tables
                               /\ x.op = "version" => version = "current"
    BY DEF IInv, RebuildInv, Rebuilt
  <2>4. version = "current"
    BY <2>2, <2>3, AllExecuted DEF Version, Statement
  <2>5. ASSUME NEW t \in Created PROVE t \in tables
    <3>1. CreateTable(t) \in Executed
      BY <2>2, AllExecuted
    <3>2. PICK s \in Schemas : t \in {<<s, TablesOf(s)[i]>> : i \in DOMAIN TablesOf(s)}
      BY DEF Created
    <3>3. t = <<t[1], t[2]>>
      BY <3>2
    <3>4. QED
      BY <2>3, <3>1, <3>3, Fields
  <2>6. ASSUME NEW t \in tables PROVE t \in AllTables
    <3>1. t \in AllTables \cup {<<"DATA", "MAP">>}
      BY DEF IInv, TypeOK
    <3>2. CASE t = <<"DATA", "MAP">>
      <4>1. t[1] = "DATA" /\ t[2] = "MAP" /\ "DATA" \in Schemas
        BY <3>2 DEF Schemas
      <4>2. CreateTable(t) \in Items(Build)
        BY <2>2, <2>3, <4>1, AllExecuted
      <4>3. t \in Created
        BY <3>2, <4>1, <4>2, StatementForms, Fields
      <4>4. QED
        BY <4>3 DEF AllTables
    <3>3. QED
      BY <3>1, <3>2
  <2>7. QED
    BY <2>4, <2>5, <2>6
<1>2. QED
  BY <1>1, Invariance, PTL
=============================================================================
