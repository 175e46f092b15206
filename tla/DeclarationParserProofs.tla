----------------------- MODULE DeclarationParserProofs -----------------------
(***************************************************************************)
(* Theorems about DeclarationParser.tla, for any lines, any files made of  *)
(* them, and any size of a policy.                                         *)
(*                                                                         *)
(* The code keeps two flags and a declaration and forgets the lines.  The  *)
(* invariant says what the flags tell of all the lines read (Body), and    *)
(* what the declaration does (NothingLost, NothingInvented).               *)
(***************************************************************************)
EXTENDS DeclarationParser, FiniteSetTheorems, TLAPS

Names == Records[kind] \cup {"header"}
Parts == Lines[kind] \cup {Entry(t) : t \in Lines[kind]}

Types ==
    /\ TypeOK
    /\ decl \in [Names -> Seq(Parts)]

IsRecordOf(name, t) == t # <<>> /\ t[1] = name

\* The header is read and the body is not closed yet.
OpenAt(first) ==
    /\ IsHeader(kind, lines[first])
    /\ \A i \in DOMAIN lines \ {first} :
          lines[i] = <<>> \/ (first < i /\ lines[i][1] \in Records[kind])

Body ==
    /\ ~seenHeader => \A i \in DOMAIN lines : lines[i] = <<>>
    /\ inside => \E first \in DOMAIN lines : OpenAt(first)
    /\ Whole => \E first, end \in DOMAIN lines : OneBody(first, end)

\* Every record that was read looks like one, and is in the declaration
\* unless a later one of its name has superseded it.
NothingLost ==
    \A n \in DOMAIN lines : \A name \in Records[kind] : IsRecordOf(name, lines[n]) =>
        /\ IsRecord(kind, lines[n])
        /\ ~Superseded(n) => \E e \in DOMAIN decl[name] : decl[name][e] = Entry(lines[n])

\* Every entry of the declaration is what some line says.
NothingInvented ==
    \A name \in Records[kind] : \A e \in DOMAIN decl[name] :
        \E n \in DOMAIN lines :
            IsRecordOf(name, lines[n]) /\ decl[name][e] = Entry(lines[n])

\* A record given twice is there twice, for the validation to see.
LinesOf(name) == {n \in DOMAIN lines : IsRecordOf(name, lines[n])}
Counted ==
    \A name \in Records[kind] \ Replacing : Len(decl[name]) = Cardinality(LinesOf(name))

Faithful == NothingLost /\ NothingInvented /\ Counted

Inv == Types /\ (outcome # "refused" => Body /\ Faithful)

-----------------------------------------------------------------------------
(* Lines. *)

\* No line is a header, a brace and a record at once.
LEMMA HeaderIsNoRecord ==
    ASSUME NEW k \in {"policy", "module", "conformance"}, NEW t, IsHeader(k, t)
    PROVE  t # <<>> /\ t[1] \notin Records[k]
<1>1. /\ Len(t) \in {3, 7}
      /\ k = "policy" => t[1] = "compiler"
      /\ k # "policy" => t[1] = k
  BY Zenon DEF IsHeader
<1>2. t # <<>>
  BY <1>1
<1>3. "compiler" \notin Records["policy"] /\ "module" \notin Records["module"]
  BY DEF Records
<1>4. "conformance" \notin Records["conformance"]
  BY DEF Records
<1> QED BY <1>1, <1>2, <1>3, <1>4

LEMMA BraceIsNoRecord == \A k \in {"policy", "module", "conformance"} : "}" \notin Records[k]
<1>1. "}" \notin Records["policy"] /\ "}" \notin Records["module"]
  BY DEF Records
<1>2. "}" \notin Records["conformance"]
  BY DEF Records
<1> QED BY <1>1, <1>2

LEMMA RecordNames ==
    /\ \A k \in {"policy", "module", "conformance"} :
          "header" \notin Records[k] /\ Records[k] \subseteq DOMAIN Fields
    /\ \A name \in DOMAIN Fields :
          Fields[name] # {} <=> name \notin {"precedence", "unknown_fields", "export"}
BY DEF Records, Fields

LEMMA KindIsKnown ==
    ASSUME Types
    PROVE  /\ kind \in {"policy", "module", "conformance"}
           /\ lines \in Seq(Lines[kind])
           /\ Lines[kind] \subseteq Seq(STRING)
BY LinesAssumption DEF Types, TypeOK

\* A record with fields comes in pairs.
LEMMA RecordIsPaired ==
    ASSUME NEW k \in {"policy", "module", "conformance"}, NEW t, IsRecord(k, t),
           Fields[t[1]] # {}
    PROVE  Paired(t)
<1>1. t[1] \notin {"precedence", "unknown_fields", "export"}
  BY RecordNames DEF IsRecord
<1> QED BY <1>1 DEF IsRecord

LEMMA InSequence ==
    ASSUME NEW S, NEW s \in Seq(S)
    PROVE  Len(s) \in Nat /\ 3..Len(s) \subseteq Nat /\ \A j \in DOMAIN s : s[j] \in S
OBVIOUS

\* A number that none exceeds is the one CHOOSE finds.
LEMMA LargestIsUnique ==
    ASSUME NEW at \in SUBSET Nat, NEW i \in at, \A j \in at : ~(i < j)
    PROVE  (CHOOSE j \in at : \A k \in at : k <= j) = i /\ 1 + i = i + 1
<1> DEFINE Last(j) == \A k \in at : k <= j
<1>1. Last(i) /\ \A j \in at : Last(j) => j = i
  OBVIOUS
<1> HIDE DEF Last
<1>2. (CHOOSE j \in at : Last(j)) = i
  BY <1>1
<1> QED BY <1>2 DEF Last

\* Of a key that is repeated only the last value is not empty: the value that
\* is kept is the one that says something.
LEMMA ValueIsKept ==
    ASSUME NEW t \in Seq(STRING), Paired(t), NEW i \in KeysOf(t), t[i + 1] # ""
    PROVE  Value(t, t[i]) = t[i + 1]
<1> DEFINE at == {j \in KeysOf(t) : t[j] = t[i]}
<1>1. at \in SUBSET Nat /\ i \in at
  <2>1. 3..Len(t) \subseteq Nat
    BY Zenon, InSequence
  <2>2. KeysOf(t) \subseteq 3..Len(t)
    BY Zenon DEF KeysOf
  <2> QED BY Zenon, <2>1, <2>2
<1>2. \A j \in KeysOf(t) : \A k \in KeysOf(t) : k < j /\ t[k] = t[j] => t[k + 1] = ""
  BY Zenon DEF Paired
<1>3. \A j \in at : ~(i < j)
  BY Zenon, <1>2
<1>4. (CHOOSE j \in at : \A k \in at : k <= j) = i /\ 1 + i = i + 1
  <2> HIDE DEF at
  <2> QED BY Zenon, <1>1, <1>3, LargestIsUnique
<1>5. Value(t, t[i]) = t[1 + CHOOSE j \in at : \A k \in at : k <= j]
  BY Zenon, <1>1 DEF Value
<1> QED BY Zenon, <1>4, <1>5

-----------------------------------------------------------------------------
(* One more line. *)

LEMMA LineRead ==
    ASSUME Types, NEW t \in Lines[kind], Read(t)
    PROVE  /\ kind' = kind /\ lines' \in Seq(Lines[kind])
           /\ Len(lines') = Len(lines) + 1
           /\ DOMAIN lines' = DOMAIN lines \cup {Len(lines) + 1}
           /\ lines'[Len(lines) + 1] = t
           /\ \A n \in DOMAIN lines : lines'[n] = lines[n] /\ n < Len(lines) + 1 /\ n \in Nat
           /\ Len(lines) \in Nat
BY KindIsKnown DEF Read

\* A line that is no record leaves the declaration true to the lines.
LEMMA OtherLineIsFaithful ==
    ASSUME Types, Faithful, NEW t \in Lines[kind], Read(t),
           t = <<>> \/ t[1] \notin Records[kind],
           \A name \in Records[kind] : decl'[name] = decl[name]
    PROVE  Faithful'
<1>1. NothingLost'
  <2>1. \A n \in DOMAIN lines : Superseded(n) => Superseded(n)'
    BY LineRead DEF Superseded
  <2> QED BY <2>1, LineRead DEF Faithful, NothingLost, IsRecordOf
<1>2. NothingInvented'
  BY LineRead DEF Faithful, NothingInvented, IsRecordOf
<1>3. Counted'
  <2>1. \A name \in Records[kind] : LinesOf(name)' = LinesOf(name)
    BY LineRead DEF LinesOf, IsRecordOf
  <2> QED BY <2>1, LineRead DEF Faithful, Counted
<1> QED BY <1>1, <1>2, <1>3 DEF Faithful

LEMMA SameLinesFaithful == Faithful /\ UNCHANGED <<kind, lines, decl>> => Faithful'
<1> SUFFICES ASSUME Faithful, UNCHANGED <<kind, lines, decl>> PROVE Faithful'
  OBVIOUS
<1>1. NothingLost'
  BY DEF Faithful, NothingLost, Superseded
<1>2. NothingInvented'
  BY DEF Faithful, NothingInvented
<1>3. \A name : LinesOf(name)' = LinesOf(name)
  BY DEF LinesOf
<1>4. Counted'
  BY <1>3 DEF Faithful, Counted
<1> QED BY <1>1, <1>2, <1>4 DEF Faithful

LEMMA RecordIsFaithful ==
    ASSUME Types, Faithful, NEW t \in Lines[kind], Read(t), t # <<>>, IsRecord(kind, t),
           decl' = Added(decl, t)
    PROVE  Faithful' /\ decl' \in [Names -> Seq(Parts)] /\ decl'.header = decl.header
<1> DEFINE entries == decl[t[1]]
           added   == IF t[1] \in Replacing THEN <<Entry(t)>> ELSE Append(entries, Entry(t))
<1>1. t[1] \in Records[kind] /\ t[1] \in Names /\ t[1] # "header"
  BY KindIsKnown, RecordNames DEF IsRecord, Names
<1>2. entries \in Seq(Parts) /\ Entry(t) \in Parts
  BY <1>1 DEF Types, Parts
<1>3. /\ decl' = [decl EXCEPT ![t[1]] = added]
      /\ added \in Seq(Parts)
  BY <1>1, <1>2 DEF Added
<1>4. /\ decl' \in [Names -> Seq(Parts)]
      /\ decl'[t[1]] = added
      /\ \A name \in Names : name # t[1] => decl'[name] = decl[name]
  BY <1>1, <1>3 DEF Types
<1>5. \E e \in DOMAIN added : added[e] = Entry(t)
  <2>1. CASE t[1] \in Replacing
    BY <2>1
  <2>2. CASE t[1] \notin Replacing
    <3>1. added[Len(entries) + 1] = Entry(t) /\ Len(entries) + 1 \in DOMAIN added
      BY <1>2, <2>2
    <3> QED BY <3>1
  <2> QED BY <2>1, <2>2
<1>6. /\ \A e \in DOMAIN added :
            added[e] = Entry(t) \/ \E d \in DOMAIN entries : added[e] = entries[d]
      /\ t[1] \notin Replacing => \A d \in DOMAIN entries :
            d \in DOMAIN added /\ added[d] = entries[d]
  <2>1. CASE t[1] \in Replacing
    BY <2>1
  <2>2. CASE t[1] \notin Replacing
    BY <1>2, <2>2
  <2> QED BY <2>1, <2>2
<1> HIDE DEF entries, added
<1>7. NothingLost'
  <2> SUFFICES ASSUME NEW n \in DOMAIN lines', NEW name \in Records[kind],
                      IsRecordOf(name, lines'[n])
               PROVE  /\ IsRecord(kind, lines'[n])
                      /\ ~Superseded(n)' =>
                            \E e \in DOMAIN decl'[name] : decl'[name][e] = Entry(lines'[n])
    BY LineRead DEF NothingLost
  <2>1. CASE n = Len(lines) + 1
    BY <1>4, <1>5, <2>1, LineRead DEF IsRecordOf
  <2>2. CASE n \in DOMAIN lines
    <3>0. lines'[n] = lines[n] /\ n < Len(lines) + 1 /\ Len(lines) + 1 \in DOMAIN lines'
      BY <2>2, LineRead
    <3>1. /\ IsRecord(kind, lines[n])
          /\ ~Superseded(n) => \E e \in DOMAIN decl[name] : decl[name][e] = Entry(lines[n])
      BY <2>2, <3>0 DEF Faithful, NothingLost
    <3>2. Superseded(n) => Superseded(n)'
      BY <2>2, LineRead DEF Superseded
    <3>3. CASE name = t[1]
      <4>1. t[1] \in Replacing => Superseded(n)'
        BY <3>0, <3>3, LineRead DEF Superseded, IsRecordOf
      <4>2. CASE t[1] \notin Replacing
        BY <1>4, <1>6, <3>0, <3>1, <3>2, <3>3, <4>2 DEF entries
      <4> QED BY <3>0, <3>1, <4>1, <4>2
    <3>4. CASE name # t[1]
      BY <1>4, <3>0, <3>1, <3>2, <3>4 DEF Names
    <3> QED BY <3>3, <3>4
  <2> QED BY <2>1, <2>2, LineRead
<1>8. NothingInvented'
  <2> SUFFICES ASSUME NEW name \in Records[kind], NEW e \in DOMAIN decl'[name]
               PROVE  \E n \in DOMAIN lines' :
                          IsRecordOf(name, lines'[n]) /\ decl'[name][e] = Entry(lines'[n])
    BY LineRead DEF NothingInvented
  <2>1. \A d \in DOMAIN decl[name] : \E n \in DOMAIN lines :
            IsRecordOf(name, lines[n]) /\ decl[name][d] = Entry(lines[n])
    BY DEF Faithful, NothingInvented
  <2>2. \A d \in DOMAIN decl[name] : \E n \in DOMAIN lines' :
            IsRecordOf(name, lines'[n]) /\ decl[name][d] = Entry(lines'[n])
    BY <2>1, LineRead
  <2>3. CASE name # t[1]
    BY <1>4, <2>2, <2>3 DEF Names
  <2>4. CASE name = t[1]
    <3>1. CASE decl'[name][e] = Entry(t)
      BY <2>4, <3>1, LineRead DEF IsRecordOf
    <3>2. CASE \E d \in DOMAIN decl[name] : decl'[name][e] = decl[name][d]
      BY <2>2, <3>2
    <3> QED BY <1>4, <1>6, <2>4, <3>1, <3>2 DEF entries
  <2> QED BY <2>3, <2>4
<1>9. Counted'
  <2> SUFFICES ASSUME NEW name \in Records[kind] \ Replacing
               PROVE  Len(decl'[name]) = Cardinality(LinesOf(name)')
    BY LineRead DEF Counted
  <2>1. Len(decl[name]) = Cardinality(LinesOf(name))
    BY DEF Faithful, Counted
  <2>2. CASE name # t[1]
    <3>1. LinesOf(name)' = LinesOf(name)
      BY <2>2, LineRead DEF LinesOf, IsRecordOf
    <3> QED BY <1>4, <2>1, <2>2, <3>1 DEF Names
  <2>3. CASE name = t[1]
    <3>1. LinesOf(name)' = LinesOf(name) \cup {Len(lines) + 1}
      BY <2>3, LineRead DEF LinesOf, IsRecordOf
    <3>2. Len(lines) + 1 \notin LinesOf(name)
      BY LineRead DEF LinesOf
    <3>3. IsFiniteSet(LinesOf(name))
      <4>1. IsFiniteSet(1..Len(lines))
        BY LineRead, FS_Interval
      <4>2. LinesOf(name) \in SUBSET (1..Len(lines))
        BY KindIsKnown DEF LinesOf
      <4> QED BY <4>1, <4>2, FS_Subset
    <3>4. Cardinality(LinesOf(name) \cup {Len(lines) + 1}) = Cardinality(LinesOf(name)) + 1
      BY <3>2, <3>3, FS_AddElement
    <3>5. Len(decl'[name]) = Len(decl[name]) + 1
      <4>1. added = Append(entries, Entry(t)) /\ decl'[name] = added /\ decl[name] = entries
        BY <1>4, <2>3 DEF entries, added
      <4>2. Len(Append(entries, Entry(t))) = Len(entries) + 1
        BY <1>2
      <4> QED BY <4>1, <4>2
    <3> QED BY <2>1, <3>1, <3>4, <3>5
  <2> QED BY <2>2, <2>3
<1> QED BY <1>4, <1>7, <1>8, <1>9, <1>1 DEF Faithful, Names

-----------------------------------------------------------------------------
(* The invariant. *)

LEMMA InitInv == Init => Inv
<1> SUFFICES ASSUME Init PROVE Inv
  OBVIOUS
<1>1. kind \in {"policy", "module", "conformance"} /\ lines = <<>> /\ DOMAIN lines = {}
  BY LinesAssumption DEF Init
<1>2. \A name \in Names : decl[name] = <<>> /\ DOMAIN decl[name] = {}
  BY DEF Init, Names
<1>3. Types
  <2>1. decl \in [Names -> Seq(Parts)]
    BY DEF Init, Names
  <2>2. "header" \in Names /\ DOMAIN decl = Names
    BY <2>1 DEF Names
  <2>3. lines \in Seq(Lines[kind])
    BY <1>1
  <2>4. kind \in Kinds /\ seenHeader = FALSE /\ inside = FALSE /\ outcome = "reading"
    BY DEF Init
  <2>5. seenHeader = (decl.header # <<>>)
    <3>1. decl.header = <<>>
      BY <1>2, <2>2
    <3> QED BY <2>4, <3>1
  <2> QED BY <2>1, <2>2, <2>3, <2>4, <2>5 DEF Types, TypeOK, Names
<1>4. Body
  BY <1>1 DEF Init, Body, Whole
<1>5. Faithful
  <2>1. \A name : LinesOf(name) = {}
    BY <1>1 DEF LinesOf
  <2>2. Counted
    <3>1. \A name \in Records[kind] : decl[name] = <<>>
      BY <1>2 DEF Names
    <3>2. Cardinality({}) = 0 /\ Len(<<>>) = 0
      BY FS_EmptySet
    <3> QED BY <2>1, <3>1, <3>2 DEF Counted
  <2> QED BY <1>1, <1>2, <2>2 DEF Faithful, NothingLost, NothingInvented, Names
<1> QED BY <1>3, <1>4, <1>5 DEF Inv

\* What every line keeps, whatever is made of it.
LEMMA LineKeepsTypes ==
    ASSUME Types, NEW t \in Lines[kind], Read(t), decl' \in [Names -> Seq(Parts)],
           inside' => seenHeader', seenHeader' = (decl'.header # <<>>),
           outcome' \in {"reading", "accepted", "refused"}
    PROVE  Types'
BY LineRead DEF Types, TypeOK, Names, Parts

\* A blank line changes nothing of the body.
LEMMA SkipLineKeeps == ASSUME Inv, SkipLine PROVE Inv'
<1>1. <<>> \in Lines[kind] /\ Read(<<>>) /\ UNCHANGED <<seenHeader, inside, decl, outcome>>
  BY DEF SkipLine
<1>2. Types'
  BY <1>1, LineKeepsTypes DEF Inv, Types, TypeOK
<1>3. ASSUME outcome # "refused" PROVE Body'
  <2>1. ~seenHeader => \A i \in DOMAIN lines' : lines'[i] = <<>>
    BY <1>1, <1>3, LineRead DEF Inv, Body
  <2>2. inside => \E first \in DOMAIN lines' : OpenAt(first)'
    <3>1. \A first \in DOMAIN lines : OpenAt(first) => OpenAt(first)'
      BY <1>1, LineRead DEF Inv, OpenAt
    <3> QED BY <1>1, <1>3, <3>1, LineRead DEF Inv, Body
  <2>3. Whole => \E first, end \in DOMAIN lines' : OneBody(first, end)'
    <3>1. \A first, end \in DOMAIN lines : OneBody(first, end) => OneBody(first, end)'
      BY <1>1, LineRead DEF Inv, OneBody
    <3> QED BY <1>1, <1>3, <3>1, LineRead DEF Inv, Body
  <2> QED BY <1>1, <2>1, <2>2, <2>3 DEF Body, Whole
<1>4. ASSUME outcome # "refused" PROVE Faithful'
  BY <1>1, <1>4, OtherLineIsFaithful DEF Inv
<1> QED BY <1>1, <1>2, <1>3, <1>4 DEF Inv

LEMMA OpenBodyKeeps == ASSUME Inv, OpenBody PROVE Inv'
<1> PICK header \in Lines[kind] :
        Opens(header) /\ Read(header) /\ decl' = [decl EXCEPT !.header = <<header>>]
  BY DEF OpenBody
<1> PICK n : n = Len(lines) + 1
  OBVIOUS
<1>1. /\ IsHeader(kind, header) /\ ~seenHeader /\ seenHeader' /\ inside'
      /\ outcome = "reading" /\ outcome' = outcome
  BY DEF OpenBody, Opens, Read
<1>2. Types /\ Body /\ Faithful
  BY <1>1 DEF Inv
<1>3. decl' \in [Names -> Seq(Parts)] /\ decl'.header # <<>>
      /\ \A name \in Records[kind] : decl'[name] = decl[name]
  <2>1. <<header>> \in Seq(Parts) /\ "header" \in Names /\ "header" \notin Records[kind]
    BY <1>2, KindIsKnown, RecordNames DEF Parts, Names
  <2> QED BY <1>2, <2>1 DEF Types, Names
<1>4. Types'
  BY <1>1, <1>2, <1>3, LineKeepsTypes
<1>5. Body'
  <2>1. OpenAt(n)'
    BY <1>1, <1>2, LineRead DEF Body, OpenAt
  <2>2. n \in DOMAIN lines'
    BY <1>2, LineRead
  <2> QED BY <1>1, <2>1, <2>2 DEF Body, Whole
<1>6. Faithful'
  <2>1. header[1] \notin Records[kind]
    BY <1>2, KindIsKnown, HeaderIsNoRecord DEF Opens
  <2> QED BY <1>2, <1>3, <2>1, OtherLineIsFaithful
<1> QED BY <1>4, <1>5, <1>6 DEF Inv

LEMMA CloseBodyKeeps == ASSUME Inv, CloseBody PROVE Inv'
<1> PICK t \in Lines[kind] : Closes(t) /\ Read(t)
  BY DEF CloseBody
<1> PICK n : n = Len(lines) + 1
  OBVIOUS
<1>1. /\ t # <<>> /\ t[1] = "}" /\ seenHeader /\ (kind = "conformance" \/ inside)
      /\ UNCHANGED <<seenHeader, decl, outcome>> /\ ~inside' /\ outcome = "reading"
  BY DEF CloseBody, Closes, Read, Inv, Types, TypeOK
<1>2. Types /\ Body /\ Faithful
  BY <1>1 DEF Inv
<1>3. Types'
  BY <1>1, <1>2, LineKeepsTypes DEF Types, TypeOK
<1>4. Body'
  <2>1. CASE inside
    <3>1. PICK first \in DOMAIN lines : OpenAt(first)
      BY <1>2, <2>1 DEF Body
    <3>2. n \in DOMAIN lines' /\ first \in DOMAIN lines' /\ first < n
      BY <1>2, LineRead
    <3>3. lines'[first] = lines[first] /\ lines'[n] = t /\ kind' = kind
      BY <1>2, LineRead
    <3>4. \A i \in DOMAIN lines' \ {first, n} :
            lines'[i] = <<>> \/ (first < i /\ i < n /\ lines'[i][1] \in Records[kind])
      BY <1>2, <3>1, LineRead DEF OpenAt
    <3>5. OneBody(first, n)'
      BY <1>1, <3>1, <3>2, <3>3, <3>4 DEF OpenAt, OneBody
    <3> QED BY <1>1, <3>2, <3>5 DEF Body, Whole
  <2>2. CASE ~inside
    <3>1. PICK first \in DOMAIN lines, end \in DOMAIN lines : OneBody(first, end)
      BY <1>1, <1>2, <2>2 DEF Body, Whole
    <3>2. OneBody(first, end)'
      BY <1>1, <1>2, <2>2, <3>1, LineRead DEF OneBody
    <3> QED BY <1>1, <1>2, <3>2, LineRead DEF Body, Whole
  <2> QED BY <2>1, <2>2
<1>5. Faithful'
  BY <1>1, <1>2, KindIsKnown, BraceIsNoRecord, OtherLineIsFaithful
<1> QED BY <1>3, <1>4, <1>5 DEF Inv

LEMMA ReadRecordKeeps == ASSUME Inv, ReadRecord PROVE Inv'
<1> PICK t \in Lines[kind] : Declares(t) /\ Read(t) /\ decl' = Added(decl, t)
  BY DEF ReadRecord
<1>1. /\ t # <<>> /\ seenHeader /\ inside /\ IsRecord(kind, t)
      /\ UNCHANGED <<seenHeader, inside, outcome>> /\ outcome = "reading"
  BY DEF ReadRecord, Declares, Read
<1>2. Types /\ Body /\ Faithful
  BY <1>1 DEF Inv
<1>3. Faithful' /\ decl' \in [Names -> Seq(Parts)] /\ decl'.header = decl.header
  BY <1>1, <1>2, RecordIsFaithful
<1>4. Types'
  BY <1>1, <1>2, <1>3, LineKeepsTypes DEF Types, TypeOK
<1>5. Body'
  <2>1. PICK first \in DOMAIN lines : OpenAt(first)
    BY <1>1, <1>2 DEF Body
  <2>2. OpenAt(first)'
    BY <1>1, <1>2, <2>1, LineRead DEF OpenAt, IsRecord
  <2> QED BY <1>1, <1>2, <2>2, LineRead DEF Body, Whole
<1> QED BY <1>3, <1>4, <1>5 DEF Inv

LEMMA EndKeeps ==
    ASSUME Inv, RefuseLine \/ ReadFailure \/ EndOfFile
    PROVE  Inv'
<1>1. CASE RefuseLine
  <2> PICK t \in Lines[kind] : Read(t)
    BY <1>1 DEF RefuseLine
  <2>1. UNCHANGED <<seenHeader, inside, decl>> /\ outcome' = "refused"
    BY <1>1 DEF RefuseLine
  <2>2. Types'
    BY <2>1, LineKeepsTypes DEF Inv, Types, TypeOK
  <2> QED BY <2>1, <2>2 DEF Inv
<1>2. CASE ReadFailure \/ EndOfFile
  <2>1. /\ UNCHANGED <<kind, lines, seenHeader, inside, decl>>
        /\ outcome = "reading" /\ outcome' \in {"accepted", "refused"}
    BY <1>2 DEF ReadFailure, EndOfFile
  <2>2. Types'
    BY <2>1 DEF Inv, Types, TypeOK, Names, Parts
  <2>3. Body'
    <3>1. Body = Body'
      BY <2>1 DEF Body, Whole, OpenAt, OneBody
    <3> QED BY <2>1, <3>1 DEF Inv
  <2>4. Faithful'
    BY <2>1, SameLinesFaithful DEF Inv
  <2> QED BY <2>2, <2>3, <2>4 DEF Inv
<1> QED BY <1>1, <1>2

LEMMA NextInv == Inv /\ [Next]_vars => Inv'
<1> SUFFICES ASSUME Inv, [Next]_vars PROVE Inv'
  OBVIOUS
<1>1. CASE UNCHANGED vars
  <2>1. Types'
    BY <1>1 DEF vars, Inv, Types, TypeOK, Names, Parts
  <2>2. Body = Body'
    BY <1>1 DEF vars, Body, Whole, OpenAt, OneBody
  <2>3. Faithful => Faithful'
    BY <1>1, SameLinesFaithful DEF vars
  <2> QED BY <1>1, <2>1, <2>2, <2>3 DEF vars, Inv
<1>2. CASE Ended
  BY <1>1, <1>2 DEF Ended
<1> QED BY <1>1, <1>2, SkipLineKeeps, OpenBodyKeeps, CloseBodyKeeps, ReadRecordKeeps, EndKeeps
        DEF Next

LEMMA Invariant == Spec => []Inv
BY InitInv, NextInv, PTL DEF Spec

\* An accepted file has passed the end of its body.
LEMMA AcceptedWasWhole == Spec => [](outcome = "accepted" => Whole)
<1>1. Init => (outcome = "accepted" => Whole)
  BY DEF Init
<1>2. (outcome = "accepted" => Whole) /\ [Next]_vars => (outcome = "accepted" => Whole)'
  BY DEF Next, vars, SkipLine, OpenBody, CloseBody, ReadRecord, RefuseLine, ReadFailure,
         EndOfFile, Ended, Read, Whole
<1> QED BY <1>1, <1>2, PTL DEF Spec

-----------------------------------------------------------------------------
(* The theorems. *)

\* The flags and the declaration of a parser keep their types, and the header
\* is there exactly when it has been seen.
THEOREM TypeCorrect == Spec => []TypeOK
<1>1. Inv => TypeOK
  BY DEF Inv, Types
<1> QED BY <1>1, Invariant, PTL

\* A file that is accepted is one complete body, whatever the lines are.
THEOREM OneBodyOnly == Spec => []AcceptedIsOneBody
<1>1. Inv /\ (outcome = "accepted" => Whole) => AcceptedIsOneBody
  BY DEF Inv, Body, AcceptedIsOneBody
<1> QED BY <1>1, Invariant, AcceptedWasWhole, PTL

\* Until a file is refused, the declaration says what the lines say: nothing
\* is lost but the records a later one supersedes, nothing is invented, and
\* what was said twice is there twice, where records add up.
THEOREM Faithfulness == Spec => [](outcome # "refused" => Faithful)
<1>1. Inv => (outcome # "refused" => Faithful)
  BY DEF Inv
<1> QED BY <1>1, Invariant, PTL

\* A file that is accepted loses none of its values, repeated keys included;
\* only a record that a later one supersedes is gone.
THEOREM ValuesKept == Spec => []NoValueLost
<1>1. Inv => NoValueLost
  <2> SUFFICES ASSUME Inv, outcome = "accepted", NEW n \in DOMAIN lines, lines[n] # <<>>,
                      lines[n][1] \in Records[kind], ~Superseded(n)
               PROVE  \E e \in DOMAIN decl[lines[n][1]] :
                          Holds(decl[lines[n][1]][e], lines[n])
    BY DEF NoValueLost
  <2> DEFINE t == lines[n]
  <2>1. Types /\ NothingLost
    BY DEF Inv, Faithful
  <2>2. /\ IsRecord(kind, t)
        /\ \E e \in DOMAIN decl[t[1]] : decl[t[1]][e] = Entry(t)
    BY <2>1 DEF NothingLost, IsRecordOf
  <2>3. t \in Seq(STRING) /\ kind \in {"policy", "module", "conformance"}
    <3>1. lines[n] \in Lines[kind]
      <4>1. lines \in Seq(Lines[kind])
        BY <2>1, KindIsKnown
      <4> QED BY Zenon, <4>1, InSequence
    <3> QED BY <2>1, <3>1, KindIsKnown
  <2> HIDE DEF t
  <2>4. ASSUME Fields[t[1]] # {}, NEW i \in KeysOf(t), t[i] \in Fields[t[1]], t[i + 1] # ""
        PROVE  Entry(t).value[t[i]] = t[i + 1]
    <3>1. Value(t, t[i]) = t[i + 1]
      BY <2>2, <2>3, <2>4, RecordIsPaired, ValueIsKept
    <3>2. Entry(t).value = [key \in Fields[t[1]] |-> Value(t, key)]
      BY <2>4 DEF Entry
    <3>3. [key \in Fields[t[1]] |-> Value(t, key)][t[i]] = Value(t, t[i])
      BY Zenon, <2>4
    <3> QED BY Zenon, <3>1, <3>2, <3>3
  <2>5. Fields[t[1]] # {} => Entry(t).id = t[2]
    BY DEF Entry
  <2>6. Fields[t[1]] = {} => Entry(t) = Tail(t)
    BY DEF Entry
  <2>7. Holds(Entry(t), t)
    BY <2>4, <2>5, <2>6 DEF Holds
  <2> QED BY <2>2, <2>7 DEF t
<1> QED BY <1>1, Invariant, PTL

\* Once a file could end, no line changes what it declares.
THEOREM NothingTorn == Spec => NothingAfterTheEnd
<1>1. [Next]_vars => [Whole => decl' = decl]_vars
  BY DEF Next, vars, SkipLine, OpenBody, CloseBody, ReadRecord, RefuseLine, ReadFailure,
         EndOfFile, Ended, Read, Whole, Opens, Declares
<1> QED BY <1>1, PTL DEF Spec, NothingAfterTheEnd
=============================================================================
