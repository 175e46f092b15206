-------------------------- MODULE DeclarationParser --------------------------
(***************************************************************************)
(* The line parsers of internal/compiler/parser.go: ParsePolicyFile,       *)
(* ParseModuleFile and ParseConformanceFile read one file line by line     *)
(* into a declaration, or refuse it.                                       *)
(*                                                                         *)
(* A line is the sequence of its tokens: <<>> when cleanLine leaves        *)
(* nothing, Broken when tokenize fails.  The lexical form of names and     *)
(* numbers is left out.                                                    *)
(***************************************************************************)
EXTENDS Naturals, Sequences, Functions

CONSTANTS
    Kinds,       \* the kinds of file read: "policy", "module", "conformance"
    Lines,       \* Lines[kind]: the lines a file of that kind may hold
    MaxLines,    \* MaxLines[kind]: bound on the number of lines of a file
    Denominator  \* the number of cells of a policy, 12 in the code

\* Tokens are strings, and the kinds of file are the three the code reads.
ASSUME LinesAssumption ==
    /\ Kinds \subseteq {"policy", "module", "conformance"}
    /\ \A k \in Kinds : Lines[k] \subseteq Seq(STRING)

VARIABLES
    kind,        \* which of the parsers runs
    lines,       \* the lines read so far
    seenHeader, inside,
    decl,        \* name of a record -> the entries read
    outcome      \* "reading", "accepted" or "refused"

vars == <<kind, lines, seenHeader, inside, decl, outcome>>

Broken == << "broken" >>

\* The keys each record is read with; other keys are passed over.
Fields ==
    [ precedence     |-> {}, unknown_fields |-> {}, export |-> {},
      denominator    |-> {"count"},
      generation     |-> {"package", "entrypoint"},
      cell           |-> {"stage", "step", "closed", "unknown", "refuted"},
      dependency     |-> {"release", "semantic_digest", "edge", "invalidates"},
      invalidation   |-> {"kind", "scope"},
      test_owner     |-> {"owner", "covers", "kind", "command"},
      scenario       |-> {"expect", "input", "selected"} ]

Records ==
    [ policy      |-> {"precedence", "unknown_fields", "denominator", "cell", "generation"},
      module      |-> {"export", "dependency", "invalidation", "test_owner"},
      conformance |-> {"scenario"} ]

\* A later record of these names replaces the earlier one; the others add up.
Replacing == {"unknown_fields", "denominator", "generation"}

IsHeader(k, t) ==
    \/ k = "policy"      /\ Len(t) = 3 /\ t[1] = "compiler" /\ t[3] = "{"
    \/ k = "conformance" /\ Len(t) = 3 /\ t[1] = "conformance" /\ t[3] = "{"
    \/ k = "module"      /\ Len(t) = 7 /\ t[1] = "module" /\ t[3] = "release"
                         /\ t[5] = "semantic_digest" /\ t[7] = "{"

-----------------------------------------------------------------------------
(* Key and value pairs. *)

\* pairsAfter reads pairs from the third token on.
KeysOf(t) == {i \in 3..Len(t) : i % 2 = 1}

\* Mutant: a key may come again, whatever its value was.
Paired_Overwrites(t) ==
    Len(t) % 2 = 0 /\ \A i \in KeysOf(t) : t[i] \notin {"", "{", "}"}

\* A key whose value so far is the empty string may come again.
Paired(t) ==
    /\ Len(t) % 2 = 0
    /\ \A i \in KeysOf(t) :
          /\ t[i] \notin {"", "{", "}"}
          /\ \A j \in KeysOf(t) : j < i /\ t[j] = t[i] => t[j + 1] = ""

Value(t, key) ==
    LET at == {i \in KeysOf(t) : t[i] = key}
    IN  IF at = {} THEN "" ELSE t[1 + CHOOSE i \in at : \A j \in at : j <= i]

\* What a record must look like to be read.
IsRecord(k, t) ==
    /\ t[1] \in Records[k]
    /\ CASE t[1] = "precedence"     -> Len(t) = 4
         [] t[1] = "unknown_fields" -> TRUE
         [] t[1] = "export"         -> Len(t) = 2
         [] OTHER -> Len(t) >= 3 /\ Paired(t)
    /\ t[1] = "denominator" => Value(t, "count") # ""
    /\ t[1] = "scenario" => Value(t, "selected") \in {"true", "false"}

\* The entry a record leaves: its own tokens, or its name and its fields.
Entry(t) ==
    IF Fields[t[1]] = {} THEN Tail(t)
    ELSE [id |-> t[2], value |-> [key \in Fields[t[1]] |-> Value(t, key)]]

Added(entries, t) ==
    [entries EXCEPT ![t[1]] =
        IF t[1] \in Replacing THEN <<Entry(t)>> ELSE Append(@, Entry(t))]

-----------------------------------------------------------------------------
(* Validation of the whole, once the file has ended. *)

Filled(list, keys) ==
    \A i \in DOMAIN list : \A key \in keys : list[i].value[key] # ""
Named(list) == \A i \in DOMAIN list : list[i].id # ""
Ids(list)   == [i \in DOMAIN list |-> list[i].id]
Edges(list) == [i \in DOMAIN list |-> list[i].value["edge"]]

ValidPolicy(d) ==
    /\ d.header[1][2] = "v1"
    /\ Len(d.denominator) = 1 /\ Named(d.denominator)
    /\ d.denominator[1].value["count"] = "full"
    /\ Len(d.cell) = Denominator /\ IsInjective(Ids(d.cell))
    /\ Named(d.cell) /\ Filled(d.cell, Fields.cell)
    /\ d.precedence = << <<"REFUTED", "UNKNOWN", "CLOSED">> >>
    /\ d.unknown_fields = << <<"six fields">> >>
    /\ Len(d.generation) = 1 /\ d.generation[1].id = "go"
    /\ Filled(d.generation, Fields.generation)

ValidModule(d) ==
    /\ IsInjective(d.export)
    /\ IsInjective(Ids(d.invalidation)) /\ Filled(d.invalidation, Fields.invalidation)
    /\ IsInjective(Ids(d.test_owner)) /\ Filled(d.test_owner, Fields.test_owner)
    /\ \A i \in DOMAIN d.test_owner : d.test_owner[i].value["owner"] = d.header[1][2]
    /\ IsInjective(Edges(d.dependency))
    /\ Filled(d.dependency, {"release", "edge", "invalidates"})

Valid(k, d) ==
    CASE k = "policy"      -> ValidPolicy(d)
      [] k = "module"      -> ValidModule(d)
      [] k = "conformance" -> d.header[1][2] # "" /\ d.scenario # <<>>

-----------------------------------------------------------------------------
Init ==
    /\ kind \in Kinds
    /\ lines = <<>>
    /\ seenHeader = FALSE /\ inside = FALSE
    /\ decl = [name \in Records[kind] \cup {"header"} |-> <<>>]
    /\ outcome = "reading"

Read(t) ==
    /\ outcome = "reading" /\ Len(lines) < MaxLines[kind]
    /\ lines' = Append(lines, t)
    /\ UNCHANGED kind

Opens(t)    == t # <<>> /\ ~seenHeader /\ IsHeader(kind, t)

\* The manifest may be closed more than once, and with more on the line.
Closes(t) ==
    /\ t # <<>> /\ seenHeader /\ t[1] = "}"
    /\ kind = "conformance" \/ (Len(t) = 1 /\ inside)

\* Mutant: a record is read wherever it stands.
Declares_Anywhere(t) == t # <<>> /\ seenHeader /\ IsRecord(kind, t)

Declares(t) == t # <<>> /\ seenHeader /\ inside /\ IsRecord(kind, t)

\* cleanLine leaves nothing of a blank line or a comment.
SkipLine ==
    /\ <<>> \in Lines[kind] /\ Read(<<>>)
    /\ UNCHANGED <<seenHeader, inside, decl, outcome>>

\* Mutant: what the header says is not kept.
OpenBody_Forgets == \E t \in Lines[kind] :
    /\ Opens(t) /\ Read(t)
    /\ seenHeader' = TRUE /\ inside' = TRUE
    /\ UNCHANGED <<decl, outcome>>

OpenBody == \E t \in Lines[kind] :
    /\ Opens(t) /\ Read(t)
    /\ seenHeader' = TRUE /\ inside' = TRUE
    /\ decl' = [decl EXCEPT !.header = <<t>>]
    /\ UNCHANGED outcome

CloseBody == \E t \in Lines[kind] :
    /\ Closes(t) /\ Read(t)
    /\ inside' = FALSE
    /\ UNCHANGED <<seenHeader, decl, outcome>>

ReadRecord == \E t \in Lines[kind] :
    /\ Declares(t) /\ Read(t)
    /\ decl' = Added(decl, t)
    /\ UNCHANGED <<seenHeader, inside, outcome>>

RefuseLine == \E t \in Lines[kind] \ {<<>>} :
    /\ ~Opens(t) /\ ~Closes(t) /\ ~Declares(t) /\ Read(t)
    /\ outcome' = "refused"
    /\ UNCHANGED <<seenHeader, inside, decl>>

\* The file cannot be opened or read, or a line is longer than the scanner takes.
ReadFailure ==
    /\ outcome = "reading"
    /\ outcome' = "refused"
    /\ UNCHANGED <<kind, lines, seenHeader, inside, decl>>

\* Mutant: what is still open when the file ends is taken as it is.
Whole_Open == seenHeader

\* The declaration is complete: the file may end here.
Whole == seenHeader /\ ~inside

EndOfFile ==
    /\ outcome = "reading"
    /\ outcome' = IF Whole /\ Valid(kind, decl) THEN "accepted" ELSE "refused"
    /\ UNCHANGED <<kind, lines, seenHeader, inside, decl>>

Ended == outcome # "reading" /\ UNCHANGED vars

Next ==
    \/ SkipLine \/ OpenBody \/ CloseBody \/ ReadRecord \/ RefuseLine
    \/ ReadFailure \/ EndOfFile \/ Ended

Spec == Init /\ [][Next]_vars

-----------------------------------------------------------------------------
TypeOK ==
    /\ kind \in Kinds
    /\ lines \in Seq(Lines[kind])
    /\ inside => seenHeader
    /\ seenHeader = (decl.header # <<>>)
    /\ DOMAIN decl = Records[kind] \cup {"header"}
    /\ outcome \in {"reading", "accepted", "refused"}

\* Lines first and end are the header and the brace of the one body; the
\* manifest's brace may be repeated.
OneBody(first, end) ==
    /\ first < end
    /\ IsHeader(kind, lines[first])
    /\ lines[end] # <<>> /\ lines[end][1] = "}"
    /\ \A i \in DOMAIN lines \ {first, end} :
          \/ lines[i] = <<>>
          \/ first < i /\ i < end /\ lines[i][1] \in Records[kind]
          \/ end < i /\ kind = "conformance" /\ lines[i][1] = "}"

\* An accepted file is a header, records, a closing brace and nothing more: a
\* file cut off anywhere, or one glued to another, is refused.
AcceptedIsOneBody ==
    outcome = "accepted" => \E first, end \in DOMAIN lines : OneBody(first, end)

\* No torn declaration: once a file could end and be accepted, no further line
\* changes what it declares, so a file and an accepted beginning of it agree.
NothingAfterTheEnd == [][Whole => decl' = decl]_vars

\* A later record of the same name has taken the place of line n.
Superseded(n) ==
    /\ lines[n][1] \in Replacing
    /\ \E m \in DOMAIN lines : n < m /\ lines[m] # <<>> /\ lines[m][1] = lines[n][1]

\* An entry holds what a line says: all its tokens, or its name and every
\* value it gives to a key that is known.
Holds(entry, t) ==
    IF Fields[t[1]] = {} THEN entry = Tail(t)
    ELSE /\ entry.id = t[2]
         /\ \A i \in KeysOf(t) :
                t[i] \in Fields[t[1]] /\ t[i + 1] # "" => entry.value[t[i]] = t[i + 1]

\* Nothing written is lost: what a record of an accepted file says, the values
\* of repeated keys included, stands in one entry of the declaration, unless
\* the record is superseded.  Keys that no record has are passed over.
NoValueLost ==
    outcome = "accepted" =>
        \A n \in DOMAIN lines :
            lines[n] # <<>> /\ lines[n][1] \in Records[kind] /\ ~Superseded(n) =>
                \E e \in DOMAIN decl[lines[n][1]] : Holds(decl[lines[n][1]][e], lines[n])
=============================================================================
