------------------------------- MODULE StrictJson -------------------------------
(***************************************************************************)
(* strictJson of core-release-authority.js: the reader of every JSON text  *)
(* a release depends on, which refuses what JSON.parse lets pass: a member *)
(* given twice and nesting without limit.  The text is a sequence of       *)
(* tokens; the recursion of value(), object() and array() is a nesting.      *)
(***************************************************************************)
EXTENDS Naturals, Sequences, SequencesExt

CONSTANTS
  Name,       \* strings, which are also member names
  MaxDepth,   \* limits.depth
  MaxTokens   \* bound on the tokens of a text

VARIABLES
  tokens,      \* what has been read
  nesting,       \* the open objects, each its `keys`, and arrays
  expects,     \* what may come next
  jsonVerdict  \* "reading", "parsed", "rejected", "unterminated"

jsonVars == <<tokens, nesting, expects, jsonVerdict>>

\* A number, true, false or null; a string, number or character the grammar does not have.
Scalar == "scalar"
Malformed == "malformed"

Token == {"{", "}", "[", "]", ":", ",", Scalar, Malformed} \union Name

JsonInit == tokens = <<>> /\ nesting = <<>> /\ expects = "value" /\ jsonVerdict = "reading"

--------------------------------------------------------------------------------

\* After a value: the end of the text, or what goes on in the container around it.
AfterValue(open) == IF open = <<>> THEN "end" ELSE "more"

Goes(open, next) == nesting' = open /\ expects' = next /\ jsonVerdict' = jsonVerdict

Reject == jsonVerdict' = "rejected" /\ UNCHANGED <<nesting, expects>>

InObject == nesting # <<>> /\ Last(nesting).object

\* Mutant of Opens: the limit is looked at after the container has been entered.
OpensLate(t) ==
  /\ t \in {"{", "["} /\ expects \in {"value", "item"}
  /\ IF Len(nesting) > MaxDepth THEN Reject
     ELSE Goes(Append(nesting, [object |-> t = "{", keys |-> {}]), IF t = "{" THEN "member" ELSE "item")

\* value(depth): a container is entered only below the limit.
Opens(t) ==
  /\ t \in {"{", "["} /\ expects \in {"value", "item"}
  /\ IF Len(nesting) >= MaxDepth THEN Reject
     ELSE Goes(Append(nesting, [object |-> t = "{", keys |-> {}]), IF t = "{" THEN "member" ELSE "item")

IsValue(t) ==
  /\ t \in Name \union {Scalar} /\ expects \in {"value", "item"}
  /\ Goes(nesting, AfterValue(nesting))

\* Mutant of Member: the names of the containers around it are taken for its own.
MemberOfAll(t) ==
  /\ t \in Name /\ expects \in {"member", "name"}
  /\ IF \E i \in DOMAIN nesting : t \in nesting[i].keys THEN Reject
     ELSE Goes([nesting EXCEPT ![Len(nesting)].keys = @ \union {t}], "colon")

\* A quoted member name, not given before in this object.
Member(t) ==
  /\ t \in Name /\ expects \in {"member", "name"}
  /\ IF t \in Last(nesting).keys THEN Reject
     ELSE Goes([nesting EXCEPT ![Len(nesting)].keys = @ \union {t}], "colon")

Colon(t) == t = ":" /\ expects = "colon" /\ Goes(nesting, "value")

Comma(t) == t = "," /\ expects = "more" /\ Goes(nesting, IF InObject THEN "name" ELSE "value")

\* Mutant of MayClose: a comma may stand before the closing brace.
MayCloseAfterComma(t) ==
  \/ t = "}" /\ InObject /\ expects \in {"member", "more", "name"}
  \/ t = "]" /\ ~InObject /\ expects \in {"item", "more"}

\* A container ends where it is empty or after a value, not after a comma.
MayClose(t) ==
  \/ t = "}" /\ InObject /\ expects \in {"member", "more"}
  \/ t = "]" /\ ~InObject /\ expects \in {"item", "more"}

Closes(t) == MayClose(t) /\ Goes(Front(nesting), AfterValue(Front(nesting)))

Accepts(t) == Opens(t) \/ IsValue(t) \/ Member(t) \/ Colon(t) \/ Comma(t) \/ Closes(t)

\* Whether the grammar has a place for a token here.
Fits(t) ==
  \/ expects \in {"value", "item"} /\ t \in Name \union {Scalar, "{", "["}
  \/ expects \in {"member", "name"} /\ t \in Name
  \/ expects = "colon" /\ t = ":"
  \/ expects = "more" /\ t = ","
  \/ MayClose(t)

ReadToken ==
  /\ jsonVerdict = "reading" /\ Len(tokens) < MaxTokens
  /\ \E t \in Token :
       /\ tokens' = Append(tokens, t)
       /\ IF Fits(t) THEN Accepts(t) ELSE Reject

\* The text ends: what is not closed is refused; anything after a whole value has been.
EndOfText ==
  /\ jsonVerdict = "reading"
  /\ jsonVerdict' = IF expects = "end" THEN "parsed" ELSE "unterminated"
  /\ UNCHANGED <<tokens, nesting, expects>>

Decided == jsonVerdict # "reading" /\ UNCHANGED jsonVars

JsonNext == ReadToken \/ EndOfText \/ Decided

JsonSpec == JsonInit /\ [][JsonNext]_jsonVars

--------------------------------------------------------------------------------
(* Properties.                                                                 *)

\* The texts of n tokens that are a value with d more levels of nesting, the items of an array, and
\* the members of an object whose names are none of `used`: the grammar, by generation.
RECURSIVE Texts(_, _), Items(_, _), Members(_, _, _)
Texts(d, n) ==
  IF n = 1 THEN {<<t>> : t \in Name \union {Scalar}}
  ELSE IF d = 0 \/ n < 2 THEN {}
  ELSE {<<"[">> \o s \o <<"]">> : s \in IF n = 2 THEN {<<>>} ELSE Items(d - 1, n - 2)}
         \union {<<"{">> \o s \o <<"}">> : s \in IF n = 2 THEN {<<>>} ELSE Members(d - 1, n - 2, {})}
Items(d, n) ==
  Texts(d, n) \union
    UNION {{s \o <<",">> \o rest : s \in Texts(d, k), rest \in Items(d, n - k - 1)} : k \in 1..(n - 2)}
Members(d, n, used) ==
  UNION {
    {<<name, ":">> \o s : s \in Texts(d, n - 2)} \union
      UNION {{<<name, ":">> \o s \o <<",">> \o rest :
                s \in Texts(d, k), rest \in Members(d, n - k - 3, used \union {name})} : k \in 1..(n - 4)} :
    name \in Name \ used}

Documents == UNION {Texts(MaxDepth, n) : n \in 1..MaxTokens}
Beginnings == UNION {{SubSeq(s, 1, k) : k \in 1..Len(s)} : s \in Documents}

\* The reader parses exactly the documents: what JSON allows, with no member name twice in one object
\* (the same name in two objects is right) and no nesting over the limit; it refuses a text at the
\* first token no document goes on with.
JsonIsStrict ==
  /\ jsonVerdict = "parsed" => tokens \in Documents
  /\ jsonVerdict = "unterminated" => tokens \notin Documents
  /\ jsonVerdict = "rejected" => tokens \notin Beginnings
================================================================================
