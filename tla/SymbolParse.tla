----------------------------- MODULE SymbolParse -----------------------------
(***************************************************************************)
(* The symbol parser of PrismCodebaseIndexerService (_parseSymbols,        *)
(* _parseTSJS, _parsePython, _createSymbol in codebaseIndexerService.ts). *)
(* The text is split on LF and each line is matched against regular       *)
(* expressions, in a fixed order, taking at most one symbol per line.      *)
(*                                                                         *)
(* A line is a sequence of tokens: words (identifier characters), one      *)
(* blank, "=" and "(". Two words or two blanks are never adjacent (they    *)
(* would be one). A regular expression match is computed on the tokens     *)
(* with the character positions the tokens give.                           *)
(***************************************************************************)
EXTENDS Naturals, Sequences, SequencesExt

CONSTANTS
    Words,      \* the words a line may hold (keywords among them)
    MaxTokens,  \* the longest line, in tokens
    Exts        \* the extensions a file name may end with

SP == " "
EQ == "="
LP == "("
Tokens == Words \cup {SP, EQ, LP}

Lines == {l \in BoundedSeq(Tokens, MaxTokens) :
            \A i \in 1..(Len(l) - 1) : ~(l[i] \in Words /\ l[i + 1] \in Words)
                                      /\ ~(l[i] = SP /\ l[i + 1] = SP)}

\* The text of a line, and the 0-based character offset of its token i.
RECURSIVE Text(_)
Text(l) == IF l = <<>> THEN "" ELSE Head(l) \o Text(Tail(l))

Offset(l, i) == Len(Text(SubSeq(l, 1, i - 1)))

EndsWith(w, kw) == Len(w) >= Len(kw) /\ SubSeq(w, Len(w) - Len(kw) + 1, Len(w)) = kw

(***************************************************************************)
(* /kw\s+([a-zA-Z0-9_$]+)/ and its kin, unanchored: the match may start    *)
(* inside a word that ends with the keyword. A match is                    *)
(* [name, index]: the captured word and match.index.                       *)
(***************************************************************************)
\* kw\s+(name) starting in token i, for a keyword of kws.
KwAt(l, i, kws) ==
    { [name |-> l[i + 2], index |-> Offset(l, i) + Len(l[i]) - Len(kw)] :
        kw \in {k \in kws : i + 2 <= Len(l) /\ l[i] \in Words /\ EndsWith(l[i], k)
                            /\ l[i + 1] = SP /\ l[i + 2] \in Words} }

\* (?:const|let|var)\s+(name)\s*= starting in token i.
AssignAt(l, i) ==
    { m \in KwAt(l, i, {"const", "let", "var"}) :
        \/ i + 3 <= Len(l) /\ l[i + 3] = EQ
        \/ i + 4 <= Len(l) /\ l[i + 3] = SP /\ l[i + 4] = EQ }

\* RegExp.exec: the leftmost match, as a set (empty when none).
Leftmost(l, MatchAt(_)) ==
    LET starts == {i \in 1..Len(l) : MatchAt(i) # {}}
    IN IF starts = {} THEN {}
       ELSE MatchAt(CHOOSE i \in starts : \A j \in starts : i <= j)

funcRegex(l)      == Leftmost(l, LAMBDA i : KwAt(l, i, {"function"}))
classRegex(l)     == Leftmost(l, LAMBDA i : KwAt(l, i, {"class"}))
constRegex(l)     == Leftmost(l, LAMBDA i : AssignAt(l, i))
interfaceRegex(l) == Leftmost(l, LAMBDA i : KwAt(l, i, {"interface"}))

\* /^\s*kw\s+(name)/: the keyword is the first word, after at most a blank.
AnchoredAt(l, kw) ==
    LET i == IF Len(l) >= 1 /\ l[1] = SP THEN 2 ELSE 1
    IN IF i + 2 <= Len(l) /\ l[i] = kw /\ l[i + 1] = SP /\ l[i + 2] \in Words
       THEN {[name |-> l[i + 2], index |-> 0]} ELSE {}

\* _createSymbol: 1-based line and columns, the end column name.length on.
createSymbol(m, kind, i) ==
    [name |-> m.name, kind |-> kind, startLine |-> i + 1, endLine |-> i + 1,
     startColumn |-> m.index + 1, endColumn |-> m.index + 1 + Len(m.name)]

FirstSymbolAll(rules, i) ==
    FlattenSeq([k \in 1..Len(rules) |->
                  IF rules[k][1] = {} THEN <<>>
                  ELSE <<createSymbol(CHOOSE m \in rules[k][1] : TRUE, rules[k][2], i)>>])

\* The first of the ordered (regex, kind) pairs that matches line i.
FirstSymbol(rules, i) ==
    LET hits == {k \in 1..Len(rules) : rules[k][1] # {}}
    IN IF hits = {} THEN <<>>
       ELSE LET k == CHOOSE k \in hits : \A j \in hits : k <= j
                m == CHOOSE m \in rules[k][1] : TRUE
            IN <<createSymbol(m, rules[k][2], i)>>

\* _parseTSJS: for each line (0-based i), function, else class, else a
\* const/let/var assignment, else interface.
RECURSIVE parseTSJS(_, _)
parseTSJS(lines, i) ==
    IF i >= Len(lines) THEN <<>>
    ELSE LET l == lines[i + 1]
         IN FirstSymbol(<<<<funcRegex(l), "function">>, <<classRegex(l), "class">>,
                          <<constRegex(l), "variable">>, <<interfaceRegex(l), "interface">>>>, i)
            \o parseTSJS(lines, i + 1)

\* _parsePython: def, else class, both anchored at the start of the line.
RECURSIVE parsePython(_, _)
parsePython(lines, i) ==
    IF i >= Len(lines) THEN <<>>
    ELSE LET l == lines[i + 1]
         IN FirstSymbol(<<<<AnchoredAt(l, "def"), "function">>,
                          <<AnchoredAt(l, "class"), "class">>>>, i)
            \o parsePython(lines, i + 1)

\* uri.path.split('.').pop()?.toLowerCase() of the extensions modelled.
LowerExt(e) == IF e = "TS" THEN "ts" ELSE IF e = "PY" THEN "py" ELSE e

parseSymbolsTsOnly(ext, lines) ==
    IF LowerExt(ext) \in {"ts", "js"} THEN parseTSJS(lines, 0)
    ELSE IF LowerExt(ext) = "py" THEN parsePython(lines, 0)
    ELSE <<>>

\* _parseSymbols: the parser by extension; other files have no symbols.
parseSymbols(ext, lines) ==
    IF LowerExt(ext) \in {"ts", "js", "tsx", "jsx"} THEN parseTSJS(lines, 0)
    ELSE IF LowerExt(ext) = "py" THEN parsePython(lines, 0)
    ELSE <<>>

(***************************************************************************)
(* One file through the parser: updateFileIndex parses the text it read.   *)
(***************************************************************************)
VARIABLES ext, file, symbols, parsed

vars == <<ext, file, symbols, parsed>>

Symbols == [name : Words, kind : {"function", "class", "variable", "interface"},
            startLine : Nat, endLine : Nat, startColumn : Nat, endColumn : Nat]

TypeOK ==
    /\ ext \in Exts
    /\ file \in Seq(Lines)
    /\ symbols \in Seq(Symbols)
    /\ Len(symbols) <= Len(file)
    /\ parsed \in BOOLEAN

Init ==
    /\ ext \in Exts
    /\ file \in {<<l>> : l \in Lines}
    /\ symbols = <<>>
    /\ parsed = FALSE

Parse ==
    /\ ~parsed
    /\ symbols' = parseSymbols(ext, file)
    /\ parsed' = TRUE
    /\ UNCHANGED <<ext, file>>

Done == parsed /\ UNCHANGED vars

Next == Parse \/ Done

Spec == Init /\ [][Next]_vars

(***************************************************************************)
(* Properties.                                                             *)
(***************************************************************************)
Keywords == {"function", "class", "const", "let", "var", "interface", "def"}

KindOf(kw) ==
    CASE kw = "function" -> "function" [] kw = "def" -> "function"
      [] kw = "class" -> "class" [] kw = "interface" -> "interface"
      [] OTHER -> "variable"

\* Line l declares name l[3] with keyword kw at its start, as the language
\* writes it (an assignment for const/let/var), and no other word of the
\* line ends with a keyword.
Declares(l, kw, lang) ==
    /\ Len(l) >= 3 /\ l[1] = kw /\ l[2] = SP /\ l[3] \in Words \ Keywords
    /\ kw \in CASE lang = "py" -> {"def", "class"}
              [] lang = "ts" -> {"function", "class", "const", "let", "var", "interface"}
              [] OTHER -> {}
    /\ kw \in {"const", "let", "var"} =>
          Len(l) >= 4 /\ (l[4] = EQ \/ (Len(l) >= 5 /\ l[4] = SP /\ l[5] = EQ))
    /\ \A j \in 2..Len(l) : \A k \in Keywords : l[j] \in Words => ~EndsWith(l[j], k)

Lang(e) == CASE LowerExt(e) \in {"ts", "js", "tsx", "jsx"} -> "ts"
             [] LowerExt(e) = "py" -> "py"
             [] OTHER -> "none"

\* Every line of a TypeScript, JavaScript or Python file that is a plain
\* declaration is indexed, with its name, its kind and its line, whatever
\* the case of the extension (_parseSymbols dispatches on it).
DeclarationIndexed ==
    parsed =>
      \A i \in 1..Len(file), kw \in Keywords :
        Declares(file[i], kw, Lang(ext)) =>
          \E s \in ToSet(symbols) :
            s.name = file[i][3] /\ s.kind = KindOf(kw) /\ s.startLine = i

\* The range of every symbol spans its name: the characters of its line
\* from startColumn up to endColumn are the name (_createSymbol computes
\* endColumn as startColumn + name.length).
RangeCoversName ==
    parsed =>
      \A k \in 1..Len(symbols) :
        LET s == symbols[k]
        IN SubSeq(Text(file[s.startLine]), s.startColumn, s.endColumn - 1) = s.name

====
