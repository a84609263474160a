----------------------------- MODULE MCToolArgs -----------------------------
(***************************************************************************)
(* The raw values the validator is tried on: for URI parameters the forms  *)
(* of a path, a directory, a well-formed and a malformed URI and the       *)
(* absent forms; for the others every kind of JavaScript value, with       *)
(* integer, fractional, zero and non-numeric texts and numbers.       *)
(***************************************************************************)
EXTENDS ToolArgs

MCUriRaws == {Undef, JNull, Str("null"), Str("src/a.ts"), Str("src/"),
              Str("file:///a.ts"), Str("a b://x")}

MCValueRaws == {Undef, JNull, Str(""), Str("null"), Str("undefined"),
                Str("true"), Str("2"), Str("2.5"), Num(0, FALSE),
                Num(2, FALSE), Num(2, TRUE), Num(0, TRUE), Bool(FALSE), Bool(TRUE)}
====
