---------------------------- MODULE MCTypedCode -----------------------------
(* Small functions over values of each type, parsed, compiled and called.  *)
(* Words have 4 bits, i16 and u16 have 3, i8 and u8 have 2.  The pool has   *)
(* two entries and two bytes.                                              *)
EXTENDS TypedValues

Author(takes, returns, literals, operators) ==
    [parameters |-> takes, locals |-> <<>>, result |-> returns,
     literals |-> literals, operators |-> operators, spellings |-> <<>>]
AndTexts(author, texts) == [author EXCEPT !.spellings = texts]
AndLocal(author, type) == [author EXCEPT !.locals = <<type>>]

Text(type, bytes) == [type |-> type, text |-> bytes]

MCAuthors ==
    {Author(<<"i8">>, "i8", {1, 2}, {"-", "*", "/"}),
     Author(<<"u8", "i32">>, "bool", {3}, {"+", "<", "/"}),
     AndLocal(Author(<<"i16">>, "i16", {3}, {"*", "/"}), "i16"),
     AndLocal(Author(<<"u16">>, "bool", {7}, {"-", ">="}), "u16"),
     Author(<<"i32", "i32">>, "i32", {0}, {"+", "*", "/"}),
     Author(<<"bool">>, "bool", {1}, {"==", "!=", "<"}),
     AndLocal(Author(<<"i32">>, "i8", {2}, {"-"}), "i8"),
     AndTexts(Author(<<"bool", "string">>, "bool", {}, {"=="}),
              <<Text("string", <<1>>), Text("string", <<2>>)>>),
     AndTexts(AndLocal(Author(<<"string", "bool", "string">>, "string", {},
                              {}), "string"),
              <<Text("string", <<1>>), Text("string", <<2>>),
                Text("string", <<2, 2>>)>>),
     AndTexts(AndLocal(Author(<<"symbol">>, "bool", {}, {"=="}), "bool"),
              <<Text("string", <<1>>), Text("symbol", <<1>>),
                Text("symbol", <<>>)>>),
     Author(<<"string", "string", "string">>, "string", {}, {})}

MCSamples == {0, 1, 2, 3, 7, 8, 14, 15}
=============================================================================
