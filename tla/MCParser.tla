------------------------------- MODULE MCParser -------------------------------
EXTENDS ParseTree

Body == <<"fn", "Identifier", "LeftParen", "RightParen", "LeftBrace">>

EmptyBlock == <<"LeftBrace", "RightBrace">>

Declarations == [
    start |-> <<>>, length |-> 8,
    alphabet |-> {"pub", "fn", "Identifier", "LeftParen", "RightParen", "Colon", "Comma", "->",
                  "LeftBrace", "RightBrace", "Newline", "Semicolon", "struct"},
    endings |-> {<<>>, <<"RightBrace">>, <<"RightParen">> \o EmptyBlock,
                 <<"Identifier">> \o EmptyBlock}]

Types == [
    start |-> Body \o <<"let", "Identifier", "Colon">>, length |-> 5,
    alphabet |-> {"Identifier", "&", "mut", "LeftBracket", "RightBracket", "Semicolon",
                  "IntegerLiteral", "<", ">", "Comma", "LeftParen", "RightParen", "Newline", "Invalid"},
    endings |-> {<<"=", "Identifier", "RightBrace">>,
                 <<"RightBracket", "=", "Identifier", "RightBrace">>,
                 <<">", "=", "Identifier", "RightBrace">>}]

Statements == [
    start |-> Body, length |-> 6,
    alphabet |-> {"Identifier", "let", "=", "return", "if", "else", "LeftBrace", "RightBrace",
                  "Newline", "Semicolon"},
    endings |-> {<<"RightBrace">>, EmptyBlock \o <<"RightBrace">>,
                 <<"Identifier">> \o EmptyBlock \o <<"RightBrace">>}]

Loops == [
    start |-> Body, length |-> 6,
    alphabet |-> {"Identifier", "mut", "=", "while", "for", "in", "LeftBrace", "RightBrace",
                  "Newline"},
    endings |-> {<<>>, <<"RightBrace">>, EmptyBlock \o <<"RightBrace">>,
                 <<"RightBrace", "RightBrace">>}]

Operators == [
    start |-> Body, length |-> 5,
    alphabet |-> {"Identifier", "=", "||", "==", "<", "..", "+", "*", "-", "!", "&", "mut", "Newline"},
    endings |-> {<<"RightBrace">>, <<"Identifier", "RightBrace">>}]

Brackets == [
    start |-> Body, length |-> 5,
    alphabet |-> {"Identifier", "true", "LeftParen", "RightParen", "LeftBracket", "RightBracket",
                  "Comma", "Dot", "?", "-", "*", "=", "Newline"},
    endings |-> {<<"RightBrace">>, <<"RightParen", "RightBrace">>,
                 <<"RightBracket", "RightBrace">>, <<"Identifier", "RightBrace">>}]

MCFamilies == {Declarations, Types, Statements, Loops, Operators, Brackets}

=============================================================================
