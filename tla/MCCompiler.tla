----------------------------- MODULE MCCompiler -----------------------------
(* Programs of one theme each: a few kinds of statements, and as many of     *)
(* them as a run can enumerate.                                              *)
EXTENDS Compiler

Theme(size, of) == [kinds |-> of, size |-> size]

AllThemes ==
    {Theme(4, {"declare", "assign", "if", "body", "return"}),
     Theme(4, {"declare", "use", "break", "while", "if"}),
     Theme(5, {"declare", "continue", "do", "return"}),
     Theme(4, {"break", "return", "forever", "if"}),
     Theme(4, {"if", "return", "do", "continue"}),
     Theme(3, {"declare", "forever", "break", "continue"}),
     Theme(4, {"declare", "continue", "repeat", "for", "if"}),
     Theme(4, {"break", "named", "continue", "while", "never"}),
     Theme(3, {"return", "continue", "while", "for", "do", "forever"}),
     Theme(5, {"declare", "assign", "switch", "return"}),
     Theme(4, {"break", "declare", "switch", "while"}),
     Theme(4, {"throw", "return", "try", "if"}),
     Theme(5, {"throw", "retry", "try", "use"})}

\* Small programs for the run that shows one construct.
ContinueThemes == {Theme(4, {"if", "return", "for", "continue"})}
=============================================================================
