------------------------------- MODULE SsaMC -------------------------------
(***************************************************************************)
(* SsaMachine as the runs instantiate it: menus of programs without        *)
(* variable copies, and copies in loops for the LLVM backend or, in a run  *)
(* of their own, for the C backend.                                        *)
(***************************************************************************)
EXTENDS SsaMachine

Menu(budget, backends, features) ==
  [budget |-> budget, backends |-> backends, features |-> features]

AllMenus ==
  {Menu(3, {"c", "llvm"}, {"test x", "test y", "add", "set", "div", "count", "if", "while", "for",
                           "each", "break", "continue", "return", "assert"}),
   Menu(4, {"c", "llvm"}, {"test x", "add", "if", "while", "for", "break", "continue"}),
   Menu(4, {"c", "llvm"}, {"test y", "div", "count", "if", "while", "each", "return"}),
   Menu(4, {"llvm"}, {"test x", "add", "copy", "while", "for", "break"}),
   Menu(3, {"c"}, {"test x", "add", "set", "if", "while", "bare assert"})}

CopyMenu == {Menu(3, {"c"}, {"test x", "add", "copy", "while"})}
=============================================================================
