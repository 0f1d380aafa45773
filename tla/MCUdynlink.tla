----------------------------- MODULE MCUdynlink ------------------------------
(***************************************************************************)
(* Instances of Udynlink for TLC: programs of two words of code and data   *)
(* with every relocation there can be.                                     *)
(***************************************************************************)
EXTENDS Udynlink, TLC

CONSTANTS b1, b2

MCBlocks == {b1, b2}
BlocksAlike == Permutations(MCBlocks)
MCRequired == {"run", "ticktime"}
MCExports == {"printf"}

Sym(name, type, location, val) == [name |-> name, type |-> type, location |-> location, val |-> val]

\* The name of the module, the symbols the loader wants, a static variable that is
\* cleared, an import that is known and one that is not.
Syms == <<Sym("plc", "name", "code", 0), Sym("run", "exported", "code", 1),
          Sym("ticktime", "exported", "data", 1), Sym("(N/A)", "local", "data", 2),
          Sym("printf", "extern", "code", 0), Sym("puts", "extern", "code", 0)>>

\* A relocation of word at, the last of the LOT or the first of the data, with a
\* symbol; one of a word of the data with the address of word sym of the data.
Rels == [abs : {FALSE}, at : 1 .. 2, sym : 2 .. 6] \cup [abs : {TRUE}, at : 2 .. 3, sym : {0, 2}]

Program(rels) ==
    [sign |-> TRUE, lot |-> 2, code |-> 2, data |-> 2, bss |-> 1, syms |-> Syms, rels |-> rels]
NotAProgram == [Program(<<>>) EXCEPT !.sign = FALSE]
\* A program whose only symbols are in its code: executed in the flash it needs no RAM.
NoRam == [Program(<<>>) EXCEPT !.lot = 0, !.data = 0, !.bss = 0,
                                !.syms = <<Sym("run", "exported", "code", 1), Sym("ticktime", "exported", "code", 0)>>]

\* Each of them alone, and some together.
MCImages ==
    {Program(<<r>>) : r \in Rels} \cup {NotAProgram, NoRam}
    \cup {Program(<<[abs |-> FALSE, at |-> 0, sym |-> s], [abs |-> FALSE, at |-> 1, sym |-> 4],
                    [abs |-> TRUE, at |-> 3, sym |-> 1]>>) : s \in 2 .. 6}

\* They are as the compiler delivers them.
ASSUME MCLinkable == \A i \in MCImages : Linkable(i)
=============================================================================
