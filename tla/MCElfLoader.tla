---------------------------- MODULE MCElfLoader ----------------------------
(* Files of an empty one, one that is no ELF file, and all those with a    *)
(* string table and three sections of the names looked up and another, in  *)
(* any order and repeated, of which any part may be cut off.               *)
EXTENDS ElfLoader

Section(name, offset, size) == [name |-> name, offset |-> offset, size |-> size]

SectionNames == {".debug_info", ".debug_frame", ".eh_frame", ".text"}

(* The header takes two bytes, the table starts at 6, its entries take two *)
(* and the sections one each, from 2 on.                                   *)
ElfFile(size, readable, names) ==
  [size |-> size, readable |-> readable, shoff |-> IF names = <<>> THEN 0 ELSE 6,
   shstrndx |-> 0,
   headers |-> <<Section(".shstrtab", 2, 1)>> \o
                 [i \in 1 .. Len(names) |-> Section(names[i], 2 + i, i)]]

MCFiles ==
  { ElfFile(0, FALSE, <<>>), ElfFile(14, FALSE, <<".debug_info">>),
    [ElfFile(14, TRUE, <<>>) EXCEPT !.headers = <<>>],
    [ElfFile(14, TRUE, <<".debug_info">>) EXCEPT !.shstrndx = 7] }
  \cup { ElfFile(size, TRUE, <<a, b, c>>) :
           size \in {7, 9, 12, 14}, a \in SectionNames, b \in SectionNames,
           c \in {".debug_info", ".eh_frame"} }
  \cup { [ElfFile(14, TRUE, <<a, ".debug_info", b>>) EXCEPT !.headers[2].size = 20] :
           a \in {".text", ".debug_frame"}, b \in SectionNames }

=============================================================================
