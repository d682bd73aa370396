------------------------------ MODULE MCProcess ------------------------------
(***************************************************************************)
(* A small archive, in the order find gives: a directory with a program    *)
(* and a text file, a file, then a directory within a directory.  The name *)
(* of the program begins the name of the text file.                        *)
(***************************************************************************)
EXTENDS Process

MCPerPage == [task |-> 1, mm |-> 2, vma |-> 3]
MCTar == << [name |-> <<"bin/">>, dir |-> TRUE, size |-> 0, elf |-> 0],
            [name |-> <<"bin/", "a">>, dir |-> FALSE, size |-> 3, elf |-> 2],
            [name |-> <<"bin/", "a", "b">>, dir |-> FALSE, size |-> 1, elf |-> 0],
            [name |-> <<"c">>, dir |-> FALSE, size |-> 1, elf |-> 0],
            [name |-> <<"etc/">>, dir |-> TRUE, size |-> 0, elf |-> 0],
            [name |-> <<"etc/", "rc/">>, dir |-> TRUE, size |-> 0, elf |-> 0] >>
MCPaths == { <<"/", "+">>, <<"bin/", "a">>, <<"bin/", "a", "b">>, <<"etc/", "+">> }
MCDirs == { <<"etc/">>, <<"bin/", "a">>, <<".">> }
==============================================================================
