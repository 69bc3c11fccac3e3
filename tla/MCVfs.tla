------------------------------- MODULE MCVfs --------------------------------
(***************************************************************************)
(* Vfs for model checking: three threads over two directories, a regular   *)
(* file and the terminal.  Two directories are what do_rename and do_link  *)
(* need to take two locks, three threads what it takes for two of them to  *)
(* wait behind an operation that sleeps.                                   *)
(***************************************************************************)
EXTENDS Vfs, TLC

\* Inode numbers 1 and 2 are directories, 3 a regular file, 4 the terminal.
Modes == (1 :> S_IFDIR) @@ (2 :> S_IFDIR) @@ (3 :> S_IFREG) @@ (4 :> S_IFCHR)

\* Reading, writing with and without O_APPEND, truncating, and the flags
\* do_open refuses.
Flags == {{"O_RDONLY"}, {"O_WRONLY", "O_APPEND"}, {"O_RDWR", "O_TRUNC"},
          {"O_WRONLY", "O_RDWR"}}

\* The terminal sleeps in read, the disk in write and in the operations of
\* directories.
MaySleep == {<<"read", S_IFCHR>>, <<"write", S_IFREG>>, <<"readdir", S_IFDIR>>,
             <<"rename", S_IFDIR>>}

\* A step back and a step on.
Seeks == {-1, 1}

\* The file the threads inherit was opened for reading and appending.
AppendFlags == {"O_RDWR", "O_APPEND"}

\* The terminal, opened for reading and writing.
TerminalFlags == {"O_RDWR"}

ThreadSymmetry == Permutations(Threads)

=============================================================================
