---------------------------- MODULE MCOsSyscall ------------------------------
(***************************************************************************)
(* Small instances of OsSyscall: programs that work with files, with       *)
(* vectors of buffers, with the heap, and that call everything once.       *)
(***************************************************************************)
EXTENDS OsSyscall

AllErrors == Range(errno_names) \cup {"EOTHER"}      \* one without a target number

MCPrograms ==
    { \* open, close, ftruncate
      [calls |-> {LinuxBase + 5, LinuxBase + 6, LinuxBase + 93}, errors |-> {"EIO"}],
      \* readv, writev, SPIM files
      [calls |-> {13, LinuxBase + 145, LinuxBase + 146}, errors |-> {"EDQUOT"}],
      [calls |-> {13, 14, 15, 16}, errors |-> {"EIO"}],
      \* mmap2, sbrk
      [calls |-> {LinuxBase + 210, 9}, errors |-> {}],
      \* brk, sbrk, print, exit
      [calls |-> {LinuxBase + 45, 9, LinuxBase + 283, 1, 4, 8, 10, 11, 12, 17}, errors |-> {}],
      \* every error of the host
      [calls |-> {LinuxBase + 5}, errors |-> AllErrors],
      \* numbers without a handler, and outside of the tables
      [calls |-> {LinuxBase + 2, LinuxBase + 362}, errors |-> {}],
      [calls |-> {18, LinuxBase + 363, 0}, errors |-> {}] }

\* Two buffers in the other order of their addresses, an empty one, and a single one.
MCVectors == { << <<2, 2>>, <<0, 2>> >>, << <<1, 1>>, <<3, 0>>, <<2, 1>> >>, << <<1, 2>> >> }

MCPaths ==
    { <<"..", "..", "a">>, <<"a", "b", "..", "..", "..", "c">>, <<"", "a", "..", "..", "b">>,
      <<"a", "b">>, <<"">>, <<"a", "", "..", "b">> }

MCLengths == {0, 1, 16, 17, 4096, 4097, 40000, 65535}
=============================================================================
