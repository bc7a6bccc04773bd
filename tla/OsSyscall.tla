------------------------------ MODULE OsSyscall -----------------------------
(***************************************************************************)
(* The operating system emulation (os_emulation/ossyscall.cpp).  A syscall *)
(* instruction enters handle_exception, which picks the handler by $v0,    *)
(* lets it work on the descriptor table, the memory and the host's files,  *)
(* and leaves the result in $v0 and the error in $a3.                      *)
(*                                                                         *)
(* Words have WordBits bits; 32-bit addresses exceed TLC's integers.  The  *)
(* host is external: open, read, write and ftruncate may fail with any     *)
(* error of the program's set, and may move fewer bytes than they were asked to.  *)
(* The bytes a call reads are 1, 2, 3, ... in the order the host or the    *)
(* terminal delivered them, so that their order in memory can be checked.  *)
(***************************************************************************)
EXTENDS Integers, Sequences, SequencesExt, FiniteSets, FiniteSetsExt

(* The constant tables: the numbers of the target's errors, the host errors  *)
(* the emulation translates, and the descriptors of the system calls         *)
(* (target_errno.h, ossyscall.cpp).  A host error is named by its C macro.   *)

\* target_errno.h.  TARGET_ENOTSUP and TARGET_EWOULDBLOCK are defined by the
\* macros of the HOST: on a Linux host EOPNOTSUPP is 95 and EAGAIN is 11.
TARGET ==
  [ EPERM |-> 1, ENOENT |-> 2, ESRCH |-> 3, EINTR |-> 4, EIO |-> 5, ENXIO |-> 6,
    E2BIG |-> 7, ENOEXEC |-> 8, EBADF |-> 9, ECHILD |-> 10, EAGAIN |-> 11, ENOMEM |-> 12,
    EACCES |-> 13, EFAULT |-> 14, ENOTBLK |-> 15, EBUSY |-> 16, EEXIST |-> 17,
    EXDEV |-> 18, ENODEV |-> 19, ENOTDIR |-> 20, EISDIR |-> 21, EINVAL |-> 22,
    ENFILE |-> 23, EMFILE |-> 24, ENOTTY |-> 25, ETXTBSY |-> 26, EFBIG |-> 27,
    ENOSPC |-> 28, ESPIPE |-> 29, EROFS |-> 30, EMLINK |-> 31, EPIPE |-> 32, EDOM |-> 33,
    ERANGE |-> 34, ENOMSG |-> 35, EIDRM |-> 36, ECHRNG |-> 37, EL2NSYNC |-> 38,
    EL3HLT |-> 39, EL3RST |-> 40, ELNRNG |-> 41, EUNATCH |-> 42, ENOCSI |-> 43,
    EL2HLT |-> 44, EDEADLK |-> 45, ENOLCK |-> 46, EBADE |-> 50, EBADR |-> 51,
    EXFULL |-> 52, ENOANO |-> 53, EBADRQC |-> 54, EBADSLT |-> 55, EDEADLOCK |-> 56,
    EBFONT |-> 59, ENOSTR |-> 60, ENODATA |-> 61, ETIME |-> 62, ENOSR |-> 63,
    ENONET |-> 64, ENOPKG |-> 65, EREMOTE |-> 66, ENOLINK |-> 67, EADV |-> 68,
    ESRMNT |-> 69, ECOMM |-> 70, EPROTO |-> 71, EDOTDOT |-> 73, EMULTIHOP |-> 74,
    EBADMSG |-> 77, ENAMETOOLONG |-> 78, EOVERFLOW |-> 79, ENOTUNIQ |-> 80, EBADFD |-> 81,
    EREMCHG |-> 82, ELIBACC |-> 83, ELIBBAD |-> 84, ELIBSCN |-> 85, ELIBMAX |-> 86,
    ELIBEXEC |-> 87, EILSEQ |-> 88, ENOSYS |-> 89, ELOOP |-> 90, ERESTART |-> 91,
    ESTRPIPE |-> 92, ENOTEMPTY |-> 93, EUSERS |-> 94, ENOTSOCK |-> 95, EDESTADDRREQ |-> 96,
    EMSGSIZE |-> 97, EPROTOTYPE |-> 98, ENOPROTOOPT |-> 99, EPROTONOSUPPORT |-> 120,
    ESOCKTNOSUPPORT |-> 121, EOPNOTSUPP |-> 122, ENOTSUP |-> 95,
    EPFNOSUPPORT |-> 123, EAFNOSUPPORT |-> 124, EADDRINUSE |-> 125, EADDRNOTAVAIL |-> 126,
    ENETDOWN |-> 127, ENETUNREACH |-> 128, ENETRESET |-> 129, ECONNABORTED |-> 130,
    ECONNRESET |-> 131, ENOBUFS |-> 132, EISCONN |-> 133, ENOTCONN |-> 134,
    EUCLEAN |-> 135, ENOTNAM |-> 137, ENAVAIL |-> 138, EISNAM |-> 139, EREMOTEIO |-> 140,
    ESHUTDOWN |-> 143, ETOOMANYREFS |-> 144, ETIMEDOUT |-> 145, ECONNREFUSED |-> 146,
    EHOSTDOWN |-> 147, EHOSTUNREACH |-> 148, EWOULDBLOCK |-> 11, EALREADY |-> 149,
    EINPROGRESS |-> 150, ESTALE |-> 151, ECANCELED |-> 158, ENOMEDIUM |-> 159,
    EMEDIUMTYPE |-> 160, ENOKEY |-> 161, EKEYEXPIRED |-> 162, EKEYREVOKED |-> 163,
    EKEYREJECTED |-> 164, EOWNERDEAD |-> 165, ENOTRECOVERABLE |-> 166, ERFKILL |-> 167,
    EHWPOISON |-> 168, EDQUOT |-> 1133 ]

\* Macros that name the same number on a Linux host.
HostAlias == [ENOTSUP |-> "EOPNOTSUPP", EWOULDBLOCK |-> "EAGAIN", EDEADLOCK |-> "EDEADLK"]
HostName(e) == IF e \in DOMAIN HostAlias THEN HostAlias[e] ELSE e

\* Every entry of errno_map pairs a macro of the host with the target's macro
\* of the same name, so the table is the list of those names, in order.
errno_map_1 ==
  << "EPERM", "ENOENT", "ESRCH", "EINTR", "EIO", "ENXIO", "E2BIG", "ENOEXEC", "EBADF",
    "ECHILD", "EAGAIN", "ENOMEM", "EACCES", "EFAULT", "ENOTBLK", "EBUSY", "EEXIST",
    "EXDEV", "ENODEV", "ENOTDIR", "EISDIR", "EINVAL", "ENFILE", "EMFILE", "ENOTTY",
    "ETXTBSY", "EFBIG", "ENOSPC", "ESPIPE", "EROFS", "EMLINK", "EPIPE", "EDOM", "ERANGE",
    "ENOMSG", "EIDRM", "ECHRNG", "EL2NSYNC", "EL3HLT", "EL3RST", "ELNRNG", "EUNATCH",
    "ENOCSI", "EL2HLT", "EDEADLK", "ENOLCK", "EBADE", "EBADR" >>

errno_map_2 ==
  << "EXFULL", "ENOANO", "EBADRQC", "EBADSLT", "EDEADLOCK", "EBFONT", "ENOSTR", "ENODATA",
    "ETIME", "ENOSR", "ENONET", "ENOPKG", "EREMOTE", "ENOLINK", "EADV", "ESRMNT", "ECOMM",
    "EPROTO", "EDOTDOT", "EMULTIHOP", "EBADMSG", "ENAMETOOLONG", "EOVERFLOW", "ENOTUNIQ",
    "EBADFD", "EREMCHG", "ELIBACC", "ELIBBAD", "ELIBSCN", "ELIBMAX", "ELIBEXEC", "EILSEQ",
    "ENOSYS", "ELOOP", "ERESTART", "ESTRPIPE", "ENOTEMPTY", "EUSERS", "ENOTSOCK",
    "EDESTADDRREQ", "EMSGSIZE", "EPROTOTYPE", "ENOPROTOOPT", "EPROTONOSUPPORT" >>

errno_map_3 ==
  << "ESOCKTNOSUPPORT", "EOPNOTSUPP", "ENOTSUP", "EPFNOSUPPORT", "EAFNOSUPPORT",
    "EADDRINUSE", "EADDRNOTAVAIL", "ENETDOWN", "ENETUNREACH", "ENETRESET", "ECONNABORTED",
    "ECONNRESET", "ENOBUFS", "EISCONN", "ENOTCONN", "EUCLEAN", "ENOTNAM", "ENAVAIL",
    "EISNAM", "EREMOTEIO", "ESHUTDOWN", "ETOOMANYREFS", "ETIMEDOUT", "ECONNREFUSED",
    "EHOSTDOWN", "EHOSTUNREACH", "EWOULDBLOCK", "EALREADY", "EINPROGRESS", "ESTALE",
    "ECANCELED", "ENOMEDIUM", "EMEDIUMTYPE", "ENOKEY", "EKEYEXPIRED", "EKEYREVOKED",
    "EKEYREJECTED", "EOWNERDEAD", "ENOTRECOVERABLE", "ERFKILL", "EHWPOISON", "EDQUOT" >>

errno_names == errno_map_1 \o errno_map_2 \o errno_map_3

\* The initialiser inserts the pairs in order: of two macros with the same host
\* number the later one wins.
LastEntry(e) == SelectLastInSeq(errno_names, LAMBDA n : HostName(n) = HostName(e))

errno_map == [e \in Range(errno_names) |-> TARGET[errno_names[LastEntry(e)]]]

\* The system calls of the Linux table with a handler of their own, each third of
\* the table apart.  Arguments beyond the fourth are read from the stack; no handler
\* but mmap2 takes any, and it does not use them.
mips_handlers_1 ==
  [n \in {1, 3, 4, 5, 6, 45, 93} |->
     CASE n = 1 -> "do_sys_exit" [] n = 3 -> "do_sys_read" [] n = 4 -> "do_sys_write"
       [] n = 5 -> "do_sys_open" [] n = 6 -> "do_sys_close" [] n = 45 -> "do_sys_brk"
       [] n = 93 -> "do_sys_ftruncate"]
mips_handlers_2 ==
  [n \in {145, 146, 210} |->
     CASE n = 145 -> "do_sys_readv" [] n = 146 -> "do_sys_writev" [] n = 210 -> "do_sys_mmap2"]
mips_handlers_3 == [n \in {283} |-> "do_sys_set_thread_area"]

mips_syscall_args_size == 363
LinuxBase == 4000

mips_syscall_handler(n) ==
  CASE n \in DOMAIN mips_handlers_1 -> mips_handlers_1[n]
    [] n \in DOMAIN mips_handlers_2 -> mips_handlers_2[n]
    [] n \in DOMAIN mips_handlers_3 -> mips_handlers_3[n]
    [] OTHER -> "syscall_default_handler"

\* The calls of the SPIM numbering, 1 to 17.
spim_syscall_handler ==
  << "do_spim_print_integer", "syscall_default_handler", "syscall_default_handler",
     "do_spim_print_string", "syscall_default_handler", "syscall_default_handler",
     "syscall_default_handler", "do_spim_read_string", "do_spim_sbrk", "do_spim_exit",
     "do_spim_print_character", "do_spim_read_character", "do_sys_open", "do_sys_read",
     "do_sys_write", "do_sys_close", "do_sys_exit" >>

\* The descriptor handle_exception selects by the number in $v0, or "throw".
Handler(num) ==
  IF num \in DOMAIN spim_syscall_handler THEN spim_syscall_handler[num]
  ELSE IF num \in LinuxBase .. LinuxBase + mips_syscall_args_size - 1
       THEN mips_syscall_handler(num - LinuxBase)
       ELSE "throw"

-----------------------------------------------------------------------------
(* The emulation.                                                            *)

CONSTANTS
    WordBits,      \* width of a register: 32 in the code
    HostFds,       \* descriptors the host can hand out
    Programs,      \* [calls, errors]: the syscall numbers a program uses and the
                   \* errors the host may report to it
    Vectors,       \* the iovec arrays a program passes, <<base, length>> pairs
    Paths,         \* path names: sequences of components
    Lengths,       \* sizes passed to brk, sbrk and mmap2
    MemSize,       \* bytes of memory the buffers lie in
    MaxCount,      \* bound: bytes the host has ready for one transfer
    MaxSlots,      \* bound: length of fd_mapping
    MaxMaps        \* bound: areas handed out by mmap2 and sbrk

VARIABLES
    program,         \* the running program
    fs_root,         \* whether "Filesystem root" is set
    fd_mapping,      \* target descriptor + 1 -> host descriptor, or a mark
    brk_limit,
    anonymous_last,
    userlocal,       \* C0 UserLocal
    v0, a3,          \* the registers a call returns in
    trapped,         \* SyscallUnknown was thrown
    mem,             \* the bytes of the program's buffers
    files,           \* host files the emulation holds open
    io,              \* what the host did in the last call
    areas,           \* the areas mmap2 and sbrk have handed out
    handed           \* history: the bytes each of the two has handed out in all

osVars == <<fd_mapping, brk_limit, anonymous_last, userlocal, v0, a3, trapped, mem, files,
            io, areas, handed>>
vars == <<program, fs_root, osVars>>

WordSize == 2 ^ WordBits
FD_UNUSED == -1
FD_INVALID == -1
FD_TERMINAL == -2
TARGET_SYSCALL_MMAP2_UNIT == 4096
anonymous_base == 3 * (WordSize \div 8)         \* 0x60000000
NewLine == 0

ASSUME OsAssumption ==
    /\ WordBits \in Nat /\ WordSize \in Nat /\ WordSize > 4 * TARGET_SYSCALL_MMAP2_UNIT
    /\ WordSize % (8 * TARGET_SYSCALL_MMAP2_UNIT) = 0
    /\ HostFds \subseteq Nat /\ Lengths \subseteq 0 .. WordSize - 1
    /\ MaxSlots \in 3 .. WordSize            \* the three descriptors of the terminal
    /\ Vectors \subseteq Seq(Nat \X Nat) /\ Paths \subseteq Seq(STRING) /\ MaxCount \in Nat
    /\ MemSize \in Nat /\ \A iov \in Vectors : \A i \in DOMAIN iov :
                              iov[i][1] + iov[i][2] =< MemSize

Word(n) == n % WordSize
RoundUp(n, unit) == ((n + unit - 1) \div unit) * unit
Quiet == [moved |-> <<>>, iov |-> <<>>, error |-> "none", asked |-> <<>>, path |-> <<>>]

\* The unsigned words that stand for the errors -4096 .. -1.
IsError(result) == result >= WordSize - 4096

\* A host call that fails returns -1 and sets errno; the result is the negated
\* target error, or -1 when the error has no target number.
result_errno_if_error(errno) ==
    IF errno \in DOMAIN errno_map THEN Word(-errno_map[errno]) ELSE WordSize - 1

\* Fault: the status is the error's number only above -1024.
StatusSmall(result) == IF result >= WordSize - 1024 THEN WordSize - result ELSE 0

status_from_result(result) == IF IsError(result) THEN WordSize - result ELSE 0

\* handle_exception's end: $a3 the status, $v0 the result (no handler returns a
\* negative status).
Return(result, status) == v0' = result /\ a3' = status

targetfd_to_fd(t) == IF t \in 0 .. Len(fd_mapping) - 1 THEN fd_mapping[t + 1] ELSE FD_INVALID

\* allocate_fd: the first unused slot, or a new one at the end.
FreeSlot == SelectInSeq(fd_mapping, LAMBDA f : f = FD_UNUSED)

\* Fault: without an unused slot the last one is taken.
AllocateLast(val) ==
    LET i == IF FreeSlot # 0 THEN FreeSlot ELSE Len(fd_mapping)
    IN <<i - 1, [fd_mapping EXCEPT ![i] = val]>>

allocate_fd(val) ==
    IF FreeSlot # 0 THEN <<FreeSlot - 1, [fd_mapping EXCEPT ![FreeSlot] = val]>>
    ELSE <<Len(fd_mapping), Append(fd_mapping, val)>>

\* Fault: the slot is cleared to zero, which is a descriptor.
CloseZero(t) == [fd_mapping EXCEPT ![t + 1] = 0]

close_fd(t) == [fd_mapping EXCEPT ![t + 1] = FD_UNUSED]

\* filepath_to_host: remove every ".." together with the component before it.  A
\* path is the sequence of its components; a leading "/" is an empty first one.
\* One pass of the loop at component pos:
ScanStep(s) ==
    IF s.pos > Len(s.path) THEN s
    ELSE IF s.path[s.pos] # ".." THEN [s EXCEPT !.pos = @ + 1]
    ELSE LET prev == IF s.pos = 1 THEN 1 ELSE s.pos - 1
         IN [path |-> SubSeq(s.path, 1, prev - 1) \o SubSeq(s.path, s.pos + 1, Len(s.path)),
             pos |-> prev]

\* The loop ends: each pass moves on or removes something, so 2 * Len(path) suffice.
ScanPath(path) ==
    LET Scan[k \in 0 .. 2 * Len(path)] ==
          IF k = 0 THEN [path |-> path, pos |-> 1] ELSE ScanStep(Scan[k - 1])
    IN Scan

filepath_to_host(path) == ScanPath(path)[2 * Len(path)].path

Calls(handler) == \E num \in program.calls : Handler(num) = handler

Unchanged(changed) ==
    /\ ~trapped
    /\ trapped' = FALSE
    /\ UNCHANGED <<program, fs_root>>
    /\ "fd" \notin changed => UNCHANGED <<fd_mapping, files>>
    /\ "brk" \notin changed => UNCHANGED brk_limit
    /\ "anon" \notin changed => UNCHANGED anonymous_last
    /\ "areas" \notin changed => UNCHANGED <<areas, handed>>
    /\ "mem" \notin changed => UNCHANGED mem
    /\ "tls" \notin changed => UNCHANGED userlocal

-----------------------------------------------------------------------------
\* One transfer: what read_io or write_io returns for len bytes when the host
\* delivers out: n bytes, or an error.  pos bytes of the call came before.

Bytes(pos, n) == [i \in 1 .. n |-> pos + i]

\* The terminal gives the bytes it has and, where they end, a newline.
ReadTerminal(out, len, pos) ==
    IF out.n >= len THEN Bytes(pos, len) ELSE Append(Bytes(pos, out.n), NewLine)

ReadHost(out, len, pos) == Bytes(pos, Min({out.n, len}))

read_io(fd, out, len, pos) ==
    CASE fd = FD_TERMINAL -> ReadTerminal(out, len, pos)
      [] OTHER -> ReadHost(out, len, pos)

\* write_io: the terminal takes every byte, the host possibly fewer.
write_io(fd, out, len) == IF fd = FD_TERMINAL THEN len ELSE Min({out.n, len})

Fails(fd, out) == fd # FD_TERMINAL /\ out.error # "none"

write_mem(m, base, data) ==
    [a \in DOMAIN m |-> IF a \in base .. base + Len(data) - 1 THEN data[a - base + 1] ELSE m[a]]
read_mem(m, base, n) == [i \in 1 .. n |-> m[base + i - 1]]

\* The loops of readv and writev: s is [mem, result, moved, error], stopped by a
\* transfer that fails or is short.  An error counts only when nothing was moved.
Failed(s, out) ==
    [s EXCEPT !.go = FALSE, !.error = out.error,
              !.result = IF @ = 0 THEN result_errno_if_error(out.error) ELSE @]

\* Fault: a short read does not end the loop.
ReadvOn(fd, s, iov, out) ==
    IF ~s.go THEN s
    ELSE IF Fails(fd, out) THEN Failed(s, out)
    ELSE LET data == read_io(fd, out, iov[2], Len(s.moved))
         IN [s EXCEPT !.mem = write_mem(@, iov[1], data), !.result = Word(@ + Len(data)),
                      !.moved = @ \o data]

ReadvStep(fd, s, iov, out) ==
    IF ~s.go THEN s
    ELSE IF Fails(fd, out) THEN Failed(s, out)
    ELSE LET data == read_io(fd, out, iov[2], Len(s.moved))
         IN [s EXCEPT !.mem = write_mem(@, iov[1], data), !.result = Word(@ + Len(data)),
                      !.moved = @ \o data, !.go = Len(data) >= iov[2]]

WritevStep(fd, s, iov, out) ==
    IF ~s.go THEN s
    ELSE IF Fails(fd, out) THEN Failed(s, out)
    ELSE LET n == write_io(fd, out, iov[2])
         IN [s EXCEPT !.result = Word(@ + n), !.moved = @ \o read_mem(s.mem, iov[1], n),
                      !.go = n >= iov[2]]

NothingMoved == [mem |-> mem, result |-> 0, moved |-> <<>>, error |-> "none", go |-> TRUE]

Transfers(Step(_, _, _, _), fd, iov, outs) ==
    LET Upto[k \in 0 .. Len(iov)] ==
          IF k = 0 THEN NothingMoved ELSE Step(fd, Upto[k - 1], iov[k], outs[k])
    IN Upto

Vectored(Step(_, _, _, _), fd, iov, outs) == Transfers(Step, fd, iov, outs)[Len(iov)]

\* What the host may answer to one transfer.
Outcomes == [n : 0 .. MaxCount, error : {"none"}] \cup [n : {0}, error : program.errors]

\* A handler that finds no open file behind the descriptor: -EINVAL, but status 0.
InvalidFd == Return(Word(-TARGET.EINVAL), 0) /\ io' = Quiet /\ Unchanged({})

Finish(iov, s) ==
    /\ Return(s.result, status_from_result(s.result))
    /\ mem' = s.mem
    /\ io' = [Quiet EXCEPT !.moved = s.moved, !.iov = iov, !.error = s.error]
    /\ Unchanged({"mem"})

Transfer(Step(_, _, _, _), iov) ==
    \E t \in -1 .. MaxSlots :
        LET fd == targetfd_to_fd(t)
        IN IF fd = FD_INVALID THEN InvalidFd
           ELSE \E outs \in [DOMAIN iov -> Outcomes] : Finish(iov, Vectored(Step, fd, iov, outs))

-----------------------------------------------------------------------------
\* The handlers.

do_sys_readv == Calls("do_sys_readv") /\ \E iov \in Vectors : Transfer(ReadvStep, iov)
do_sys_writev == Calls("do_sys_writev") /\ \E iov \in Vectors : Transfer(WritevStep, iov)

\* read and write: one transfer.
do_sys_read ==
    Calls("do_sys_read") /\ \E iov \in Vectors : Len(iov) = 1 /\ Transfer(ReadvStep, iov)
do_sys_write ==
    Calls("do_sys_write") /\ \E iov \in Vectors : Len(iov) = 1 /\ Transfer(WritevStep, iov)

\* file_open: without a root every file is the terminal; otherwise the host opens
\* the translated path, and only a success takes a slot.
OpenTerminal ==
    /\ ~fs_root
    /\ LET slot == allocate_fd(FD_TERMINAL)
       IN fd_mapping' = slot[2] /\ Return(slot[1], status_from_result(slot[1]))
    /\ io' = Quiet /\ UNCHANGED files

OpenHost(path) ==
    /\ fs_root
    /\ \E fd \in HostFds \ files :
         LET slot == allocate_fd(fd)
         IN /\ fd_mapping' = slot[2]
            /\ Return(slot[1], status_from_result(slot[1]))
            /\ files' = files \cup {fd}
            /\ io' = [Quiet EXCEPT !.asked = path, !.path = filepath_to_host(path)]

OpenFails(path) ==
    /\ fs_root
    /\ \E e \in program.errors :
         LET result == result_errno_if_error(e)
         IN /\ Return(result, status_from_result(result))
            /\ io' = [Quiet EXCEPT !.asked = path, !.path = filepath_to_host(path),
                                   !.error = e]
    /\ UNCHANGED <<fd_mapping, files>>

do_sys_open ==
    /\ Calls("do_sys_open")
    /\ FreeSlot # 0 \/ Len(fd_mapping) < MaxSlots
    /\ \E path \in Paths : OpenTerminal \/ OpenHost(path) \/ OpenFails(path)
    /\ Unchanged({"fd"})

\* close: the host's close and the slot; close of the terminal's mark fails on the
\* host, which is ignored.
CloseOpen(t) ==
    /\ files' = files \ {targetfd_to_fd(t)}
    /\ fd_mapping' = close_fd(t)
    /\ Return(0, 0)
    /\ io' = Quiet
    /\ Unchanged({"fd"})

do_sys_close ==
    /\ Calls("do_sys_close")
    /\ \E t \in -1 .. MaxSlots :
         IF targetfd_to_fd(t) = FD_INVALID THEN InvalidFd ELSE CloseOpen(t)

\* ftruncate of the terminal's mark fails on the host with EBADF.
do_sys_ftruncate ==
    /\ Calls("do_sys_ftruncate")
    /\ \E t \in -1 .. MaxSlots :
         LET fd == targetfd_to_fd(t)
         IN IF fd = FD_INVALID THEN InvalidFd
            ELSE /\ \E e \in IF fd = FD_TERMINAL THEN {"EBADF"} ELSE {"none"} \cup program.errors :
                      LET result == IF e = "none" THEN 0 ELSE result_errno_if_error(e)
                      IN /\ Return(result, status_from_result(result))
                         /\ io' = [Quiet EXCEPT !.error = e]
                 /\ Unchanged({})

\* brk moves the limit anywhere: the program gives up what sbrk handed out.
do_sys_brk ==
    /\ Calls("do_sys_brk")
    /\ areas' = {a \in areas : a.by # "sbrk"}
    /\ handed' = [handed EXCEPT !["sbrk"] = 0]
    /\ \E limit \in Lengths : brk_limit' = Word(limit) /\ Return(Word(limit), 0)
    /\ io' = Quiet /\ Unchanged({"brk", "areas"})

\* len bytes at start are handed out, in whole units
Unit == [sbrk |-> 16, mmap2 |-> TARGET_SYSCALL_MMAP2_UNIT]

HandOut(by, start, len) ==
    /\ areas' = areas \cup {[by |-> by, start |-> start, size |-> len, from |-> handed[by]]}
    /\ handed' = [handed EXCEPT ![by] = @ + RoundUp(len, Unit[by])]

\* do_spim_sbrk: the old limit rounded up to 16, then the rounded increment above it.
sbrk_increment(inc) == Word(RoundUp(inc, 16))
do_spim_sbrk ==
    /\ Calls("do_spim_sbrk")
    /\ Cardinality(areas) < MaxMaps
    /\ \E inc \in Lengths :
         LET start == Word(RoundUp(brk_limit, 16))
         IN /\ brk_limit' = Word(start + sbrk_increment(inc))
            /\ Return(start, 0)
            /\ HandOut("sbrk", start, inc)
    /\ io' = Quiet /\ Unchanged({"brk", "areas"})

\* do_sys_mmap2: whole pages from anonymous_last up; address, descriptor and flags
\* are ignored.
\* Fault: the length is rounded down.
MmapLengthDown(len) ==
    (len \div TARGET_SYSCALL_MMAP2_UNIT) * TARGET_SYSCALL_MMAP2_UNIT

mmap_length(len) == Word(RoundUp(len, TARGET_SYSCALL_MMAP2_UNIT))
do_sys_mmap2 ==
    /\ Calls("do_sys_mmap2")
    /\ Cardinality(areas) < MaxMaps
    /\ \E len \in Lengths :
         LET start == Word(RoundUp(anonymous_last, TARGET_SYSCALL_MMAP2_UNIT))
         IN /\ anonymous_last' = Word(start + mmap_length(len))
            /\ Return(start, 0)
            /\ HandOut("mmap2", start, len)
    /\ io' = Quiet /\ Unchanged({"anon", "areas"})

do_sys_set_thread_area ==
    /\ Calls("do_sys_set_thread_area")
    /\ \E a \in Lengths : userlocal' = a
    /\ Return(0, 0) /\ io' = Quiet /\ Unchanged({"tls"})

\* do_sys_exit stops the machine and returns to the program like any other call.
do_sys_exit ==
    (Calls("do_sys_exit") \/ Calls("do_spim_exit")) /\ Return(0, 0) /\ io' = Quiet /\ Unchanged({})

\* The SPIM calls that print or read use the host's descriptor 1 and drop the
\* outcome; print_character and read_character do nothing.
do_spim_print ==
    /\ \/ Calls("do_spim_print_integer") \/ Calls("do_spim_print_string")
       \/ Calls("do_spim_read_string") \/ Calls("do_spim_print_character")
       \/ Calls("do_spim_read_character")
    /\ Return(0, 0) /\ io' = Quiet /\ Unchanged({})

\* A number of the table without a handler: $a3 is ENOSYS, $v0 is 0.
syscall_default_handler ==
    Calls("syscall_default_handler") /\ Return(0, TARGET.ENOSYS) /\ io' = Quiet /\ Unchanged({})

\* Any other number: the exception leaves the machine trapped.
UnknownSyscall ==
    /\ Calls("throw") /\ ~trapped
    /\ trapped' = TRUE
    /\ UNCHANGED <<program, fs_root, fd_mapping, brk_limit, anonymous_last, userlocal, v0, a3,
                   mem, files, io, areas, handed>>

Init ==
    /\ program \in Programs
    /\ fs_root \in BOOLEAN
    /\ fd_mapping = [i \in 1 .. 3 |-> FD_TERMINAL]
    /\ brk_limit = 0
    /\ anonymous_last = anonymous_base
    /\ userlocal = 0
    /\ v0 = 0 /\ a3 = 0
    /\ trapped = FALSE
    /\ mem = [a \in 0 .. MemSize - 1 |-> MemSize + a]
    /\ files = {}
    /\ io = Quiet
    /\ areas = {} /\ handed = [by \in {"sbrk", "mmap2"} |-> 0]

Next ==
    \/ do_sys_readv \/ do_sys_writev \/ do_sys_read \/ do_sys_write
    \/ do_sys_open \/ do_sys_close \/ do_sys_ftruncate
    \/ do_sys_brk \/ do_spim_sbrk \/ do_sys_mmap2 \/ do_sys_set_thread_area
    \/ do_sys_exit \/ do_spim_print \/ syscall_default_handler \/ UnknownSyscall

Spec == Init /\ [][Next]_vars
-----------------------------------------------------------------------------
\* Every variable keeps its type: descriptors are marks or files of the host, and
\* the limits are words.
TypeOK ==
    /\ program \in Programs /\ fs_root \in BOOLEAN /\ trapped \in BOOLEAN
    /\ fd_mapping \in Seq(HostFds \cup {FD_UNUSED, FD_TERMINAL}) /\ Len(fd_mapping) =< MaxSlots
    /\ {brk_limit, anonymous_last} \subseteq 0 .. WordSize - 1
    /\ files \subseteq HostFds

\* A call returns words, and the buffers stay where they are.
WordsReturned == {v0, a3} \subseteq 0 .. WordSize - 1 /\ DOMAIN mem = 0 .. MemSize - 1

\* After any sequence of open and close, failed ones included, each file the host
\* holds open for the program is in exactly one slot of fd_mapping, and no slot
\* names a closed file: nothing leaks and no descriptor is shared
\* (allocate_fd, file_open, close_fd).
FdTableMatchesHost ==
    /\ \A f \in files : Cardinality({i \in DOMAIN fd_mapping : fd_mapping[i] = f}) = 1
    /\ \A i \in DOMAIN fd_mapping : fd_mapping[i] \in files \cup {FD_UNUSED, FD_TERMINAL}

\* The target's number of a host error: an error without one becomes EPERM.  The
\* entry of ENOTSUP, which is EOPNOTSUPP on the host, is left out: its number is
\* the host's.
TargetNumber(e) == IF e \in DOMAIN TARGET THEN TARGET[e] ELSE TARGET.EPERM

\* A host call that fails before anything was moved reaches the program as the
\* target's number of the same error in $a3 and its negation in $v0, through both
\* result_errno_if_error and status_from_result.
HostErrorsReported ==
    io.error \notin {"none", "EOPNOTSUPP", "ENOTSUP", "EDEADLK"} /\ io.moved = <<>>
        => a3 = TargetNumber(io.error) /\ v0 = Word(-a3)

\* The bytes the first k buffers of an iovec array have in the memory m.
Gather(m, iov) ==
    LET Upto[k \in 0 .. Len(iov)] ==
          IF k = 0 THEN <<>> ELSE Upto[k - 1] \o read_mem(m, iov[k][1], iov[k][2])
    IN Upto

\* No byte lies in two buffers: what a read into such ones leaves depends on their order.
Separate(iov) ==
    \A i, j \in DOMAIN iov :
        i # j => iov[i][1] + iov[i][2] =< iov[j][1] \/ iov[j][1] + iov[j][2] =< iov[i][1]

\* Whatever the short counts and errors of the transfers of one readv or writev,
\* $v0 is the number of bytes moved in all, up to the numbers that stand for errors,
\* and those bytes are the first ones of the buffers, in order and without a gap.
VectorsMatchStream ==
    io.moved # <<>> =>
        /\ ~IsError(Len(io.moved)) => v0 = Len(io.moved) /\ a3 = 0
        /\ Separate(io.iov) => IsPrefix(io.moved, Gather(mem, io.iov)[Len(io.iov)])

\* Two areas one allocator handed out do not overlap as long as what it handed out
\* up to them fits the address space, the wrap of the limit past its end included.
Fits(a) == a.from + RoundUp(a.size, Unit[a.by]) =< WordSize

AreasDisjoint ==
    \A a, b \in areas :
        a # b /\ a.by = b.by /\ a.size > 0 /\ b.size > 0 /\ Fits(a) /\ Fits(b)
            => Word(b.start - a.start) >= a.size

\* The names left of the first k components where the root is "/": an empty component
\* names nothing, and ".." takes one name away if there is one.
Taken(names, c) ==
    IF c = "" THEN names
    ELSE IF c # ".." THEN Append(names, c)
    ELSE IF names = <<>> THEN <<>> ELSE Front(names)

Resolve(path) ==
    LET Names[k \in 0 .. Len(path)] == IF k = 0 THEN <<>> ELSE Taken(Names[k - 1], path[k])
    IN Names

\* A path without two "/" in a row: an empty component is the first or the last.  The
\* code takes an empty one for a name: of "a//../b" it opens "a/b".
SingleSlashes(path) == \A i \in 2 .. Len(path) - 1 : path[i] # ""

\* The path the host opens is below the root: no ".." is left; and it names the file a
\* POSIX system with that root would open.
HostPathResolved ==
    /\ \A i \in DOMAIN io.path : io.path[i] # ".."
    /\ SingleSlashes(io.asked) =>
         Resolve(io.path)[Len(io.path)] = Resolve(io.asked)[Len(io.asked)]

\* What the emulation hands out belongs to one owner: descriptors of the host and areas
\* of memory, whatever fails, wraps or is handed back on the way.
ResourcesApart == TypeOK /\ FdTableMatchesHost /\ AreasDisjoint

\* The program and the host agree on a call: the host works on the path that was named
\* below the root, and the registers report the bytes it moved or the error it met, in
\* words.
CallsReported == WordsReturned /\ HostErrorsReported /\ VectorsMatchStream /\ HostPathResolved
=============================================================================
