------------------------------ MODULE SysArgs -------------------------------
(***************************************************************************)
(* The arguments of a system call (syscall.c), fetched from the stack of   *)
(* the caller: integers, pointers to blocks of memory and strings, in      *)
(* unsigned arithmetic.  Integers have WORD bytes; a byte is a number      *)
(* below BASE, and an int is negative from half of WORDMOD on.             *)
(***************************************************************************)
EXTENDS Integers, Sequences, FiniteSets

CONSTANTS
    WORD, BASE,
    MaxSz,    \* bound: size of the process, at most half of all addresses
    Bytes,    \* bound: the bytes its memory may hold
    Args      \* bound: numbers of arguments

WORDMOD == BASE ^ WORD
KERNBASE == WORDMOD \div 2

VARIABLES
    sz, mem,  \* of the process
    esp,      \* its stack pointer
    got       \* what the last fetch has returned

vars == <<sz, mem, esp, got>>

Nothing == [ok |-> FALSE]

Init ==
    /\ sz \in 0..MaxSz
    /\ mem \in [0..(sz - 1) -> Bytes]
    /\ esp \in 0..(WORDMOD - 1)
    /\ got = Nothing

Plus(a, b) == (a + b) % WORDMOD
Signed(v) == IF v >= KERNBASE THEN v - WORDMOD ELSE v

fetchint(addr) ==
    [ok |-> ~(addr >= sz \/ Plus(addr, WORD) > sz), addr |-> addr, len |-> WORD]

\* The value of an int that has been fetched.
Value(addr) == LET f[i \in 0..WORD] ==
                     IF i = 0 THEN 0 ELSE f[i - 1] + mem[addr + i - 1] * BASE ^ (i - 1)
               IN  f[WORD]

fetchstr(addr) ==
    LET nuls == {s \in addr..(sz - 1) : mem[s] = 0} IN
    IF addr >= sz \/ nuls = {} THEN Nothing
    ELSE [ok |-> TRUE, addr |-> addr,
          len |-> (CHOOSE s \in nuls : \A t \in nuls : s <= t) - addr + 1]

argint(n) == fetchint(Plus(esp, WORD + WORD * n))

\* Fault: the sum alone is tested, and may wrap.
argptrSum(n, size) ==
    LET i == Value(argint(n).addr) IN
    IF ~argint(n).ok THEN Nothing
    ELSE [ok |-> ~(size < 0 \/ Plus(i, size) > sz), addr |-> i, len |-> size]

\* size is an argument of the call as well, or a constant.
argptr(n, size) ==
    LET i == Value(argint(n).addr) IN
    IF ~argint(n).ok THEN Nothing
    ELSE [ok   |-> ~(size < 0 \/ i >= sz \/ Plus(i, size) > sz),
          addr |-> i, len |-> size]

argstr(n) == IF argint(n).ok THEN fetchstr(Value(argint(n).addr)) ELSE Nothing

-----------------------------------------------------------------------------
Fetch(r) == got' = (IF r.ok THEN r ELSE Nothing) /\ UNCHANGED <<sz, mem, esp>>

ArgInt(n)  == Fetch(argint(n))
ArgStr(n)  == Fetch(argstr(n))
ArgPtr(n, size) == Fetch(argptr(n, size))

\* sys_read() and sys_write(): the size of the buffer is argument m.
ArgBuf(n, m) == argint(m).ok /\ Fetch(argptr(n, Signed(Value(argint(m).addr))))

Next == \E n \in Args :
    \/ ArgInt(n) \/ ArgStr(n)
    \/ \E size \in 0..MaxSz : ArgPtr(n, size)
    \/ \E m \in Args : ArgBuf(n, m)

Spec == Init /\ [][Next]_vars

-----------------------------------------------------------------------------
\* Every byte of what the kernel accepts as an argument is memory of the
\* caller, for every stack pointer, pointer and size (syscall.c:22, 37, 66).
ArgsInside == got.ok => \A a \in got.addr..(got.addr + got.len - 1) : a \in 0..(sz - 1)
=============================================================================
