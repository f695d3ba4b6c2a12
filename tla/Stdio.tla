-------------------------------- MODULE Stdio --------------------------------
(***************************************************************************)
(* The C library's own I/O (src/libc/stdio.c, src/libc/printf.c): one      *)
(* program calls the output functions in any order, and another reads what *)
(* it writes through a pipe with input().                                  *)
(*                                                                         *)
(* output, print_char, print_string, putchar, puts and __stdio_print_long  *)
(* write to descriptor 1 themselves; printf, fprintf and print_double go   *)
(* through picolibc's vfprintf into stdout, which is line buffered and     *)
(* shared with stderr; sprintf and snprintf format into memory.  vfprintf, *)
(* stdout and the system calls are external: a format with its arguments   *)
(* is the text it expands to, a write may accept fewer bytes than given.   *)
(*                                                                         *)
(* Characters are their codes.  int and long are both 64 bits in code      *)
(* compiled by gaston (a cast between them is the identity, irgen.go:2085).*)
(***************************************************************************)
EXTENDS Integers, Sequences, SequencesExt

CONSTANTS
  Ints, Chars, Strings,  \* arguments of the direct output functions
  Formats,               \* texts that vfprintf may be asked to produce
  Sizes,                 \* sizes passed to snprintf
  LongMax,               \* 2^63 - 1
  BufLen,                \* the buffer of output(): 24
  BufSize,               \* the buffer of stdout: BUFSIZ
  MemLen,                \* the array passed to sprintf and snprintf
  MaxCalls, MaxReads, MaxShort   \* bounds: calls, input()s, short writes

Pow10[n \in Nat] == IF n = 0 THEN 1 ELSE 10 * Pow10[n - 1]

(* A long has at most BufLen - 2 digits.  The stream of sprintf ends       *)
(* 2147483646 bytes after the start of its array.                          *)
ASSUME StdioAssumption ==
  /\ {LongMax, BufLen, BufSize, MemLen, MaxCalls, MaxReads, MaxShort} \subseteq Nat
  /\ Ints \subseteq -LongMax - 1..LongMax /\ Chars \subseteq Int /\ Sizes \subseteq Int
  /\ \A t \in Strings \cup Formats : t \in Seq(0..255)
  /\ \A t \in Formats : Len(t) < MemLen   \* sprintf's caller provides the room
  /\ \A n \in Sizes : n <= MemLen
  /\ MemLen <= 2147483647 /\ BufSize > 0
  /\ BufLen > 2 /\ LongMax < Pow10[BufLen - 2]

VARIABLES
  frame,     \* the call in progress, or Idle
  calls,     \* history of the calls made: function and argument
  given,     \* history: bytes of the current call's text given to a write
  out,       \* what descriptor 1 has accepted
  line,      \* stdout's buffer
  shorts,    \* writes cut short
  mem, ret,  \* the array of sprintf and snprintf; the last result
  exited,    \* _start has called exit_group
  reader, rd, got  \* input(): its state, bytes of out consumed, its results

writerVars == <<frame, calls, given, out, line, shorts, mem, ret, exited>>
readerVars == <<reader, rd, got>>
vars == <<writerVars, readerVars>>

NL == 10
Minus == 45
Zero == 48
LongMin == -LongMax - 1
Wrap(v) == ((v - LongMin) % (2 * (LongMax + 1))) + LongMin
Byte(c) == c % 256
Idle == [fn |-> "none"]

-----------------------------------------------------------------------------
(* The text each call is meant to produce: the reference.                  *)
Digits[k \in Nat] == IF k < 10 THEN <<Zero + k>>
                     ELSE Append(Digits[k \div 10], Zero + (k % 10))

Decimal(n) == IF n < 0 THEN <<Minus>> \o Digits[0 - n] ELSE Digits[n]

Text(c) ==
  CASE c.fn = "output"                         -> Append(Decimal(c.arg), NL)
    [] c.fn = "__stdio_print_long"             -> Decimal(c.arg)
    [] c.fn \in {"print_char", "putchar"}      -> <<Byte(c.arg)>>
    [] c.fn = "puts"                           -> Append(c.arg, NL)
    [] c.fn \in {"sprintf", "snprintf"}        -> <<>>
    [] OTHER                                   -> c.arg

-----------------------------------------------------------------------------
(* Calls and system calls.                                                 *)
Enter(fn, arg, f) ==
  /\ frame = Idle /\ ~exited /\ Len(calls) < MaxCalls
  /\ calls' = Append(calls, [fn |-> fn, arg |-> arg])
  /\ frame' = f /\ given' = 0
  /\ UNCHANGED <<out, line, shorts, mem, ret, exited>>

(* write(1, bytes, Len(bytes)): no caller looks at its result.             *)
Write(bytes) ==
  /\ \E k \in 0..Len(bytes) :
       /\ k < Len(bytes) => shorts < MaxShort
       /\ out' = out \o SubSeq(bytes, 1, k)
       /\ shorts' = IF k < Len(bytes) THEN shorts + 1 ELSE shorts
  /\ given' = given + Len(bytes)
  /\ UNCHANGED <<calls, mem, exited>>

Return(v) == frame' = Idle /\ ret' = v

-----------------------------------------------------------------------------
(* output(x): digits are written right to left into buf; p is the index of *)
(* the next free byte, buf what is to its right.                           *)
CallOutput(x) ==
  LET val == IF x < 0 THEN Wrap(0 - x) ELSE x
  IN  Enter("output", x,
            [fn |-> "output", neg |-> x < 0, val |-> val,
             buf |-> IF val = 0 THEN <<Zero, NL>> ELSE <<NL>>])

(* Mutant of OutputDigit: digits are added for ever.                       *)
OutputDigitMore ==
  /\ frame.fn = "output" /\ frame.val >= 0
  /\ frame' = [frame EXCEPT !.buf = <<Zero + (frame.val % 10)>> \o @, !.val = @ \div 10]
  /\ UNCHANGED <<calls, given, out, line, shorts, mem, ret, exited>>

OutputDigit ==
  /\ frame.fn = "output" /\ frame.val > 0
  /\ frame' = [frame EXCEPT !.buf = <<Zero + (frame.val % 10)>> \o @, !.val = @ \div 10]
  /\ UNCHANGED <<calls, given, out, line, shorts, mem, ret, exited>>

OutputWrite ==
  /\ frame.fn = "output" /\ frame.val <= 0
  /\ Write(IF frame.neg THEN <<Minus>> \o frame.buf ELSE frame.buf)
  /\ Return(0)
  /\ UNCHANGED line

-----------------------------------------------------------------------------
(* Functions that are a fixed list of writes.                              *)
CallPrintChar(c) == Enter("print_char", c, [fn |-> "list", res |-> 0, list |-> << <<Byte(c)>> >>])
CallPutchar(c)   == Enter("putchar", c, [fn |-> "list", res |-> c, list |-> << <<Byte(c)>> >>])
CallPrintString(s) == Enter("print_string", s, [fn |-> "list", res |-> 0, list |-> <<s>>])
CallPuts(s) == Enter("puts", s, [fn |-> "list", res |-> 0, list |-> <<s, <<NL>> >>])

WriteNext ==
  /\ frame.fn = "list"
  /\ Write(Head(frame.list))
  /\ IF Len(frame.list) = 1 THEN Return(frame.res)
     ELSE frame' = [frame EXCEPT !.list = Tail(@)] /\ UNCHANGED ret
  /\ UNCHANGED line

-----------------------------------------------------------------------------
(* __stdio_print_long(n): the sign, then __stdio_print_pos, which calls    *)
(* itself for n / 10 before it prints n % 10.  stack holds the n of the    *)
(* activations, innermost first; % takes the sign of n.                    *)
CallPrintLong(n) ==
  Enter("__stdio_print_long", n,
        [fn |-> "long", neg |-> n < 0, descend |-> TRUE,
         stack |-> <<IF n < 0 THEN Wrap(0 - n) ELSE n>>])

Rem10(n) == IF n < 0 THEN 0 - ((0 - n) % 10) ELSE n % 10

PrintSign ==
  /\ frame.fn = "long" /\ frame.neg
  /\ Write(<<Minus>>)
  /\ frame' = [frame EXCEPT !.neg = FALSE]
  /\ UNCHANGED <<line, ret>>

(* Mutant of PrintPosDescend: n > 10.                                      *)
PrintPosDescendLess ==
  /\ frame.fn = "long" /\ ~frame.neg /\ frame.descend
  /\ LET n == Head(frame.stack)
     IN  frame' = IF n > 10 THEN [frame EXCEPT !.stack = <<n \div 10>> \o @]
                  ELSE [frame EXCEPT !.descend = FALSE]
  /\ UNCHANGED <<calls, given, out, line, shorts, mem, ret, exited>>

PrintPosDescend ==
  /\ frame.fn = "long" /\ ~frame.neg /\ frame.descend
  /\ LET n == Head(frame.stack)
     IN  frame' = IF n >= 10 THEN [frame EXCEPT !.stack = <<n \div 10>> \o @]
                  ELSE [frame EXCEPT !.descend = FALSE]
  /\ UNCHANGED <<calls, given, out, line, shorts, mem, ret, exited>>

PrintPosDigit ==
  /\ frame.fn = "long" /\ ~frame.neg /\ ~frame.descend
  /\ Write(<<Byte(Rem10(Head(frame.stack)) + Zero)>>)
  /\ IF Len(frame.stack) = 1 THEN Return(0)
     ELSE frame' = [frame EXCEPT !.stack = Tail(@)] /\ UNCHANGED ret
  /\ UNCHANGED line

-----------------------------------------------------------------------------
(* printf, fprintf(stdout or stderr) and print_double: vfprintf puts the   *)
(* text into stdout byte by byte, and a newline or a full buffer flushes.  *)
CallPrintf(t)  == Enter("printf", t, [fn |-> "vfprintf", text |-> t])
CallFprintf(t) == Enter("fprintf", t, [fn |-> "vfprintf", text |-> t])
CallPrintDouble(digits) ==
  Enter("print_double", Append(digits, NL), [fn |-> "vfprintf", text |-> Append(digits, NL)])

BufioPut ==
  /\ frame.fn = "vfprintf" /\ frame.text # <<>>
  /\ LET c == Head(frame.text)
         l == Append(line, c)
     IN  IF c = NL \/ Len(l) = BufSize
         THEN Write(l) /\ line' = <<>>
         ELSE line' = l /\ UNCHANGED <<calls, given, out, shorts, mem, exited>>
  /\ frame' = [frame EXCEPT !.text = Tail(@)]
  /\ UNCHANGED ret

VfprintfReturn ==
  /\ frame.fn = "vfprintf" /\ frame.text = <<>>
  /\ Return(Len(calls[Len(calls)].arg))
  /\ UNCHANGED <<calls, given, out, line, shorts, mem, exited>>

-----------------------------------------------------------------------------
(* sprintf and snprintf: a __file_str from buf to end; old is the array    *)
(* before the call.                                                        *)
CallSprintf(t) ==
  Enter("sprintf", t, [fn |-> "str", text |-> t, pos |-> 0, end |-> 2147483646,
                       nul |-> TRUE, old |-> mem, n |-> MemLen])

(* Mutant of CallSnprintf: no room is left for the terminator.             *)
CallSnprintfWide(n, t) ==
  Enter("snprintf", t, [fn |-> "str", text |-> t, pos |-> 0,
                        end |-> IF n <= 0 THEN 0 ELSE n,
                        nul |-> n > 0, old |-> mem, n |-> n])

CallSnprintf(n, t) ==
  Enter("snprintf", t, [fn |-> "str", text |-> t, pos |-> 0,
                        end |-> IF n <= 0 THEN 0 ELSE n - 1,
                        nul |-> n > 0, old |-> mem, n |-> n])

(* __file_str_put: silently stops when pos == end.                         *)
FileStrPut ==
  /\ frame.fn = "str" /\ frame.text # <<>>
  /\ IF frame.pos # frame.end
     THEN /\ mem' = [mem EXCEPT ![frame.pos] = Head(frame.text)]
          /\ frame' = [frame EXCEPT !.text = Tail(@), !.pos = @ + 1]
     ELSE frame' = [frame EXCEPT !.text = Tail(@)] /\ UNCHANGED mem
  /\ UNCHANGED <<calls, given, out, line, shorts, ret, exited>>

StrReturn ==
  /\ frame.fn = "str" /\ frame.text = <<>>
  /\ mem' = IF frame.nul THEN [mem EXCEPT ![frame.pos] = 0] ELSE mem
  /\ Return(Len(calls[Len(calls)].arg))
  /\ UNCHANGED <<calls, given, out, line, shorts, exited>>

(* main returns to _start, which calls exit_group: stdout is not flushed.  *)
Exit ==
  /\ frame = Idle /\ ~exited
  /\ exited' = TRUE
  /\ UNCHANGED <<frame, calls, given, out, line, shorts, mem, ret>>

-----------------------------------------------------------------------------
(* Mutant of CallInput: neg is not reset.                                  *)
CallInputStale ==
  /\ reader.pc = "idle" /\ Len(got) < MaxReads
  /\ reader' = [reader EXCEPT !.pc = "skip", !.val = 0]
  /\ UNCHANGED <<rd, got>>

(* input(): one read per byte.  The byte after the number is consumed too. *)
CallInput ==
  /\ reader.pc = "idle" /\ Len(got) < MaxReads
  /\ reader' = [pc |-> "skip", val |-> 0, neg |-> FALSE]
  /\ UNCHANGED <<rd, got>>

InputReturn(v) == got' = Append(got, v) /\ reader' = [reader EXCEPT !.pc = "idle"]
InputValue == IF reader.neg THEN Wrap(0 - reader.val) ELSE reader.val

InputByte ==
  /\ reader.pc # "idle" /\ rd < Len(out)
  /\ rd' = rd + 1
  /\ LET c == out[rd + 1]
     IN  CASE reader.pc = "skip" /\ c \in {32, 10, 13, 9} -> UNCHANGED <<reader, got>>
           [] reader.pc = "skip" /\ c \in {Minus, 43} ->
                reader' = [reader EXCEPT !.pc = "signed", !.neg = (c = Minus)] /\ UNCHANGED got
           [] c \in Zero..Zero + 9 ->
                /\ reader' = [reader EXCEPT !.pc = "digits",
                                            !.val = Wrap(@ * 10 + (c - Zero))]
                /\ UNCHANGED got
           [] OTHER -> InputReturn(InputValue)

(* Mutant of InputEOF: the digits loop does not look at the result of read.*)
InputEOFMissed ==
  /\ reader.pc \in {"skip", "signed"} /\ rd = Len(out) /\ exited
  /\ InputReturn(0)
  /\ UNCHANGED rd

(* read returns 0 once the writer is gone.                                 *)
InputEOF ==
  /\ reader.pc # "idle" /\ rd = Len(out) /\ exited
  /\ InputReturn(IF reader.pc = "digits" THEN InputValue ELSE 0)
  /\ UNCHANGED rd

-----------------------------------------------------------------------------
Init ==
  /\ frame = Idle /\ calls = <<>> /\ given = 0
  /\ out = <<>> /\ line = <<>> /\ shorts = 0
  /\ mem = [i \in 0..MemLen - 1 |-> 88] /\ ret = 0 /\ exited = FALSE
  /\ reader = [pc |-> "idle", val |-> 0, neg |-> FALSE] /\ rd = 0 /\ got = <<>>

Call ==
  \/ \E x \in Ints : CallOutput(x) \/ CallPrintLong(x)
  \/ \E c \in Chars : CallPrintChar(c) \/ CallPutchar(c)
  \/ \E s \in Strings : CallPrintString(s) \/ CallPuts(s) \/ (s # <<>> /\ CallPrintDouble(s))
  \/ \E t \in Formats : \/ CallPrintf(t) \/ CallFprintf(t) \/ CallSprintf(t)
                        \/ \E n \in Sizes : CallSnprintf(n, t)

Writer ==
  /\ \/ Call \/ OutputDigit \/ OutputWrite \/ WriteNext
     \/ PrintSign \/ PrintPosDescend \/ PrintPosDigit
     \/ BufioPut \/ VfprintfReturn \/ FileStrPut \/ StrReturn \/ Exit
  /\ UNCHANGED readerVars

Reader == (CallInput \/ InputByte \/ InputEOF) /\ UNCHANGED writerVars

Next == Writer \/ Reader

(* Both programs keep running: neither waits on anything but the pipe.     *)
Spec == Init /\ [][Next]_vars /\ WF_vars(Writer) /\ WF_vars(Reader)

-----------------------------------------------------------------------------
(* The types; and output()'s digits, sign and newline stay inside its      *)
(* buffer, p never passing its start (stdio.c:31-49).                      *)
BufferBound ==
  /\ out \in Seq(0..255) /\ Len(line) < BufSize /\ rd \in 0..Len(out)
  /\ \A i \in DOMAIN mem : mem[i] \in 0..255
  /\ frame.fn = "output" => Len(frame.buf) + (IF frame.neg THEN 1 ELSE 0) <= BufLen

(* The output functions implement ByteStream: digits built right to left,  *)
(* the recursion, the two writes of puts and the buffered lines of printf  *)
(* come out as the texts of the calls in call order, each byte once, short *)
(* writes apart; and every call gets its text out (stdio.c:17-136,         *)
(* printf.c:46-76).                                                        *)
Todo == IF calls = <<>> THEN <<>>
        ELSE LET t == Text(calls[Len(calls)]) IN SubSeq(t, given + 1, Len(t))
Stream == INSTANCE ByteStream WITH todo <- Todo, sent <- out, losses <- shorts
ImplementsStream == Stream!StreamSpec

(* What snprintf and sprintf leave behind when they return: as much of the *)
(* text as fits in n - 1 bytes, the terminator, every other byte of the    *)
(* array as it was, nothing at all for n <= 0, and the length of the whole *)
(* text as the result, so that a call with that result plus one gets it    *)
(* all (printf.c:79-128).                                                  *)
FormatFits ==
  [][(frame.fn = "str" /\ frame' = Idle) =>
       LET t == calls[Len(calls)].arg
           w == IF frame.n <= 0 THEN 0 ELSE IF Len(t) < frame.n THEN Len(t) ELSE frame.n - 1
       IN  /\ ret' = Len(t)
           /\ \A i \in DOMAIN mem :
                mem'[i] = CASE i < w                  -> t[i + 1]
                            [] i = w /\ frame.n > 0   -> 0
                            [] OTHER                  -> frame.old[i]]_vars

(* input() reads back what output() printed: the same integers, in the     *)
(* same order, then zeros at the end of the input; the byte it consumes    *)
(* after a number is never part of the next one (stdio.c:17-90).           *)
RoundTrip ==
  ((\A k \in DOMAIN calls : calls[k].fn = "output") /\ shorts = 0) =>
    \A k \in DOMAIN got : got[k] = IF k <= Len(calls) THEN calls[k].arg ELSE 0

(* A reader blocked in input() gets its answer, at the latest when the     *)
(* writer has exited (stdio.c:65-86).                                      *)
InputReturns == [](reader.pc # "idle" => <>(reader.pc = "idle"))

(* printf.c:1-5: printf, puts and putchar are all "backed by picolibc      *)
(* tinystdio" and stdout "uses real POSIX read/write syscalls": what the   *)
(* calls printed is out, in call order, when the program has exited.       *)
OutputComplete ==
  (exited /\ shorts = 0) => out = FlattenSeq([k \in DOMAIN calls |-> Text(calls[k])])
=============================================================================
