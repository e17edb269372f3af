------------------------------- MODULE PrintF -------------------------------
(***************************************************************************)
(* printf and vsnprintf of clibs/printf.c.  A format is a sequence of      *)
(* items: a char, or a conversion with its flags, width (-1 if none),      *)
(* precision (-1 if none), qualifier and argument.  An action is one turn  *)
(* of the loop over the format.  Every char goes through the same test of  *)
(* the buffer's end, so an item is the chars that it stands for.           *)
(***************************************************************************)
EXTENDS Integers, SequencesExt, FiniteSetsExt

CONSTANTS
  Formats,       \* what a caller may print
  Sizes,         \* the sizes of the buffers vsnprintf is called with
  PRINTF_BUF,    \* sizeof(printf_buf), bound: 1024 in the code
  TOP,           \* bound: the last address
  BUF,           \* the address of the buffer
  UINT,          \* 2^w of an unsigned int, and of an unsigned long
  USHORT         \* and of an unsigned short

Numbers == {"d", "i", "u", "o", "x", "X"}

IsText(s) == s \in Seq(ToSet(s))

\* An item is one that the loop over the format can read.
IsItem(item) ==
  /\ item.flags \subseteq {"LEFT", "ZEROPAD", "PLUS", "SPACE", "SPECIAL"}
  /\ item.width \in Int /\ item.precision \in Nat \cup {-1}
  /\ CASE item.conv \in Numbers \cup {"p"}         -> item.arg \in Int
       [] item.conv \in {"char", "c", "%", "n"}     -> TRUE
       [] OTHER                                     -> IsText(item.arg)

ASSUME PrintAssumption ==
  /\ TOP \in Nat /\ BUF \in 1..TOP /\ Sizes \subseteq 0..TOP /\ PRINTF_BUF \in 1..TOP - BUF + 1
  /\ {UINT, USHORT} \subseteq Nat \ {0}
  /\ \A f \in Formats : IsText(f) /\ \A item \in ToSet(f) : IsItem(item)

VARIABLES
  fmt,         \* the items that are left
  str,         \* str
  ram,         \* the memory, "?" where nothing was written
  size,        \* size, as vsnprintf computes it
  printing,    \* "vsnprintf" and "done" behind it, "printf", "PUTC" and "sent"
  p,           \* p of printf
  stored,      \* what %n stored last
  whole,       \* observation: all chars, also those that did not fit
  serial       \* the chars that PUTC was given

printVars == <<fmt, str, ram, size, printing, p, stored, whole, serial>>

\* Variant with a bug: the wrapped end is kept.
Clamped_Not(n) == n

\* end wraps when the size reaches beyond the last address: then it is clamped.
Clamped(n) ==
  LET end == (BUF + n - 1) % (TOP + 1) IN IF end < BUF - 1 THEN TOP - BUF + 1 ELSE n

end_of_buf == BUF + size - 1

Space == " "

Times(c, n) == [i \in 1..Max({0, n}) |-> c]

small_digits == <<"0", "1", "2", "3", "4", "5", "6", "7", "8", "9", "a", "b", "c", "d", "e", "f">>
large_digits == <<"0", "1", "2", "3", "4", "5", "6", "7", "8", "9", "A", "B", "C", "D", "E", "F">>

\* Variant with a bug: the digits in the order in which they are computed.
DigitsOf_Order(num, base, digits) ==
  LET of[n \in Nat] == IF n < base THEN <<digits[n + 1]>>
                       ELSE <<digits[(n % base) + 1]>> \o of[n \div base]
  IN of[num % UINT]

\* The loop over do_div, which cuts to an unsigned long.
DigitsOf(num, base, digits) ==
  LET of[n \in Nat] == IF n < base THEN <<digits[n + 1]>>
                       ELSE Append(of[n \div base], digits[(n % base) + 1])
  IN of[num % UINT]

Placed(spaces, sign, prefix, zeros, digits) == spaces \o sign \o prefix \o zeros \o digits

\* number: the chars of num.
number(num, base, width, precision, type) ==
  LET sign   == IF "SIGN" \notin type THEN <<>> ELSE IF num < 0 THEN <<"-">>
                ELSE IF "PLUS" \in type THEN <<"+">> ELSE IF "SPACE" \in type THEN <<Space>> ELSE <<>>
      prefix == IF "SPECIAL" \notin type \/ base = 10 THEN <<>> ELSE IF base = 8 THEN <<"0">>
                ELSE <<"0", IF "LARGE" \in type THEN "X" ELSE "x">>
      digits == DigitsOf(IF "SIGN" \in type /\ num < 0 THEN -num ELSE num, base,
                         IF "LARGE" \in type THEN large_digits ELSE small_digits)
      zeros  == Times("0", precision - Len(digits))
      pad    == width - Len(sign) - Len(prefix) - Max({precision, Len(digits)})
  IN IF "LEFT" \in type THEN Placed(<<>>, sign, prefix, zeros, digits) \o Times(Space, pad)
     ELSE IF "ZEROPAD" \in type THEN Placed(<<>>, sign, prefix, Times("0", pad) \o zeros, digits)
     ELSE Placed(Times(Space, pad), sign, prefix, zeros, digits)

\* The bits of x in a type of 2^w values: unsigned, or as a signed number.
Cut(x, values) == x % values
CutSigned(x, values) == ((x + values \div 2) % values) - values \div 2

\* The argument, as its type and the conversion read it: %Z is never signed.
Fetched(x, qualifier, signed) ==
  CASE qualifier = "L" -> x
    [] qualifier = "Z" -> Cut(x, UINT)
    [] qualifier = "h" -> IF signed THEN CutSigned(x, USHORT) ELSE Cut(x, USHORT)
    [] OTHER -> IF signed THEN CutSigned(x, UINT) ELSE Cut(x, UINT)

\* A negative width that is an argument is a flag.
Width(item) == IF item.width < -1 THEN -item.width ELSE item.width
Flags(item) == item.flags \cup IF item.width < -1 THEN {"LEFT"} ELSE {}

Padded(chars, item) ==
  LET spaces == Times(Space, Width(item) - Len(chars))
  IN IF "LEFT" \in Flags(item) THEN chars \o spaces ELSE spaces \o chars

Base(conv) == CASE conv = "o" -> 8 [] conv \in {"x", "X"} -> 16 [] OTHER -> 10

\* The chars of an item.
Chars(item) ==
  CASE item.conv = "char" -> <<item.arg>>
    [] item.conv = "%"    -> <<"%">>
    [] item.conv = "n"    -> <<>>
    [] item.conv = "c"    -> Padded(<<item.arg>>, item)
    [] item.conv = "s"    -> Padded(IF item.precision = -1 THEN item.arg
                                    ELSE SubSeq(item.arg, 1, Min({item.precision, Len(item.arg)})), item)
    [] item.conv = "p"    -> number(Cut(item.arg, UINT), 16, IF item.width = -1 THEN 8 ELSE Width(item),
                                    item.precision,
                                    Flags(item) \cup IF item.width = -1 THEN {"ZEROPAD"} ELSE {})
    [] item.conv \in Numbers ->
         LET signed == item.conv \in {"d", "i"}
         IN number(Fetched(item.arg, item.qualifier, signed), Base(item.conv), Width(item), item.precision,
                   Flags(item) \cup (IF signed THEN {"SIGN"} ELSE {})
                               \cup (IF item.conv = "X" THEN {"LARGE"} ELSE {}))
    [] OTHER -> <<"%">> \o item.arg      \* no conversion: the char, if there is one

\* Variant with a bug: the place behind the buffer is taken for its last.
Fits_Behind(place) == place <= end_of_buf + 1

\* if (str <= end)
Fits(place) == place <= end_of_buf

PrintInit ==
  \E f \in Formats, n \in Sizes \cup {PRINTF_BUF}, caller \in {"vsnprintf", "printf"} :
    /\ caller = "printf" => n = PRINTF_BUF
    /\ fmt = f /\ size = Clamped(n) /\ printing = caller
    /\ str = BUF /\ p = BUF /\ ram = [a \in 0..TOP |-> "?"] /\ stored = -1 /\ whole = <<>> /\ serial = <<>>

\* The bytes from str on that the item writes.
Put(m, chars) ==
  [a \in 0..TOP |-> IF a >= str /\ a < str + Len(chars) /\ Fits(a) THEN chars[a - str + 1] ELSE m[a]]

formats_item ==
  /\ printing \in {"vsnprintf", "printf"} /\ fmt # <<>>
  /\ LET chars == Chars(Head(fmt))
     IN ram' = Put(ram, chars) /\ str' = str + Len(chars) /\ whole' = whole \o chars
  /\ stored' = IF Head(fmt).conv = "n" THEN str - BUF ELSE stored
  /\ fmt' = Tail(fmt)
  /\ UNCHANGED <<size, printing, p, serial>>

Terminated ==
  IF Fits(str) THEN [ram EXCEPT ![str] = "NUL"]
  ELSE IF size > 0 THEN [ram EXCEPT ![end_of_buf] = "NUL"] ELSE ram

vsnprintf_ends ==
  /\ printing \in {"vsnprintf", "printf"} /\ fmt = <<>>
  /\ ram' = Terminated
  /\ printing' = IF printing = "printf" THEN "PUTC" ELSE "done"
  /\ p' = BUF
  /\ UNCHANGED <<fmt, str, size, stored, whole, serial>>

\* Variant with a bug: the return comes behind the new line.
Sent_Behind(c) == IF c = "\n" THEN <<"\n", "\r">> ELSE <<c>>

Sent(c) == IF c = "\n" THEN <<"\r", "\n">> ELSE <<c>>

\* The loop of printf over printf_buf, up to its first NUL.
printf_puts ==
  /\ printing = "PUTC"
  /\ IF ram[p] = "NUL" THEN printing' = "sent" /\ UNCHANGED <<serial, p>>
     ELSE serial' = serial \o Sent(ram[p]) /\ p' = p + 1 /\ UNCHANGED printing
  /\ UNCHANGED <<fmt, str, ram, size, stored, whole>>

PrintNext == formats_item \/ vsnprintf_ends \/ printf_puts

PrintSpec == PrintInit /\ [][PrintNext]_printVars

-----------------------------------------------------------------------------

PrintTypeOK ==
  /\ str = BUF + Len(whole) /\ size \in 0..TOP - BUF + 1
  /\ printing \in {"vsnprintf", "printf", "PUTC", "done", "sent"} /\ stored \in -1..Len(whole)

Printed == printing \in {"PUTC", "done", "sent"}

\* The buffer holds the start of the whole text, as much of it as fits in front of
\* its terminator, which is in the buffer even when the text is longer; no byte
\* outside of it is written, none at all if the size is 0 (printf.c 385).
BufferHoldsStart ==
  LET kept == Min({Len(whole), IF Printed THEN size - 1 ELSE size})
  IN ram = [a \in 0..TOP |->
              IF a \in BUF..BUF + kept - 1 THEN whole[a - BUF + 1]
              ELSE IF Printed /\ size > 0 /\ a = BUF + kept THEN "NUL" ELSE "?"]

\* Where the n-th char of text is on the line: a return is before each new line.
OnLine(text, n) == n + Cardinality({i \in 1..n : text[i] = "\n"})

\* What printf hands to the serial line, a return before each new line: what is in
\* the buffer up to the first NUL, which may be a char of the text, although its
\* result counts all chars (printf.c 425).
SerialShowsText ==
  printing = "sent" =>
    LET first == SelectInSeq(Append(whole, "NUL"), LAMBDA c : c = "NUL") - 1
        sent  == Min({first, size - 1})
    IN /\ Len(serial) = OnLine(whole, sent)
       /\ \A n \in 1..sent :
            /\ serial[OnLine(whole, n)] = whole[n]
            /\ whole[n] = "\n" => serial[OnLine(whole, n) - 1] = "\r"

DigitOf(c) == CHOOSE d \in 0..15 : c \in {small_digits[d + 1], large_digits[d + 1]}

ValueOf(digits, base) ==
  LET value[k \in 0..Len(digits)] == IF k = 0 THEN 0 ELSE value[k - 1] * base + DigitOf(digits[k])
  IN value[Len(digits)]

Inner(text) == {i \in DOMAIN text : text[i] # Space}

\* The number a text reads as: space around it, sign, 0x, then nothing but digits.
ReadsAs(text, base) ==
  LET body   == SubSeq(text, Min(Inner(text)), Max(Inner(text)))
      signed == body[1] \in {"-", "+"}
      digits == IF signed THEN Tail(body) ELSE body
      plain  == IF Len(digits) > 1 /\ digits[2] \in {"x", "X"} THEN SubSeq(digits, 3, Len(digits)) ELSE digits
  IN IF signed /\ body[1] = "-" THEN -ValueOf(plain, base) ELSE ValueOf(plain, base)

\* Whatever the flags, the width and the precision, what number prints reads as
\* the number, cut to an unsigned long (printf.c 27), with as many chars as the
\* width asks for, and space only around it.
NumberReadsBack ==
  printing \in {"vsnprintf", "printf"} /\ fmt # <<>> /\ Head(fmt).conv \in Numbers =>
    LET item   == Head(fmt)
        text   == Chars(item)
        signed == item.conv \in {"d", "i"}
        arg    == Fetched(item.arg, item.qualifier, signed)
    IN /\ arg \in -(UINT - 1)..UINT - 1 =>
            ReadsAs(text, Base(item.conv)) = IF signed THEN arg ELSE arg % UINT
       /\ Len(text) >= Width(item)
       /\ Inner(text) = Min(Inner(text))..Max(Inner(text))

\* vsnprintf and printf put out the text of their format and nothing else: cut
\* where the buffer ends, never written behind it, and with numbers that read
\* back as the argument (printf.c 66 to 430).
PrintCorrect ==
  /\ PrintTypeOK
  /\ BufferHoldsStart
  /\ SerialShowsText
  /\ NumberReadsBack
=============================================================================
