----------------------------- MODULE StringLib -----------------------------
(***************************************************************************)
(* clibs/string.c on a small memory.  A char is signed, as it is on the    *)
(* machines the code is built for; a pointer is an index of the memory, 0  *)
(* is NULL.  A loop is what one turn does to its variables (Loop).  An     *)
(* operator with m for its first argument that writes returns the memory   *)
(* after the call.  What the functions promise is stated without any loop, *)
(* by the places of bytes.                                                 *)
(***************************************************************************)
EXTENDS Integers, SequencesExt, FiniteSetsExt

CONSTANTS
  Bytes,       \* the chars of the strings, 0 among them
  MemSize,     \* bound: the bytes of the memory
  UINT_MAX     \* of an unsigned int

ASSUME StringAssumption ==
  /\ Bytes \subseteq -128..127 /\ 0 \in Bytes
  /\ MemSize \in Nat /\ UINT_MAX \in Nat /\ MemSize < UINT_MAX

VARIABLE memory

NoString == memory = <<>>

AnyString == memory \in [1..MemSize -> Bytes]

\* Variant with a bug: a char is not signed.
Signed_Not(x) == x % 256

Signed(x) == ((x + 128) % 256) - 128       \* (signed char)

Unsigned(x) == x % 256                   \* (unsigned char)
tolower(c) == IF c \in 65..90 THEN c + 32 ELSE c
isspace(c) == c = 32 \/ c \in 9..13
Less(n, k) == (n - k) % (UINT_MAX + 1)   \* an unsigned n after k times --n

\* What a loop that begins with x leaves behind: turn says what one turn makes of it,
\* as long as there is one.  No loop makes more turns than there are bytes.
Loop(x, turn) ==
  LET after[k \in Nat] ==
        IF k = 0 THEN x
        ELSE LET last == after[k - 1] IN IF last \in DOMAIN turn THEN turn[last] ELSE last
  IN after[MemSize]

\* ++n, or --n, while it is in S.
Forward(n, S)  == Loop(n, [k \in S |-> k + 1])
Backward(n, S) == Loop(n, [k \in S |-> k - 1])

-----------------------------------------------------------------------------
(* Lengths and comparisons, of the memory m.                               *)

strlen(m, s) == Forward(s, {p \in Nat : m[p] # 0}) - s

strnlen(m, s, count) == Forward(0, {k \in Nat : k < count /\ m[s + k] # 0})

strcmp(m, cs, ct) ==
  LET res(k) == Signed(m[cs + k] - m[ct + k])
  IN res(Forward(0, {k \in Nat : res(k) = 0 /\ m[cs + k] # 0}))

strncmp(m, cs, ct, count) ==
  LET res(k) == Signed(m[cs + k] - m[ct + k])
      n      == Forward(0, {k \in Nat : k < count /\ res(k) = 0 /\ m[cs + k] # 0})
  IN IF n < count THEN res(n) ELSE 0

memcmp(m, cs, ct, count) ==
  LET res(k) == Unsigned(m[cs + k]) - Unsigned(m[ct + k])
      n      == Forward(0, {k \in Nat : k < count /\ res(k) = 0})
  IN IF n < count THEN res(n) ELSE 0

strcasecmp(m, s1, s2) ==
  LET c1(k) == tolower(m[s1 + k])
      c2(k) == tolower(m[s2 + k])
      n     == Forward(0, {k \in Nat : c1(k) = c2(k) /\ c1(k) # 0})
  IN c1(n) - c2(n)

\* Variant with a bug: one char too many.
strncasecmp_More(m, s1, s2, n) ==
  LET c1(k) == tolower(m[s1 + k])
      c2(k) == tolower(m[s2 + k])
      at    == Forward(0, {k \in Nat : Less(n, k) > 0 /\ c1(k) = c2(k) /\ c1(k) # 0})
  IN c1(at) - c2(at)

strncasecmp(m, s1, s2, n) ==
  LET c1(k) == tolower(m[s1 + k])
      c2(k) == tolower(m[s2 + k])
      at    == Forward(0, {k \in Nat : Less(n, k + 1) > 0 /\ c1(k) = c2(k) /\ c1(k) # 0})
  IN c1(at) - c2(at)

\* The chars of the first difference, as they are when one of them is 0.
strnicmp(m, s1, s2, len) ==
  LET c1(k) == Unsigned(m[s1 + k])
      c2(k) == Unsigned(m[s2 + k])
      n     == Forward(0, {k \in Nat : k < len /\ c1(k) # 0 /\ c2(k) # 0 /\ tolower(c1(k)) = tolower(c2(k))})
  IN IF n >= len THEN 0
     ELSE IF c1(n) = 0 \/ c2(n) = 0 THEN c1(n) - c2(n) ELSE tolower(c1(n)) - tolower(c2(n))

-----------------------------------------------------------------------------
(* Searches.                                                               *)

strchr(m, s, c) ==
  LET p == Forward(s, {q \in Nat : m[q] # Signed(c) /\ m[q] # 0})
  IN IF m[p] = Signed(c) THEN p ELSE 0

LastFrom(m, s, p, c) ==
  LET q == Backward(p, {r \in Nat : r >= s /\ m[r] # Signed(c)}) IN IF q >= s THEN q ELSE 0

\* Variant with a bug: the search begins before the terminator.
strrchr_Before(m, s, c) == IF m[s] = 0 THEN 0 ELSE LastFrom(m, s, s + strlen(m, s) - 1, c)

strrchr(m, s, c) == LastFrom(m, s, s + strlen(m, s), c)

strnchr(m, s, count, c) ==
  LET n == Forward(0, {k \in Nat : k < count /\ m[s + k] # 0 /\ m[s + k] # Signed(c)})
  IN IF n < count /\ m[s + n] # 0 THEN s + n ELSE 0

\* The inner loop of the three functions below over the chars at t.
Among(m, c, t) == m[Forward(t, {p \in Nat : m[p] # 0 /\ m[p] # c})] # 0

strspn(m, s, accept) == Forward(s, {p \in Nat : m[p] # 0 /\ Among(m, m[p], accept)}) - s

strcspn(m, s, reject) == Forward(s, {p \in Nat : m[p] # 0 /\ ~Among(m, m[p], reject)}) - s

strpbrk(m, cs, ct) ==
  LET p == Forward(cs, {q \in Nat : m[q] # 0 /\ ~Among(m, m[q], ct)}) IN IF m[p] = 0 THEN 0 ELSE p

\* c is compared as the int it is, with an unsigned char.
memscan(m, addr, c, size) == addr + Forward(0, {k \in Nat : k < size /\ Unsigned(m[addr + k]) # c})

memchr(m, s, c, n) ==
  LET k == Forward(0, {j \in Nat : j < n /\ Unsigned(m[s + j]) # Unsigned(c)}) IN IF k < n THEN s + k ELSE 0

strstr(m, s1, s2) ==
  LET l1 == strlen(m, s1)
      l2 == strlen(m, s2)
      n  == Forward(0, {k \in Nat : l1 - k >= l2 /\ memcmp(m, s1 + k, s2, l2) # 0})
  IN IF l2 = 0 THEN s1 ELSE IF l1 - n >= l2 THEN s1 + n ELSE 0

-----------------------------------------------------------------------------
(* Copies: the memory, and the turns so far.                               *)

Copying == [mem : Seq(Int), turns : Nat]

Begin(m) == [mem |-> m, turns |-> 0]

Copied(x, place, c) == [mem |-> [x.mem EXCEPT ![place] = c], turns |-> x.turns + 1]

memset(m, s, c, count) ==
  Loop(Begin(m), [x \in {y \in Copying : y.turns < count} |-> Copied(x, s + x.turns, Signed(c))]).mem

memcpy(m, dest, src, count) ==
  Loop(Begin(m), [x \in {y \in Copying : y.turns < count} |->
                   Copied(x, dest + x.turns, x.mem[src + x.turns])]).mem

CopyDown(m, dest, src, count) ==
  Loop(Begin(m), [x \in {y \in Copying : y.turns < count} |->
                   Copied(x, dest + count - 1 - x.turns, x.mem[src + count - 1 - x.turns])]).mem

\* Variant with a bug: the direction is the same always.
memmove_Up(m, dest, src, count) == memcpy(m, dest, src, count)

memmove(m, dest, src, count) ==
  IF dest <= src THEN memcpy(m, dest, src, count) ELSE CopyDown(m, dest, src, count)

\* The char that was copied last is no terminator, if there was one.
GoesOn(x, dest) == x.turns = 0 \/ x.mem[dest + x.turns - 1] # 0

strcpy(m, dest, src) ==
  Loop(Begin(m), [x \in {y \in Copying : GoesOn(y, dest)} |->
                   Copied(x, dest + x.turns, x.mem[src + x.turns])]).mem

\* src stays at its terminator.
strncpy(m, dest, src, count) ==
  Loop(<<Begin(m), src>>, [x \in {y \in Copying \X Nat : y[1].turns < count} |->
                            LET c == x[1].mem[x[2]]
                            IN <<Copied(x[1], dest + x[1].turns, c), IF c # 0 THEN x[2] + 1 ELSE x[2]>>])[1].mem

strlcpy(m, dest, src, size) ==
  LET ret == strlen(m, src)
      len == IF ret >= size THEN size - 1 ELSE ret
  IN IF size = 0 THEN m ELSE [memcpy(m, dest, src, len) EXCEPT ![dest + len] = 0]

strcat(m, dest, src) == strcpy(m, dest + strlen(m, dest), src)

AppendUpTo(m, dest, src, count) ==
  LET x == Loop(Begin(m), [y \in {z \in Copying : z.turns < count /\ GoesOn(z, dest)} |->
                            Copied(y, dest + y.turns, y.mem[src + y.turns])])
  IN IF GoesOn(x, dest) THEN [x.mem EXCEPT ![dest + count] = 0] ELSE x.mem

strncat(m, dest, src, count) ==
  IF count = 0 THEN m ELSE AppendUpTo(m, dest + strlen(m, dest), src, count)

\* BUG_ON is the guard of the call.
strlcat(m, dest, src, count) ==
  LET dsize == strlen(m, dest)
      room  == count - dsize
      len   == IF strlen(m, src) >= room THEN room - 1 ELSE strlen(m, src)
  IN [memcpy(m, dest + dsize, src, len) EXCEPT ![dest + dsize + len] = 0]

LastText(m, s, end) == Backward(end, {p \in Nat : p >= s /\ isspace(m[p])})
FirstText(m, s) == Forward(s, {p \in Nat : m[p] # 0 /\ isspace(m[p])})

\* Variant with a bug: the last char is taken for text, whatever it is.
Stripped_Last(m, s) == m

\* strstrip: the memory, and the string that is returned.
Stripped(m, s) ==
  IF strlen(m, s) = 0 THEN m
  ELSE [m EXCEPT ![LastText(m, s, s + strlen(m, s) - 1) + 1] = 0]

strstrip(m, s) == [mem |-> Stripped(m, s), ret |-> FirstText(Stripped(m, s), s)]

\* Variant with a bug: the token is not terminated.
strsep_Open(m, s, ct) ==
  LET end == strpbrk(m, s, ct) IN [mem |-> m, s |-> IF end = 0 THEN 0 ELSE end + 1]

\* strsep of *s, which is not NULL: the token is at s.
strsep(m, s, ct) ==
  LET end == strpbrk(m, s, ct)
  IN IF end = 0 THEN [mem |-> m, s |-> 0]
     ELSE [mem |-> [m EXCEPT ![end] = 0], s |-> end + 1]

\* The calls of strsep until it returns NULL: the memory and the tokens.
Tokens(m, s, ct) ==
  Loop([mem |-> m, s |-> s, tokens |-> <<>>],
       [x \in {y \in [mem : Seq(Int), s : Nat, tokens : Seq(Nat)] : y.s # 0} |->
          LET r == strsep(x.mem, x.s, ct) IN [mem |-> r.mem, s |-> r.s, tokens |-> Append(x.tokens, x.s)]])

-----------------------------------------------------------------------------
(* What a caller may ask for.                                              *)

Places == DOMAIN memory
Counts == 0..Len(memory)

IsString(m, s) == \E i \in s..Len(m) : m[i] = 0

\* The terminator, and the text before it.
End(m, s) == Min({i \in s..Len(m) : m[i] = 0})
Text(m, s) == SubSeq(m, s, End(m, s) - 1)

\* count bytes from d on are in the memory, apart from the string at s.
Room(m, d, count, s) ==
  d + count - 1 <= Len(m) /\ (d..d + count - 1) \cap (s..End(m, s)) = {}

\* And the string at s fits behind the one at d.
RoomBehind(m, d, s) == IsString(m, d) /\ Room(m, d, End(m, d) - d + End(m, s) - s + 1, s)

\* The calls that change the memory.
CopyString(d, s) ==
  /\ IsString(memory, s)
  /\ \/ Room(memory, d, End(memory, s) - s + 1, s) /\ memory' = strcpy(memory, d, s)
     \/ RoomBehind(memory, d, s) /\ memory' = strcat(memory, d, s)

CopyUpTo(d, s, n) ==
  /\ IsString(memory, s)
  /\ \/ Room(memory, d, n, s) /\ memory' \in {strncpy(memory, d, s, n), strlcpy(memory, d, s, n)}
     \/ RoomBehind(memory, d, s) /\ memory' = strncat(memory, d, s, n)
     \/ RoomBehind(memory, d, s) /\ End(memory, d) - d < n /\ memory' = strlcat(memory, d, s, n)

Strip(s) == IsString(memory, s) /\ memory' = strstrip(memory, s).mem

Apart(s, t) ==
  /\ IsString(memory, s) /\ IsString(memory, t)
  /\ s \notin t..End(memory, t) /\ t \notin s..End(memory, s)

Separate(s, ct) == Apart(s, ct) /\ memory' = strsep(memory, s, ct).mem

Fill(s, c, n) == s + n - 1 <= Len(memory) /\ memory' = memset(memory, s, c, n)

Move(d, s, n) ==
  /\ d + n - 1 <= Len(memory) /\ s + n - 1 <= Len(memory)
  /\ memory' \in {memmove(memory, d, s, n)} \cup
                 (IF (d..d + n - 1) \cap (s..s + n - 1) = {} THEN {memcpy(memory, d, s, n)} ELSE {})

StringNext ==
  \/ \E d, s \in Places : CopyString(d, s) \/ Separate(d, s)
  \/ \E d, s \in Places, n \in Counts : CopyUpTo(d, s, n) \/ Move(d, s, n)
  \/ \E s \in Places : Strip(s)
  \/ \E s \in Places, c \in Bytes, n \in Counts : Fill(s, c, n)

StringSpec == AnyString /\ [][StringNext]_memory

-----------------------------------------------------------------------------

\* No call leaves the memory, and a char stays one.
StringTypeOK == memory \in Seq(Bytes) /\ Len(memory) \in {0, MemSize}

FirstOf(S) == IF S = {} THEN 0 ELSE Min(S)

\* Each search finds the first place, or the last, where the byte is what it
\* looks for: the terminator is a char for strchr and strrchr and none for
\* strnchr (string.c 241, 257), the places that do not exist are not looked at.
SearchesFind ==
  /\ \A s \in Places : IsString(memory, s) =>
       LET e == End(memory, s)
           Of(c) == {i \in s..e : memory[i] = c}
       IN /\ strlen(memory, s) = e - s
          /\ \A n \in Counts : strnlen(memory, s, n) = Min({n, e - s})
          /\ \A c \in Bytes :
               /\ strchr(memory, s, c) = FirstOf(Of(c))
               /\ strrchr(memory, s, c) = IF Of(c) = {} THEN 0 ELSE Max(Of(c))
               /\ \A n \in Counts : strnchr(memory, s, n, c) = FirstOf(Of(c) \cap (s..Min({e, s + n}) - 1))
          /\ \A t \in Places : IsString(memory, t) =>
               LET hits == {i \in s..e - 1 : memory[i] \in ToSet(Text(memory, t))}
                   len  == End(memory, t) - t
               IN /\ strpbrk(memory, s, t) = FirstOf(hits)
                  /\ strcspn(memory, s, t) = Min(hits \cup {e}) - s
                  /\ strspn(memory, s, t) = Min((s..e) \ hits) - s
                  /\ strstr(memory, s, t) =
                       FirstOf({i \in s..e - len : SubSeq(memory, i, i + len - 1) = Text(memory, t)})
  /\ \A s \in Places, n \in Counts, c \in Bytes : s + n - 1 <= Len(memory) =>
       LET hits == {i \in s..s + n - 1 : memory[i] = c}
       IN memchr(memory, s, c, n) = FirstOf(hits)
          /\ memscan(memory, s, Unsigned(c), n) = Min(hits \cup {s + n})

Sign(x) == IF x < 0 THEN -1 ELSE IF x > 0 THEN 1 ELSE 0

\* The order of two sequences that one of does not begin the other.
OrderOf(x, y) ==
  LET apart == {i \in 1..Min({Len(x), Len(y)}) : x[i] # y[i]}
  IN IF apart = {} THEN 0 ELSE Sign(x[Min(apart)] - y[Min(apart)])

Ascii(x) == \A i \in DOMAIN x : x[i] >= 0
Lower(x) == [i \in DOMAIN x |-> tolower(x[i])]
Upto(x, n) == SubSeq(x, 1, Min({n, Len(x)}))

\* A comparison is 0 exactly of equal strings, although strcmp keeps a difference
\* in a char (string.c 196); of ASCII strings its sign is their order.  The
\* comparisons that take a length look no farther, but for strncasecmp of
\* length 0, which compares all (string.c 54); memcmp orders unsigned bytes.
ComparisonsOrder ==
  \A s, t \in Places :
    /\ IsString(memory, s) /\ IsString(memory, t) =>
         LET x == Append(Text(memory, s), 0)
             y == Append(Text(memory, t), 0)
             Agrees(res, v, w) == IF Ascii(v) /\ Ascii(w) THEN Sign(res) = OrderOf(v, w)
                                                          ELSE res = 0 <=> v = w
         IN /\ Agrees(strcmp(memory, s, t), x, y)
            /\ Agrees(strcasecmp(memory, s, t), Lower(x), Lower(y))
            /\ \A n \in Counts :
                 /\ Agrees(strncmp(memory, s, t, n), Upto(x, n), Upto(y, n))
                 /\ strnicmp(memory, s, t, n) = 0 <=> Lower(Upto(x, n)) = Lower(Upto(y, n))
                 /\ LET k == IF n = 0 THEN UINT_MAX ELSE n
                    IN Agrees(strncasecmp(memory, s, t, n), Lower(Upto(x, k)), Lower(Upto(y, k)))
    /\ \A n \in Counts : s + n - 1 <= Len(memory) /\ t + n - 1 <= Len(memory) =>
         LET Bytewise(p) == [i \in 1..n |-> Unsigned(memory[p + i - 1])]
         IN Sign(memcmp(memory, s, t, n)) = OrderOf(Bytewise(s), Bytewise(t))

\* The memory with the bytes of x from d on, and no other byte changed.
Written(m, d, x) ==
  [i \in Places |-> IF i \in d..d + Len(x) - 1 THEN x[i - d + 1] ELSE m[i]]

Filled(c, n) == [i \in 1..n |-> c]

\* Each copy writes what it promises and no byte more: strncpy fills its area,
\* strlcpy and strlcat terminate what they cut to their size, strncat what it cuts
\* to its count, and memmove copies what was there also when the areas overlap
\* (string.c 85, 109, 147, 170, 453).
CopiesWrite ==
  \A d, s \in Places, n \in Counts :
    /\ IsString(memory, s) =>
         LET x   == Text(memory, s)
             y   == Text(memory, d)
             end == End(memory, d)
         IN /\ Room(memory, d, Len(x) + 1, s) =>
                 strcpy(memory, d, s) = Written(memory, d, Append(x, 0))
            /\ Room(memory, d, n, s) =>
                 /\ strncpy(memory, d, s, n) = Written(memory, d, Upto(x \o Filled(0, n), n))
                 /\ n > 0 => strlcpy(memory, d, s, n) = Written(memory, d, Append(Upto(x, n - 1), 0))
            /\ RoomBehind(memory, d, s) =>
                 /\ strcat(memory, d, s) = Written(memory, end, Append(x, 0))
                 /\ n > 0 => strncat(memory, d, s, n) = Written(memory, end, Append(Upto(x, n), 0))
                 /\ n > Len(y) =>
                      strlcat(memory, d, s, n) = Written(memory, d, Append(Upto(y \o x, n - 1), 0))
    /\ d + n - 1 <= Len(memory) /\ s + n - 1 <= Len(memory) =>
         /\ memmove(memory, d, s, n) = Written(memory, d, SubSeq(memory, s, s + n - 1))
         /\ \A c \in Bytes : memset(memory, d, c, n) = Written(memory, d, Filled(c, n))

\* strstrip returns the text without the space before and behind it, and changes
\* at most the byte behind the text (string.c 273).
StripLeavesText ==
  \A s \in Places : IsString(memory, s) =>
    LET r    == strstrip(memory, s)
        text == {i \in s..End(memory, s) - 1 : ~isspace(memory[i])}
    IN /\ Text(r.mem, r.ret) = IF text = {} THEN <<>> ELSE SubSeq(memory, Min(text), Max(text))
       /\ Cardinality({i \in Places : r.mem[i] # memory[i]}) <= 1

\* The calls of strsep split the string at each of the separators, and nowhere
\* else: also before the first, behind the last and between two that are next to
\* each other there is a token, which is empty (string.c 386).
SplitAtSeparators ==
  \A s, t \in Places : Apart(s, t) =>
    LET end   == End(memory, s)
        marks == {i \in s..end - 1 : memory[i] \in ToSet(Text(memory, t))}
        r     == Tokens(memory, s, t)
    IN /\ r.mem = [i \in Places |-> IF i \in marks THEN 0 ELSE memory[i]]
       /\ ToSet(r.tokens) = {s} \cup {i + 1 : i \in marks}
       /\ Len(r.tokens) = Cardinality(marks) + 1

\* Each function of string.c computes what its reference definition says, on
\* every memory and for every place, length and char: the searches, the
\* comparisons, and the functions that write.
StringsCorrect ==
  /\ StringTypeOK
  /\ SearchesFind
  /\ ComparisonsOrder
  /\ CopiesWrite
  /\ StripLeavesText
  /\ SplitAtSeparators
=============================================================================
