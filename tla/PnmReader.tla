----------------------------- MODULE PnmReader -----------------------------
(***************************************************************************)
(* The reader of lab8: an image in one of the formats P1 to P6 arrives in  *)
(* pieces of any length, as read() gives them, and is parsed token by      *)
(* token.  A token that is not complete waits for the next piece           *)
(* ("moredata").  Bytes are the numbers 0..255 of the file.                *)
(***************************************************************************)
EXTENDS Integers, Sequences, SequencesExt, FiniteSetsExt

CONSTANTS
  Files,    \* the files, as sequences of bytes
  BufSize   \* bytes the buffer holds besides the final NUL (4096)

VARIABLES
  src,      \* the file that is read
  off,      \* bytes of it that read() has returned
  buf,      \* the bytes in the buffer
  p,        \* index in buf of the next byte to parse
  hdr,      \* state, incomment and what the header has said so far
  image,    \* the bytes of the image
  pc,       \* the place in the loop: read, space, comment, token, end
  outcome,  \* reading, or how it ended: ok, badformat, early
  fragile   \* history: the end of the buffer fell in a comment, behind one before the
            \* data or behind the sign of a number, where the code does not look for it
vars == <<src, off, buf, p, hdr, image, pc, outcome, fragile>>

NL == 10
Hash == 35
IsSpace(c) == c \in 9..13 \cup {32}
IsDigit(c) == c \in 48..57
At(t, i) == IF i <= Len(t) THEN t[i] ELSE 0    \* p[len] = '\0'
\* Variant: room for the final NUL is taken for data.
HasOneMore(n) == p + n <= Len(buf) + 2
Has(n) == p + n <= Len(buf) + 1                 \* CHK(n) does not jump
IsAscii(h) == h.fmt \in 1..3
HasMaxval(h) == h.fmt \notin {1, 4}
Channels(h) == IF h.fmt \in {3, 6} THEN 3 ELSE 1
SampleSize(h) == IF h.maxval <= 255 THEN 1 ELSE 2
Count(h) == h.width * h.height * Channels(h)
Limit(h) == Count(h) * SampleSize(h)

\* the value of digits, by the index of the last
Value(t, from) == LET v[j \in from - 1..Len(t)] == IF j < from THEN 0 ELSE 10 * v[j - 1] + t[j] - 48
                  IN  v
\* strtol from index i on: blanks, a sign, digits; the number and the index after
\* it, which is i when there is no digit
Blanks(t, i) == Min({j \in i..Len(t) + 1 : ~IsSpace(At(t, j))})
Digits(t, i) == Blanks(t, i) + IF At(t, Blanks(t, i)) \in {43, 45} THEN 1 ELSE 0
Strtol(t, i) ==
  LET from == Digits(t, i)
      rest == Min({j \in from..Len(t) + 1 : ~IsDigit(At(t, j))})
      abs == Value(t, from)[rest - 1]
  IN  IF rest = from THEN [val |-> 0, rest |-> i]
      ELSE [val |-> IF At(t, Blanks(t, i)) = 45 THEN -abs ELSE abs, rest |-> rest]

TypeOK ==
  /\ src \in Files /\ off \in 0..Len(src)
  /\ Len(buf) <= BufSize /\ p \in 1..Len(buf) + 1
  /\ hdr.state \in 0..4 /\ hdr.incomment \in BOOLEAN
  /\ Len(image) <= Limit(hdr)
  /\ pc \in {"read", "space", "comment", "token", "end"}
  /\ outcome \in {"reading", "ok", "badformat", "early"}
  /\ fragile \in BOOLEAN

Init ==
  /\ src \in Files /\ off = 0 /\ buf = <<>> /\ p = 1 /\ image = <<>>
  /\ hdr = [state |-> 0, incomment |-> FALSE, fmt |-> 5, width |-> 1, height |-> 1, maxval |-> 1]
  /\ pc = "read" /\ outcome = "reading" /\ fragile = FALSE

End(how) == /\ outcome' = how /\ pc' = "end"
            /\ UNCHANGED <<src, off, buf, p, hdr, image>>

\* Variant: the incomplete token is lost.
MoreDataDropsToken(i) == /\ buf' = <<>> /\ p' = 1 /\ pc' = "read"
                         /\ UNCHANGED <<src, off, hdr, image, outcome, fragile>>

\* moredata: the rest of the buffer from index i on moves to its front
MoreDataFrom(i) == /\ buf' = SubSeq(buf, i, Len(buf)) /\ p' = 1 /\ pc' = "read"
                   /\ UNCHANGED <<src, off, hdr, image, outcome, fragile>>
MoreData == MoreDataFrom(p)

\* read() returns some of the rest of the file, as much as fits or less
Read ==
  /\ pc = "read"
  /\ LET room == Min({BufSize - Len(buf), Len(src) - off})
     IN  IF room = 0 THEN End("early") /\ UNCHANGED fragile
         ELSE /\ \E n \in 1..room : /\ buf' = buf \o SubSeq(src, off + 1, off + n)
                                    /\ off' = off + n
              /\ pc' = "space"
              /\ UNCHANGED <<src, p, hdr, image, outcome, fragile>>

\* between the tokens of the header: blanks, then perhaps a comment.  When a
\* comment is at the front of the buffer its blanks are skipped too, and its end if
\* there is nothing before it but blanks.
SkipSpace ==
  /\ pc = "space"
  /\ IF hdr.state \in 1..3 /\ ~Has(1) THEN MoreData
     ELSE /\ UNCHANGED <<src, off, buf, image, outcome>>
          /\ IF hdr.state \in 1..3 /\ IsSpace(At(buf, p))
             THEN /\ p' = p + 1
                  /\ fragile' = (fragile \/ (/\ hdr.incomment /\ At(buf, p) = NL
                                             /\ \A j \in 1..p : IsSpace(At(buf, j))))
                  /\ UNCHANGED <<hdr, pc>>
             ELSE /\ hdr' = [hdr EXCEPT !.incomment = @ \/ (hdr.state \in 1..3 /\ At(buf, p) = Hash)]
                  /\ pc' = "comment"
                  /\ UNCHANGED <<p, fragile>>

\* one byte of a comment; the blank after a comment before the data is read
\* without a look at the end of the buffer
SkipComment ==
  /\ pc = "comment"
  /\ IF hdr.incomment /\ ~Has(1) THEN MoreData
     ELSE LET ends == hdr.incomment /\ At(buf, p) = NL
              data == ends /\ hdr.state = 4
          IN  IF data /\ ~IsSpace(At(buf, p + 1))
              THEN End("badformat") /\ fragile' = (fragile \/ p = Len(buf))
              ELSE /\ p' = p + (IF data THEN 2 ELSE IF hdr.incomment THEN 1 ELSE 0)
                   /\ hdr' = [hdr EXCEPT !.incomment = @ /\ ~ends]
                   /\ pc' = IF hdr.incomment THEN pc ELSE "token"
                   /\ UNCHANGED <<src, off, buf, image, outcome, fragile>>

Magic ==
  /\ pc = "token" /\ hdr.state = 0
  /\ IF ~Has(3) THEN MoreData
     ELSE IF At(buf, p) = 80 /\ At(buf, p + 1) \in 49..54 /\ (At(buf, p + 2) = Hash \/ IsSpace(At(buf, p + 2)))
     THEN /\ hdr' = [hdr EXCEPT !.state = 1, !.fmt = At(buf, p + 1) - 48, !.incomment = At(buf, p + 2) = Hash]
          /\ p' = p + 3 /\ pc' = "space"
          /\ UNCHANGED <<src, off, buf, image, outcome, fragile>>
     ELSE End("badformat") /\ UNCHANGED fragile

\* width, height and maxval
Number ==
  /\ pc = "token" /\ hdr.state \in 1..3
  /\ LET num == Strtol(buf, p)
         after == At(buf, num.rest)
         field == <<"width", "height", "maxval">>[hdr.state]
     IN  IF At(buf, p) # 0 /\ num.rest > Len(buf) THEN MoreData
         ELSE IF num.val > 0 /\ (after = Hash \/ IsSpace(after))
         THEN /\ hdr' = [hdr EXCEPT ![field] = num.val,
                                    !.incomment = @ \/ after = Hash,
                                    !.state = IF @ = 2 /\ ~HasMaxval(hdr) THEN 4 ELSE @ + 1]
              /\ p' = num.rest + 1 /\ pc' = "space"
              /\ UNCHANGED <<src, off, buf, image, outcome, fragile>>
         ELSE End("badformat") /\ fragile' = (fragile \/ Digits(buf, p) > Len(buf))

\* a sample is stored in one or two bytes, or refused
Store(val) ==
  IF val \in 0..hdr.maxval
  THEN /\ image' = image \o IF SampleSize(hdr) = 1 THEN <<val>> ELSE <<val \div 256, val % 256>>
       /\ UNCHANGED <<src, off, hdr, pc, outcome, fragile>>
  ELSE End("badformat") /\ UNCHANGED fragile

AtData == pc = "token" /\ hdr.state = 4 /\ Len(image) < Limit(hdr)

\* P4: eight samples of a byte, the lowest bit first
DataBit ==
  /\ AtData /\ hdr.fmt = 4
  /\ IF ~Has(1) THEN MoreData
     ELSE /\ Store(At(buf, p) % 2)
          /\ buf' = [buf EXCEPT ![p] = @ \div 2]
          /\ p' = IF Len(image) % 8 = 7 THEN p + 1 ELSE p

\* P5 and P6: the high byte first
DataBinary ==
  /\ AtData /\ hdr.fmt \in {5, 6}
  /\ IF ~Has(SampleSize(hdr)) THEN MoreData
     ELSE LET val == IF SampleSize(hdr) = 1 THEN At(buf, p) ELSE 256 * At(buf, p) + At(buf, p + 1)
          IN  IF val <= hdr.maxval
              THEN Store(val) /\ p' = p + SampleSize(hdr) /\ UNCHANGED buf
              ELSE Store(val)

\* P1 to P3: blanks and a number that something must follow
DataAscii ==
  /\ AtData /\ IsAscii(hdr)
  /\ IF IsSpace(At(buf, p))
     THEN IF ~Has(3) THEN MoreDataFrom(p + 1)
          ELSE p' = p + 1 /\ UNCHANGED <<src, off, buf, hdr, image, pc, outcome, fragile>>
     ELSE LET num == Strtol(buf, p)
          IN  IF At(buf, p) # 0 /\ num.rest > Len(buf) THEN MoreData
              ELSE IF num.rest > p /\ num.val \in 0..hdr.maxval
              THEN Store(num.val) /\ p' = num.rest /\ UNCHANGED buf
              ELSE End("badformat") /\ fragile' = (fragile \/ Digits(buf, p) > Len(buf))

Finish ==
  /\ pc = "token" /\ hdr.state = 4 /\ Len(image) = Limit(hdr)
  /\ End("ok") /\ UNCHANGED fragile

Next == \/ Read \/ SkipSpace \/ SkipComment \/ Magic \/ Number
        \/ DataBit \/ DataBinary \/ DataAscii \/ Finish
Spec == Init /\ [][Next]_vars /\ WF_vars(Next)
-----------------------------------------------------------------------------
(* What the formats say of a whole file b.  A header has up to three       *)
(* numbers; h says where one is looked for: from index h.at on, which lies *)
(* in a comment or not.                                                    *)
IsMagic(b) == Len(b) >= 3 /\ b[1] = 80 /\ b[2] \in 49..54 /\ (b[3] = Hash \/ IsSpace(b[3]))
CommentEnd(b, i) == Min({Len(b) + 1} \cup {j \in i + 1..Len(b) + 1 : b[j - 1] = NL})
Token(b, h) == IF h.comment THEN CommentEnd(b, h.at)
               ELSE IF At(b, Blanks(b, h.at)) = Hash THEN CommentEnd(b, Blanks(b, h.at))
               ELSE Blanks(b, h.at)
Field(b, h) == Strtol(b, Token(b, h))
IsField(b, h) ==
  LET num == Field(b, h)
  IN  num.val > 0 /\ num.rest <= Len(b) /\ (b[num.rest] = Hash \/ IsSpace(b[num.rest]))
Behind(b, h) == [at |-> Field(b, h).rest + 1, comment |-> b[Field(b, h).rest] = Hash]

BeforeWidth(b) == [at |-> 4, comment |-> b[3] = Hash]
BeforeHeight(b) == Behind(b, BeforeWidth(b))
BeforeMaxval(b) == Behind(b, BeforeHeight(b))
Announced(b) ==
  [fmt |-> b[2] - 48, width |-> Field(b, BeforeWidth(b)).val, height |-> Field(b, BeforeHeight(b)).val,
   maxval |-> IF b[2] - 48 \in {1, 4} THEN 1 ELSE Field(b, BeforeMaxval(b)).val]
HasFields(b) ==
  /\ IsField(b, BeforeWidth(b)) /\ IsField(b, BeforeHeight(b))
  /\ HasMaxval(Announced(b)) => IsField(b, BeforeMaxval(b))
\* the data begin behind one byte after the header, or after its last comment
AfterHeader(b) == IF HasMaxval(Announced(b)) THEN Behind(b, BeforeMaxval(b)) ELSE BeforeMaxval(b)
DataSeparate(b) == AfterHeader(b).comment => IsSpace(At(b, CommentEnd(b, AfterHeader(b).at)))
Start(b) == IF AfterHeader(b).comment THEN CommentEnd(b, AfterHeader(b).at) + 1 ELSE AfterHeader(b).at

\* where sample k + 1 is, what sample k is, and whether it can be one
PlacesFrom(b, h, start) ==
  LET text[k \in 0..Count(h)] == IF k = 0 THEN start ELSE Strtol(b, text[k - 1]).rest
  IN  IF IsAscii(h) THEN text
      ELSE [k \in 0..Count(h) |-> start + IF h.fmt = 4 THEN k \div 8 ELSE k * SampleSize(h)]
Place(b) == PlacesFrom(b, Announced(b), Start(b))
SampleAt(b, h, at, k) ==
  IF IsAscii(h) THEN Strtol(b, at).val
  ELSE IF h.fmt = 4 THEN (b[at] \div <<1, 2, 4, 8, 16, 32, 64, 128>>[((k - 1) % 8) + 1]) % 2
  ELSE IF SampleSize(h) = 1 THEN b[at] ELSE 256 * b[at] + b[at + 1]
Sample(b, k) == SampleAt(b, Announced(b), Place(b)[k - 1], k)
IsComplete(b, h, at) ==
  IF IsAscii(h) THEN at < Strtol(b, at).rest /\ Strtol(b, at).rest <= Len(b)
  ELSE at + (IF h.fmt = 4 THEN 1 ELSE SampleSize(h)) <= Len(b) + 1
IsSample(b, k) == /\ IsComplete(b, Announced(b), Place(b)[k - 1])
                  /\ Sample(b, k) \in 0..Announced(b).maxval

IsImage(b) == /\ IsMagic(b) /\ HasFields(b) /\ DataSeparate(b)
              /\ \A k \in 1..Count(Announced(b)) : IsSample(b, k)
\* the samples, each in one byte or, the high one first, in two
ImageOf(b) ==
  [k \in 1..Limit(Announced(b)) |->
     IF SampleSize(Announced(b)) = 1 THEN Sample(b, k)
     ELSE IF k % 2 = 1 THEN Sample(b, (k + 1) \div 2) \div 256 ELSE Sample(b, k \div 2) % 256]

\* No number of an image, with the blanks between a comment and it, fills the
\* buffer: one that does is never complete.
NumbersFit(b) ==
  /\ \A h \in {BeforeWidth(b), BeforeHeight(b)} \cup IF HasMaxval(Announced(b)) THEN {BeforeMaxval(b)} ELSE {} :
       Field(b, h).rest - Token(b, h) < BufSize
  /\ IsAscii(Announced(b)) =>
       \A k \in 1..Count(Announced(b)) : Place(b)[k] - Blanks(b, Place(b)[k - 1]) < BufSize

\* A comment directly behind a token that is empty, or of blanks only: the loop at
\* line 207 skips its newline with the blanks, and the comment goes on to the end of
\* the next line.  The program misreads such a file wherever read() cuts it.
IsBlankComment(b, h) == h.comment /\ \E j \in h.at..Blanks(b, h.at) - 1 : b[j] = NL
EmptyComment(b) ==
  /\ IsMagic(b)
  /\ \/ IsBlankComment(b, BeforeWidth(b))
     \/ /\ IsField(b, BeforeWidth(b))
        /\ \/ IsBlankComment(b, BeforeHeight(b))
           \/ /\ IsField(b, BeforeHeight(b)) /\ HasMaxval(Announced(b))
              /\ IsBlankComment(b, BeforeMaxval(b))

\* A valid image without an empty comment behind a token is read as it was written
\* and no other file without one is accepted, however read() cuts it - unless the
\* end of the buffer fell on one of the four places that do not look for it: before
\* the blanks that end a comment (line 207), behind a comment before the data (214),
\* and behind the sign of a number (244 and 279).
ReadAsWritten ==
  outcome # "reading" /\ ~fragile /\ ~EmptyComment(src) =>
    IF IsImage(src) THEN outcome = "ok" /\ image = ImageOf(src) ELSE outcome # "ok"
=============================================================================
