------------------------------- MODULE LobsterNet -------------------------------
(***************************************************************************)
(* The lobster-net device (hw/misc/lobster_net.c): the guest writes a URL  *)
(* or a C program into a buffer and a command into CMD; the host runs curl *)
(* or the cross compiler and the answer appears in the response registers. *)
(*                                                                         *)
(* A command runs inside the guest's write to CMD, so nothing else happens *)
(* on the device meanwhile.  It is several steps here, one per call to the *)
(* host that can fail, because the host may also kill QEMU between them.   *)
(*                                                                         *)
(* A byte is a symbol.  In the buffer "http" stands for a prefix the       *)
(* device accepts, "tok" for a character a token may have, "x" for one it  *)
(* may not.  A response has body bytes "b", newlines and digits.           *)
(***************************************************************************)
EXTENDS Integers, Sequences, FiniteSets

CONSTANTS
  UrlMax,    \* LOBSTER_URL_MAX
  TokenMax,  \* the longest token passed on, sizeof(token) - 1
  RespMax,   \* LOBSTER_RESP_MAX
  CodeRoom,  \* what a fetch leaves free of the response buffer (16)
  Data,      \* what the guest writes into the buffer at once
  Bodies,    \* the bodies servers send
  Codes,     \* the digits curl writes for the codes servers send (3)
  Programs,  \* the executables the compiler makes
  Messages   \* the messages it fails with

\* Sizes of the buffers; the end of the response has room for a status code.
ASSUME NetSizes ==
  /\ UrlMax \in Nat /\ TokenMax \in Nat
  /\ RespMax \in Nat /\ CodeRoom \in 1 .. RespMax

Digit == {"0", "2", "4"}
Value == [d \in Digit |-> IF d = "0" THEN 0 ELSE IF d = "2" THEN 2 ELSE 4]
Sym == {"zero", "tok", "nl", "http", "x"}
RespSym == {"b", "nl", "elf", "msg"} \cup Digit

\* What guest, curl and gcc give are symbols; a status code fits in its room.
ASSUME NetInputs ==
  /\ Data \subseteq Seq(Sym)
  /\ Bodies \subseteq Seq(RespSym) /\ Codes \subseteq Seq(Digit)
  /\ Programs \subseteq Seq(RespSym) /\ Messages \subseteq Seq(RespSym)
  /\ \A code \in Codes : Len(code) \in 1 .. CodeRoom - 1

Cell == 0 .. UrlMax - 1
TempFile == {"c", "elf", "err"}

VARIABLES
  urlBuf, urlLen,            \* the buffer and how much of it is meant
  auth,                      \* AUTH_MODE
  status, respLen, respCode, \* the registers of the answer
  respBuf,                   \* the bytes last written to the response buffer
  pc,                        \* where a command is; "ready" between commands
  request,                   \* the URL and the token of the fetch in progress
  tmp,                       \* temporary files of the command in progress
  \* History, which only the properties read:
  left,                      \* files the last command that returned did not remove
  armed,                     \* AUTH_MODE was set since the last fetch or reset
  answer                     \* what the host made for the last command

registers == <<urlBuf, urlLen, auth>>
response == <<status, respLen, respCode, respBuf>>
files == <<tmp, left>>
vars == <<registers, response, pc, request, files, armed, answer>>

NoRequest == [url |-> <<>>, token |-> <<>>]

\* What the guest should get (bytes, code), all that the host's program wrote
\* (output), and whether the device had room for the bytes (whole), was sent the
\* code (coded), and read the output at all (read).
Answer == [bytes : Seq(RespSym), output : Seq(RespSym), code : Nat,
           whole : BOOLEAN, coded : BOOLEAN, read : BOOLEAN]

\* Nothing to read, or nothing that the device could read.
NothingSaid(code, read) ==
  [bytes |-> <<>>, output |-> <<>>, code |-> code,
   whole |-> TRUE, coded |-> TRUE, read |-> read]

EmptyBuffer == [i \in Cell |-> "zero"]

\* lobster_net_init.
Init ==
  /\ urlBuf = EmptyBuffer /\ urlLen = 0 /\ auth = 0
  /\ status = "idle" /\ respLen = 0 /\ respCode = 0 /\ respBuf = <<>>
  /\ pc = "ready" /\ request = NoRequest
  /\ tmp = {} /\ left = {}
  /\ armed = FALSE /\ answer = NothingSaid(0, TRUE)

\* What a RESET and a restart have in common.
Cleared ==
  /\ urlBuf' = EmptyBuffer /\ urlLen' = 0 /\ auth' = 0
  /\ status' = "idle" /\ respLen' = 0 /\ respCode' = 0 /\ respBuf' = <<>>
  /\ armed' = FALSE /\ answer' = NothingSaid(0, TRUE)

TypeOK ==
  /\ urlBuf \in [Cell -> Sym] /\ urlLen \in 0 .. UrlMax /\ auth \in 0 .. 1
  /\ status \in {"idle", "busy", "done", "error"}
  /\ respBuf \in Seq(RespSym) /\ Len(respBuf) <= RespMax
  /\ respLen \in 0 .. Len(respBuf) /\ respCode \in Nat
  /\ pc \in {"ready", "fetch", "source", "write", "outputs", "gcc", "clean"}
  /\ request \in [url : Seq(Sym), token : Seq(Sym)]
  /\ tmp \subseteq TempFile /\ left \subseteq TempFile
  /\ armed \in BOOLEAN
  /\ answer \in Answer

-----------------------------------------------------------------------------
(* Register writes between commands.                                       *)

Ready == pc = "ready"
Idle == UNCHANGED <<pc, request, files, answer>>

\* A write that would run over the end of the buffer is ignored.
WriteData(i, data) ==
  /\ Ready
  /\ i + Len(data) <= UrlMax
  /\ urlBuf' = [c \in Cell |-> IF c \in i .. i + Len(data) - 1 THEN data[c - i + 1]
                                                              ELSE urlBuf[c]]
  /\ Idle /\ UNCHANGED <<urlLen, auth, response, armed>>

WriteUrlLen(n) ==
  /\ Ready
  /\ urlLen' = IF n > UrlMax THEN UrlMax ELSE n
  /\ Idle /\ UNCHANGED <<urlBuf, auth, response, armed>>

\* A write to AUTH_MODE; one to RESP_CODE falls through to it.
WriteAuth(val) ==
  /\ Ready
  /\ auth' = val % 2
  /\ armed' = (val % 2 = 1)
  /\ Idle /\ UNCHANGED <<urlBuf, urlLen, response>>

CmdReset ==
  /\ Ready
  /\ Cleared
  /\ UNCHANGED <<pc, request, files>>

-----------------------------------------------------------------------------
(* Fetch.                                                                  *)

Low(a, b) == IF a < b THEN a ELSE b
Bytes(from, to) == [k \in 1 .. to - from |-> urlBuf[from + k - 1]]

\* The position of the first newline among the bytes that count.
IsFirstNewline(n) ==
  /\ n < urlLen /\ urlBuf[n] = "nl"
  /\ \A c \in 0 .. n - 1 : urlBuf[c] # "nl"

WholeBuffer == [url |-> Bytes(0, urlLen), token |-> <<>>]

\* Mutated: the URL starts at the newline.
SplitAtNewline(n) ==
  [url |-> Bytes(n, urlLen), token |-> Bytes(0, Low(n, TokenMax))]

\* "<token>\n<url>", newline at n: only the part of the token that is passed
\* on is looked at; a token with another character is not used, and the whole
\* buffer is then the URL.
SplitAt(n) ==
  IF \A c \in 0 .. Low(n, TokenMax) - 1 : urlBuf[c] = "tok"
    THEN [url |-> Bytes(n + 1, urlLen), token |-> Bytes(0, Low(n, TokenMax))]
    ELSE WholeBuffer

Request ==
  IF auth = 1 /\ \E n \in Cell : n > 0 /\ IsFirstNewline(n)
    THEN SplitAt(CHOOSE n \in Cell : IsFirstNewline(n))
    ELSE WholeBuffer

\* Mutated: the mode is left set when the buffer has no token.
AuthUnlessUnused == IF Request.token # <<>> THEN 0 ELSE auth

AuthAfterFetch == 0

\* "so the next fetch is anon unless the guest re-sets it".
CmdFetch ==
  /\ Ready
  /\ status' = "busy"
  /\ request' = Request
  /\ auth' = AuthAfterFetch
  /\ pc' = "fetch"
  /\ UNCHANGED <<urlBuf, urlLen, respLen, respCode, respBuf, files, armed, answer>>

UrlAccepted == request.url # <<>> /\ request.url[1] = "http"

\* The return of a fetch, which makes no files.
FetchReturns ==
  /\ pc' = "ready" /\ request' = NoRequest /\ armed' = FALSE
  /\ left' = {}
  /\ UNCHANGED <<registers, tmp>>

\* The URL is not accepted, or popen fails.
FetchFails ==
  /\ pc = "fetch"
  /\ status' = "error" /\ respCode' = 0 /\ respLen' = 0
  /\ answer' = NothingSaid(0, TRUE)
  /\ FetchReturns /\ UNCHANGED respBuf

\* The newline before the code, when one of at most CodeRoom - 1 bytes
\* follows the last newline of what was read.
Newlines(out) == {k \in DOMAIN out : out[k] = "nl"}
IsSeparator(out, k) ==
  /\ k \in Newlines(out) /\ \A j \in Newlines(out) : j <= k
  /\ Len(out) - k \in 1 .. CodeRoom - 1

\* Where the digits that follow position k end.
IsEndOfDigits(out, k, e) ==
  /\ \A i \in k + 1 .. e : out[i] \in Digit
  /\ e < Len(out) => out[e + 1] \notin Digit

Number(digits) ==
  LET upTo[n \in 0 .. Len(digits)] ==
        IF n = 0 THEN 0 ELSE 10 * upTo[n - 1] + Value[digits[n]]
  IN  upTo[Len(digits)]

\* atoi of the bytes after position k.
Atoi(out, k) ==
  Number(SubSeq(out, k + 1, CHOOSE e \in k .. Len(out) : IsEndOfDigits(out, k, e)))

\* Mutated: the separator is counted as part of the body.
ParseKeepsNewline(out) ==
  IF \E k \in DOMAIN out : IsSeparator(out, k)
    THEN LET k == CHOOSE k \in DOMAIN out : IsSeparator(out, k)
         IN  [len |-> k, code |-> Atoi(out, k)]
    ELSE [len |-> Len(out), code |-> 200]

\* Mutated: the first newline is taken.
ParseFirst(out) ==
  IF Newlines(out) # {}
    THEN LET k == CHOOSE k \in Newlines(out) : \A j \in Newlines(out) : k <= j
         IN  [len |-> k - 1, code |-> Atoi(out, k)]
    ELSE [len |-> Len(out), code |-> 200]

\* The body and the code in what was read.
Parse(out) ==
  IF \E k \in DOMAIN out : IsSeparator(out, k)
    THEN LET k == CHOOSE k \in DOMAIN out : IsSeparator(out, k)
         IN  [len |-> k - 1, code |-> Atoi(out, k)]
    ELSE [len |-> Len(out), code |-> 200]

\* Mutated: a read does not stop at its limit.
PrefixUnbounded(s, n) == s

\* fread of at most n bytes.
Prefix(s, n) == SubSeq(s, 1, Low(n, Len(s)))

\* curl was asked for the body, a newline and the code.
CurlOutput(body, code) == body \o <<"nl">> \o code
Fits(out) == Len(out) <= RespMax - CodeRoom

\* The device reads what curl writes, as far as there is room, and finds the
\* code at its end.
FetchReads(out) ==
  /\ respBuf' = Prefix(out, RespMax - CodeRoom)
  /\ LET found == Parse(respBuf')
     IN  respLen' = found.len /\ respCode' = found.code
  /\ status' = "done"
  /\ FetchReturns

CurlAnswers(body, code) ==
  LET out == CurlOutput(body, code) IN
  /\ pc = "fetch" /\ UrlAccepted
  /\ FetchReads(out)
  /\ answer' = [bytes |-> body, output |-> out, code |-> Atoi(code, 0),
                whole |-> Fits(out), coded |-> Fits(out), read |-> TRUE]

\* curl or popen's shell dies after n bytes of its output; when curl is not
\* installed, before the first.
CurlBreaksOff(body, code, n) ==
  LET out == Prefix(CurlOutput(body, code), n) IN
  /\ pc = "fetch" /\ UrlAccepted
  /\ FetchReads(out)
  /\ answer' = [bytes |-> body, output |-> out, code |-> 0,
                whole |-> FALSE, coded |-> FALSE, read |-> TRUE]

-----------------------------------------------------------------------------
(* Compile.                                                                *)

CompileOnly == UNCHANGED <<registers, request, armed>>

\* A return with nothing for the guest; the files in kept are not unlinked.
CompileGivesUp(kept) ==
  /\ status' = "error" /\ respCode' = 1 /\ respLen' = 0
  /\ tmp' = {} /\ left' = kept
  /\ answer' = NothingSaid(1, TRUE)
  /\ pc' = "ready"
  /\ CompileOnly /\ UNCHANGED respBuf

CmdCompile ==
  /\ Ready
  /\ status' = "busy"
  /\ pc' = "source"
  /\ CompileOnly /\ UNCHANGED <<respLen, respCode, respBuf, files, answer>>

NoSource == pc = "source" /\ CompileGivesUp({})

MakeSource ==
  /\ pc = "source"
  /\ tmp' = {"c"}
  /\ pc' = "write"
  /\ CompileOnly /\ UNCHANGED <<response, left, answer>>

\* The return on a short write does not unlink the source.
ShortWrite == pc = "write" /\ CompileGivesUp(tmp)

WriteSource ==
  /\ pc = "write"
  /\ pc' = "outputs"
  /\ CompileOnly /\ UNCHANGED <<response, files, answer>>

\* Of two files of which one cannot be made the other stays behind.
NoOutputs(made) == pc = "outputs" /\ made # {"elf", "err"} /\ CompileGivesUp(made)

MakeOutputs ==
  /\ pc = "outputs"
  /\ tmp' = TempFile
  /\ pc' = "gcc"
  /\ CompileOnly /\ UNCHANGED <<response, left, answer>>

\* The compiler ends and its result is stored; the files are still there.
CompileEnds(st, code, bytes) ==
  /\ pc = "gcc"
  /\ status' = st /\ respCode' = code
  /\ respBuf' = bytes /\ respLen' = Len(bytes)
  /\ pc' = "clean"
  /\ CompileOnly /\ UNCHANGED files

GccFails(msg) ==
  /\ CompileEnds("error", 1, Prefix(msg, RespMax - 1))
  /\ answer' = [bytes |-> msg, output |-> msg, code |-> 1,
                whole |-> Len(msg) < RespMax, coded |-> TRUE, read |-> TRUE]

GccSucceeds(elf) ==
  /\ CompileEnds("done", 0, Prefix(elf, RespMax))
  /\ answer' = [bytes |-> elf, output |-> elf, code |-> 0,
                whole |-> Len(elf) <= RespMax, coded |-> TRUE, read |-> TRUE]

\* Mutated: the path that finds no executable sets no status.
NoElfNoStatus ==
  /\ pc = "gcc"
  /\ respCode' = 1 /\ respLen' = 0
  /\ answer' = NothingSaid(1, TRUE)
  /\ pc' = "clean"
  /\ CompileOnly /\ UNCHANGED <<status, respBuf, files>>

\* The executable cannot be opened.
NoElf ==
  /\ pc = "gcc"
  /\ status' = "error" /\ respCode' = 1 /\ respLen' = 0
  /\ answer' = NothingSaid(1, TRUE)
  /\ pc' = "clean"
  /\ CompileOnly /\ UNCHANGED <<respBuf, files>>

\* The file of messages cannot be opened: RESP_LEN and the buffer stay as the
\* command before left them.
NoMessages ==
  /\ pc = "gcc"
  /\ status' = "error" /\ respCode' = 1
  /\ answer' = NothingSaid(1, FALSE)
  /\ pc' = "clean"
  /\ CompileOnly /\ UNCHANGED <<respBuf, respLen, files>>

\* Mutated: the file of messages is forgotten.
CleanTwo ==
  /\ pc = "clean"
  /\ tmp' = {} /\ left' = {"err"}
  /\ pc' = "ready"
  /\ CompileOnly /\ UNCHANGED <<response, answer>>

Clean ==
  /\ pc = "clean"
  /\ tmp' = {} /\ left' = {}
  /\ pc' = "ready"
  /\ CompileOnly /\ UNCHANGED <<response, answer>>

-----------------------------------------------------------------------------
\* QEMU is killed, in a command or between two, and started again.  The files
\* of the command stay on the disk for good, but are no matter of the new QEMU,
\* which neither knows nor removes them.
Restart ==
  /\ Cleared
  /\ pc' = "ready" /\ request' = NoRequest
  /\ tmp' = {} /\ left' = {}

Fetch ==
  \/ CmdFetch
  \/ FetchFails
  \/ \E body \in Bodies, code \in Codes :
       \/ CurlAnswers(body, code)
       \/ \E n \in 0 .. Len(CurlOutput(body, code)) - 1 : CurlBreaksOff(body, code, n)

Compile ==
  \/ CmdCompile \/ NoSource \/ MakeSource \/ ShortWrite \/ WriteSource
  \/ \E made \in SUBSET {"elf", "err"} : NoOutputs(made)
  \/ MakeOutputs
  \/ \E msg \in Messages : GccFails(msg)
  \/ \E elf \in Programs : GccSucceeds(elf)
  \/ NoElf \/ NoMessages \/ Clean

Next ==
  \/ \E i \in Cell, data \in Data : WriteData(i, data)
  \/ \E n \in 0 .. UrlMax + 1 : WriteUrlLen(n)
  \/ \E val \in 0 .. 3 : WriteAuth(val)
  \/ CmdReset
  \/ Fetch
  \/ Compile
  \/ Restart

Spec == Init /\ [][Next]_vars

-----------------------------------------------------------------------------
(* Properties.                                                             *)

\* Every path through both commands ends them with a status: the guest, which
\* polls STATUS after its write to CMD, never finds the device busy.
NeverSeenBusy == Ready => status # "busy"

Reply == SubSeq(respBuf, 1, respLen)

\* What the guest reads is what the host made for its last command, never the
\* rest of an answer before: the whole of the body, the executable or the
\* messages where there was room, and no byte of curl's own; a part from its
\* beginning where there was not, or where curl broke off; nothing after an
\* error.  Excepted are messages that cannot be opened.
ReplyIsTheCommands ==
  Ready /\ answer.read =>
    /\ Reply = Prefix(answer.output, respLen)
    /\ answer.whole => Reply = answer.bytes

\* RESP_CODE is the server's code if all of it was read, or tells whether the
\* compiler failed, also where its messages cannot be opened.
CodeIsTheCommands == Ready /\ answer.coded => respCode = answer.code

\* A token is passed on only by the first fetch after AUTH_MODE was set, also
\* when fetches that failed, compilations and resets came between.
TokenOncePerArming == request.token # <<>> => armed

\* A token that is passed on has only the characters a token may have and
\* leaves none of them in the URL: the URL is all that follows the first
\* newline of the buffer.
RequestSplitsBuffer ==
  request.token # <<>> =>
    /\ \A k \in DOMAIN request.token : request.token[k] = "tok"
    /\ Len(request.token) <= TokenMax
    /\ \E n \in Cell : IsFirstNewline(n) /\ request.url = Bytes(n + 1, urlLen)

\* A command that tells the guest of success, or has something to read, left no
\* temporary file; one that failed left at most one, whichever of its files could
\* not be made or written.
LeftBehind ==
  Ready /\ left # {} =>
    /\ status \in {"error", "idle"} /\ respLen = 0
    /\ Cardinality(left) <= 1
=============================================================================
