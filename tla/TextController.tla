--------------------------- MODULE TextController ---------------------------
(***************************************************************************)
(* text_socket_controller_impl_t: lines of text, "size [word [word]]" and  *)
(* a body of that size, or one HTTP request, by the first character read.  *)
(*                                                                         *)
(* Characters are digits, "G", "x", " ", "CR" and "LF".                  *)
(* A step is one turn of the loop of parse_text_protocol; "buff" is the    *)
(* whole chunk, as the code's pointer arithmetic refers to its start, and  *)
(* "begin" how much of it is consumed (buff_begin).                        *)
(***************************************************************************)
EXTENDS Naturals, Sequences, SequencesExt

CONSTANTS Requests,     \* text requests: records of head (characters) and body
          Paths,        \* HTTP requests: the path, a sequence of characters
          MaxRequests,  \* bound: requests sent on a connection
          Stale         \* what may lie in memory behind a chunk

VARIABLES m_protocol, m_head_end_flag, m_body_size, m_head,
          m_body,    \* the body of m_message
          stream,    \* characters sent and not read
          buff, begin, reading, \* the chunk handle_read is at
          writing,   \* replies given to the socket and not sent
          replies,   \* replies of the handler so far
          closed,    \* the controller has closed the socket
          sent,      \* history: the requests sent
          delivered, \* history: the bodies handle_msg was called with
          errors,    \* history: how often "ERROR" was sent
          frail      \* history: a chunk ended within an end of line

parser  == <<m_protocol, m_head_end_flag, m_body_size, m_head, m_body>>
history == <<sent, frail>>
vars    == <<parser, stream, buff, begin, reading, writing, replies, closed, delivered, errors, history>>

Init == /\ m_protocol = "UNKNOWN" /\ m_head_end_flag = FALSE /\ m_body_size = 0
        /\ m_head = <<>> /\ m_body = <<>>
        /\ stream = <<>> /\ buff = <<>> /\ begin = 0 /\ reading = FALSE
        /\ writing = 0 /\ replies = 0 /\ closed = FALSE
        /\ sent = <<>> /\ delivered = <<>> /\ errors = 0 /\ frail = FALSE

-----------------------------------------------------------------------------
(* The peer sends text requests, or one HTTP request.                      *)
Line(s) == s \o <<"CR", "LF">>

Chars(s, line) == [i \in DOMAIN s |-> [char |-> s[i], frail |-> i = line]]

Sends(request, s, line) == /\ Len(sent) < MaxRequests
                           /\ sent' = Append(sent, request)
                           /\ stream' = stream \o Chars(s, line)
                           /\ UNCHANGED <<parser, buff, begin, reading, writing, replies, closed,
                                          delivered, errors, frail>>

send_text(r) == /\ \A i \in DOMAIN sent : sent[i] \in Requests
                /\ Sends(r, Line(r.head) \o r.body, Len(r.head) + 1)

send_http(path) == /\ sent = <<>>
                   /\ Sends([path |-> path], Line(<<"G", " ">> \o path \o <<" ", "x">>) \o Line(<<"x">>),
                            Len(path) + 5)

-----------------------------------------------------------------------------
(* Mutant: by the first character of every chunk.                          *)
ProtocolEachTime(first) == IF first = "G" THEN "HTTP" ELSE "TXT"

(* analyze_protocol (m_head is empty when it is called the first time).    *)
ProtocolOf(first) == IF m_protocol # "UNKNOWN" THEN m_protocol
                     ELSE IF first = "G" THEN "HTTP" ELSE "TXT"

(* handle_read is called with n characters.                                *)
chunk(n) == /\ ~reading
            /\ buff' = [i \in 1..n |-> stream[i].char]
            /\ m_protocol' = ProtocolOf(stream[1].char)
            /\ begin' = 0 /\ reading' = TRUE
            /\ stream' = SubSeq(stream, n + 1, Len(stream))
            /\ frail' = (frail \/ stream[n].frail)
            /\ UNCHANGED <<m_head_end_flag, m_body_size, m_head, m_body, writing, replies, closed, sent,
                           delivered, errors>>

Rest == SubSeq(buff, begin + 1, Len(buff))

(* strstr for the end of the line: 0 if there is none in the chunk.        *)
EndOfLine == LET ends == {i \in 1..(Len(Rest) - 1) : Rest[i] = "CR" /\ Rest[i + 1] = "LF"}
             IN IF ends = {} THEN 0 ELSE Min(ends)

(* strtool::split at spaces: where the words begin.                        *)
WordsIn(s) == {i \in DOMAIN s : s[i] # " " /\ (i = 1 \/ s[i - 1] = " ")}

Digits == <<"1", "2", "3", "4", "5", "6", "7", "8", "9">>

Value(c) == IF c = "0" THEN 0 ELSE CHOOSE i \in 1..9 : Digits[i] = c

(* atoi, which reads digits as far as there are any.                       *)
Atoi(s, first) ==
  LET digits == {i \in first..Len(s) : \A j \in first..i : s[j] = "0" \/ s[j] \in Range(Digits)}
  IN FoldFunctionOnSet(+, 0, [i \in digits |-> Value(s[i]) * 10^(Max(digits) - i)], digits)

-----------------------------------------------------------------------------
TurnEnds == reading' = FALSE /\ UNCHANGED begin

(* No end of line: the rest of the chunk belongs to the head.              *)
head_goes_on == /\ reading /\ ~m_head_end_flag /\ EndOfLine = 0
                /\ m_head' = m_head \o Rest
                /\ TurnEnds
                /\ UNCHANGED <<m_protocol, m_head_end_flag, m_body_size, m_body, stream, buff,
                               writing, replies, closed, delivered, errors, history>>

(* What is appended to m_head: as many characters from buff_begin as lie   *)
(* between the start of the chunk and the end of the line.  In the first   *)
(* line of a chunk this is the line, in others it goes beyond it, and      *)
(* possibly beyond the chunk, where anything may lie.                      *)
HeadsNow == LET n == begin + EndOfLine - 1
            IN IF n <= Len(Rest) THEN {m_head \o SubSeq(Rest, 1, n)}
               ELSE {m_head \o Rest \o s : s \in Stale}

(* Mutant: a line of three words is refused.                               *)
RefusedThree(head) == Cardinality(WordsIn(head)) \notin 1..2

(* parse_msg_head: one to three words, the first of them the size.         *)
Refused(head) == Cardinality(WordsIn(head)) \notin 1..3

SizeIn(head) == Atoi(head, Min(WordsIn(head)))

head_refused == /\ reading /\ m_protocol = "TXT" /\ ~m_head_end_flag /\ EndOfLine > 0
                /\ \E head \in HeadsNow : Refused(head) /\ m_head' = head
                /\ errors' = errors + 1 /\ writing' = writing + 1
                /\ TurnEnds
                /\ UNCHANGED <<m_protocol, m_head_end_flag, m_body_size, m_body, stream, buff,
                               replies, closed, delivered, history>>

(* message_t::append_msg: no more than m_head.size says, which the text    *)
(* protocol never sets.                                                    *)
TextHeadSize == 0

Appended(body, s) == body \o SubSeq(s, 1, Min({TextHeadSize - Len(body), Len(s)}))

(* Mutant: m_head_end_flag is not reset.                                   *)
FlagKept(size) == TRUE

FlagAfter(size) == size > 0

(* append_msg_body on what is left from character "from" of the chunk on,  *)
(* with "size" characters of the body to come.                             *)
append_msg_body(from, size, head) ==
  LET left == Len(buff) - from
      n    == Min({size, left})
      body == Appended(m_body, SubSeq(buff, from + 1, from + n))
  IN /\ m_body_size' = size - n
     /\ m_head_end_flag' = FlagAfter(size - n)
     /\ IF size = n
          THEN delivered' = Append(delivered, body) /\ m_head' = <<>> /\ m_body' = <<>>
          ELSE UNCHANGED delivered /\ m_head' = head /\ m_body' = body
     /\ begin' = from + n
     /\ reading' = (left > n)
     /\ UNCHANGED <<m_protocol, stream, buff, writing, replies, closed, errors, history>>

head_ends == /\ reading /\ m_protocol = "TXT" /\ ~m_head_end_flag /\ EndOfLine > 0
             /\ \E head \in HeadsNow :
                  ~Refused(head) /\ append_msg_body(begin + EndOfLine + 1, SizeIn(head), head)

body_goes_on == /\ reading /\ m_protocol = "TXT" /\ m_head_end_flag
                /\ append_msg_body(begin, m_body_size, m_head)

-----------------------------------------------------------------------------
(* parse_http_protocol: the second word of the first line, once.           *)
SecondWord(s) == LET first == Min(WordsIn(s) \ {Min(WordsIn(s))})
                     spaces == {i \in first..Len(s) : s[i] = " "}
                 IN SubSeq(s, first, IF spaces = {} THEN Len(s) ELSE Min(spaces) - 1)

http_head_ends ==
  /\ reading /\ m_protocol = "HTTP" /\ ~m_head_end_flag /\ EndOfLine > 0
  /\ LET head == m_head \o SubSeq(buff, 1, EndOfLine - 1)
         path == IF Cardinality(WordsIn(head)) > 1 THEN SecondWord(head) ELSE <<>>
     IN /\ m_head' = head /\ m_body' = m_body \o path
        /\ delivered' = Append(delivered, m_body \o path)
  /\ m_head_end_flag' = TRUE
  /\ TurnEnds
  /\ UNCHANGED <<m_protocol, m_body_size, stream, buff, writing, replies, closed, errors, history>>

http_ignored == /\ reading /\ m_protocol = "HTTP" /\ m_head_end_flag
                /\ TurnEnds
                /\ UNCHANGED <<parser, stream, buff, writing, replies, closed, delivered, errors, history>>

-----------------------------------------------------------------------------
(* The handler replies to what it was given, and the reply goes out.       *)
reply == /\ ~closed /\ replies < Len(delivered)
         /\ replies' = replies + 1 /\ writing' = writing + 1
         /\ UNCHANGED <<parser, stream, buff, begin, reading, closed, delivered, errors, history>>

ClosesWhenWritten == m_protocol = "HTTP"

handle_write_completed ==
  /\ ~closed /\ writing > 0 /\ writing' = writing - 1
  /\ closed' = ClosesWhenWritten
  /\ UNCHANGED <<parser, stream, buff, begin, reading, replies, delivered, errors, history>>

Next == \/ \E r \in Requests : send_text(r)
        \/ \E path \in Paths : send_http(path)
        \/ \E n \in 1..Len(stream) : chunk(n)
        \/ head_goes_on \/ head_refused \/ head_ends \/ body_goes_on
        \/ http_head_ends \/ http_ignored
        \/ reply \/ handle_write_completed

Spec == Init /\ [][Next]_vars
-----------------------------------------------------------------------------
AllRead == stream = <<>> /\ ~reading

IsText == \A i \in DOMAIN sent : sent[i] \in Requests

(* The handler is called once for each text request, however the text is   *)
(* cut into chunks, unless a chunk ends between CR and LF or a request was *)
(* refused.  (It is called with an empty body.)                            *)
OneCallPerRequest ==
  IsText /\ ~frail /\ errors = 0 => /\ Len(delivered) <= Len(sent)
                                    /\ AllRead => Len(delivered) = Len(sent)

(* A request in its proper form is only refused if its line is not the     *)
(* first of its chunk, or if one before it was refused.                    *)
FirstLineUnderstood ==
  [][errors' # errors => begin > 0 \/ frail \/ errors > 0]_vars

(* An HTTP request is handed on once, with the path that was asked for,    *)
(* whatever of its lines come together.                                    *)
PathHandled ==
  ~IsText /\ ~frail => /\ delivered \in {<<>>, <<sent[1].path>>}
                       /\ AllRead => delivered # <<>>
=============================================================================
