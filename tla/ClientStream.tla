----------------------------- MODULE ClientStream -----------------------------
(***************************************************************************)
(* One client's bytes: the commands it sends, the 4096-byte reads that cut *)
(* them anywhere, RespParser::parse (resp_parser.hpp) and the loop of      *)
(* run_reactor (main.cpp) that applies it to what was read, parse_ttl      *)
(* (command_handler.hpp), and the replies, of which a send may take only a *)
(* part.  Where a key lives, and what it holds, is the matter of Reactor   *)
(* and ReactorKV: here a command is executed when it is understood, and    *)
(* its reply is told by what was executed.                                 *)
(*                                                                         *)
(* A read may end between two lines of the protocol or inside one.  What   *)
(* the parser tells apart decides what a line is here: whether its CRLF is *)
(* there, and its text, of which the start in one buffer is as good as     *)
(* none and the end in the next counts if it begins with '*'.              *)
(***************************************************************************)
EXTENDS Naturals, Sequences, FiniteSets, SequencesExt

CONSTANTS
  Commands,      \* the commands the client may send: what it means by them
  Number,        \* the texts that from_chars reads, and their values
  Header,        \* "*n": the first line of a command of n arguments
  Star,          \* the texts that begin with '*': the number from_chars finds there, or 0
  Rests,         \* of a text, the ends that begin with '*' and that a cut may leave
  MaxCommands,   \* bound: commands of the client
  BufferSize,    \* the lines that conn->buffer takes
  TtlRange,      \* how many values a uint64_t has
  ShortSends     \* whether a send may take a part of the response only

None == ""       \* no text: what read_line returns without a line
Length == "$"    \* a line with the length of an argument, whatever it is
Part == ".."     \* the start of a line whose CRLF is not there

SetOf(key, val, flag, ttl) ==
  [name |-> "SET", key |-> key, val |-> val, flag |-> flag, ttl |-> ttl]
GetOf(key) == [name |-> "GET", key |-> key]
ExpireOf(key, ttl) == [name |-> "EXPIRE", key |-> key, ttl |-> ttl]
Config(parameter) == [name |-> "CONFIG", parameter |-> parameter]
Ping == [name |-> "PING"]

\* How a client writes a command.  flag is None for a bare TTL, in milliseconds.
Args(c) ==
  CASE c.name = "SET" -> <<"SET", c.key, c.val>>
                           \o (IF c.flag = None THEN <<>> ELSE <<c.flag>>)
                           \o (IF c.ttl = None THEN <<>> ELSE <<c.ttl>>)
    [] c.name = "GET" -> <<"GET", c.key>>
    [] c.name = "EXPIRE" -> <<"EXPIRE", c.key, c.ttl>>
    [] c.name = "CONFIG" -> <<"CONFIG", "GET", c.parameter>>
    [] c.name = "PING" -> <<"PING">>

\* What it means by it: what is executed and answered.
Meaning(c) ==
  CASE c.name = "SET" ->
         [did |-> "SET", key |-> c.key, val |-> c.val,
          ttl |-> IF c.ttl = None THEN 0
                  ELSE IF c.flag \in {"EX", "ex"} THEN 1000 * Number[c.ttl]
                  ELSE Number[c.ttl]]
    [] c.name = "GET" -> [did |-> "GET", key |-> c.key]
    [] OTHER -> [did |-> c.name]

\* The ends of a text that a cut may leave: None stands for those without a '*'.
Remainders(text) == {None} \cup (IF text \in DOMAIN Rests THEN Rests[text] ELSE {})

ASSUME StreamAssumption ==
  /\ MaxCommands \in Nat /\ BufferSize \in Nat \ {0} /\ TtlRange \in Nat \ {0}
  /\ ShortSends \in BOOLEAN
  /\ \A t \in DOMAIN Number : Number[t] \in 0 .. TtlRange - 1
  /\ \A t \in DOMAIN Star : Star[t] \in Nat
  /\ {None, Length, Part} \cap (DOMAIN Star \cup DOMAIN Number) = {}
  \* There is no '*' behind the first byte of a header, and none in a length.
  /\ \A n \in 1 .. 5 : /\ Header[n] \in DOMAIN Star \ DOMAIN Rests
                       /\ Star[Header[n]] = n
  /\ DOMAIN Rests \cap {None, Length, Part} = {}
  \* The end of an end is one.
  /\ \A t \in DOMAIN Rests : /\ Rests[t] \subseteq DOMAIN Star
                             /\ \A u \in Rests[t] : Remainders(u) \subseteq Remainders(t)
  /\ \A c \in Commands : c.name \in {"SET", "GET", "EXPIRE", "CONFIG", "PING"}
  \* A TTL is a number; a flag stands before one.
  /\ \A c \in Commands : c.name = "SET" =>
       \/ c.ttl = None /\ c.flag = None
       \/ c.ttl \in DOMAIN Number /\ c.flag \in {None, "EX", "ex", "PX", "px"}
  \* No TTL of a client overflows: EX 2^55 and more would.
  /\ \A c \in Commands : c.name = "SET" => Meaning(c).ttl < TtlRange

VARIABLES
  sent,              \* the commands of the client
  socket,            \* the lines that were not read yet
  op,                \* what goes on: "read", "parse" (a batch) or "write"
  remaining,         \* of the buffer, what was not parsed yet
  pipeline_results,
  response_data,
  executed,          \* history: what was executed
  received,          \* history: the replies the client got
  cut,               \* history: whether a read ended inside a command
  short              \* history: whether a send ended inside a response

vars == <<sent, socket, op, remaining, pipeline_results, response_data, executed, received,
          cut, short>>

\* The lines of a command: a header with the number of the arguments, then for
\* each a line with its length and the argument.  first is for the history only.
Lines(c) == [j \in 1 .. 1 + 2 * Len(Args(c)) |->
  [first |-> j = 1, ended |-> TRUE,
   text |-> IF j = 1 THEN Header[Len(Args(c))]
            ELSE IF j % 2 = 0 THEN Length ELSE Args(c)[j \div 2]]]

Stream(cs) == FlattenSeq([i \in 1 .. Len(cs) |-> Lines(cs[i])])

Init ==
  /\ sent = <<>> /\ socket = <<>>
  /\ op = "read"
  /\ remaining = <<>> /\ pipeline_results = <<>> /\ response_data = <<>>
  /\ executed = <<>> /\ received = <<>>
  /\ cut = FALSE /\ short = FALSE

-----------------------------------------------------------------------------
\* RespParser::parse

LineCount(b) == Cardinality({j \in DOMAIN b : b[j].ended})

\* read_line, called n times, leaves pos behind line n; when there is no such
\* line it returns no text and leaves pos where it is.
\* Mutant: what was read counts as one command.
BehindAll(b, n) == Len(b)
Behind(b, n) == IF n < LineCount(b) THEN n ELSE LineCount(b)

\* Mutant: as much of a line as there is counts as the line.
TextSoFar(b, n) == IF n <= Len(b) THEN b[n].text ELSE None
Text(b, n) == IF n <= LineCount(b) THEN b[n].text ELSE None

\* The first byte decides, whatever line it belongs to.
StartsWithStar(b) == b # <<>> /\ b[1].text \in DOMAIN Star

NumArgs(b) == Star[b[1].text]

\* The lines consumed (0 for UNKNOWN and INCOMPLETE) and the arguments, the
\* type of the command first: the line with the length of each is skipped.
parse(b) ==
  IF ~StartsWithStar(b) \/ LineCount(b) = 0
  THEN [consumed |-> 0, args |-> <<>>]
  ELSE [consumed |-> Behind(b, 1 + 2 * NumArgs(b)),
        args |-> [i \in 1 .. NumArgs(b) |-> Text(b, 1 + 2 * i)]]

-----------------------------------------------------------------------------
\* The commands

FromChars(text) == IF text \in DOMAIN Number THEN Number[text] ELSE 0

\* Mutant: seconds are taken for milliseconds.
parse_ttl_as_is(args) ==
  CASE Len(args) = 4 -> FromChars(args[4])
    [] Len(args) >= 5 /\ args[4] \in {"EX", "ex", "PX", "px"} -> FromChars(args[5])
    [] OTHER -> 0
parse_ttl(args) ==
  CASE Len(args) = 4 -> FromChars(args[4])
    [] Len(args) >= 5 /\ args[4] \in {"EX", "ex"} -> (FromChars(args[5]) * 1000) % TtlRange
    [] Len(args) >= 5 /\ args[4] \in {"PX", "px"} -> FromChars(args[5])
    [] OTHER -> 0

Type(args) == IF args = <<>> THEN None ELSE args[1]

\* What the loop makes of a command, one of too few arguments included.
Execute(args) ==
  CASE Type(args) = "SET" /\ Len(args) >= 3 ->
         [did |-> "SET", key |-> args[2], val |-> args[3], ttl |-> parse_ttl(args)]
    [] Type(args) = "GET" /\ Len(args) >= 2 -> [did |-> "GET", key |-> args[2]]
    [] Type(args) = "CONFIG" -> [did |-> "CONFIG"]
    [] Type(args) = "EXPIRE" /\ Len(args) >= 3 -> [did |-> "EXPIRE"]
    [] Type(args) = "PING" -> [did |-> "PING"]
    [] OTHER -> [did |-> "ERR_UNKNOWN"]

-----------------------------------------------------------------------------
\* The client sends one more command, whether or not it has its replies.
Send(c) ==
  /\ Len(sent) < MaxCommands
  /\ sent' = Append(sent, c)
  /\ socket' = socket \o Lines(c)
  /\ UNCHANGED <<op, remaining, pipeline_results, response_data, executed, received, cut, short>>

AtBoundary(s) == s = <<>> \/ s[1].first

\* The kernel is told the size of the buffer.  Mutant: it is not.
ReadsAny(k) == TRUE
Reads(k) == k <= BufferSize

\* A read completes with these lines and leaves the rest.
Received(lines, rest) ==
  /\ op = "read"
  /\ op' = "parse"
  /\ remaining' = lines
  /\ socket' = rest
  /\ cut' = (cut \/ ~AtBoundary(rest))
  /\ response_data' = <<>>
  /\ pipeline_results' = <<>>
  /\ UNCHANGED <<sent, executed, received, short>>

\* What has come so far or a part of it, up to the end of a line ...
Read(k) ==
  /\ Reads(k)
  /\ Received(SubSeq(socket, 1, k), SubSeq(socket, k + 1, Len(socket)))

\* ... or up to some byte of a line, its CRLF included.
StartOf(line) == [first |-> line.first, ended |-> FALSE, text |-> Part]
EndOf(text) == [first |-> FALSE, ended |-> TRUE, text |-> text]

ReadCut(k, text) ==
  /\ Reads(k)
  /\ Received(Append(SubSeq(socket, 1, k - 1), StartOf(socket[k])),
              <<EndOf(text)>> \o SubSeq(socket, k + 1, Len(socket)))

\* Mutant: the results are kept the other way round.
PrependedResult(results, reply) == <<reply>> \o results
AppendedResult(results, reply) == Append(results, reply)

Command ==
  LET p == parse(remaining)
  IN /\ op = "parse" /\ p.consumed > 0
     /\ executed' = Append(executed, Execute(p.args))
     /\ pipeline_results' = AppendedResult(pipeline_results, Execute(p.args))
     /\ remaining' = SubSeq(remaining, p.consumed + 1, Len(remaining))
     /\ UNCHANGED <<sent, socket, op, response_data, received, cut, short>>

\* Nothing (more) that parses: the rest of the buffer is given up, and the
\* results are sent, or the next read is submitted if there are none.
EndBatch ==
  /\ op = "parse" /\ parse(remaining).consumed = 0
  /\ remaining' = <<>>
  /\ op' = IF pipeline_results = <<>> THEN "read" ELSE "write"
  /\ response_data' = pipeline_results
  /\ pipeline_results' = <<>>
  /\ UNCHANGED <<sent, socket, executed, received, cut, short>>

\* A send completes: how much of the response it took is not looked at.
Write(k) ==
  /\ op = "write"
  /\ k = Len(response_data) \/ ShortSends
  /\ received' = received \o SubSeq(response_data, 1, k)
  /\ short' = (short \/ k < Len(response_data))
  /\ op' = "read"
  /\ response_data' = <<>>
  /\ UNCHANGED <<sent, socket, remaining, pipeline_results, executed, cut>>

Server ==
  \/ \E k \in 1 .. Len(socket) :
       Read(k) \/ \E text \in Remainders(socket[k].text) : ReadCut(k, text)
  \/ Command \/ EndBatch
  \/ \E k \in 1 .. Len(response_data) : Write(k)

Next == Server \/ \E c \in Commands : Send(c)

Spec == Init /\ [][Next]_vars

\* The kernel completes reads and sends, and the reactor runs.
FairSpec == Spec /\ WF_vars(Server)

-----------------------------------------------------------------------------
Texts == {None, Length} \cup {Header[n] : n \in 1 .. 5} \cup UNION {ToSet(Args(c)) : c \in Commands}

Effect ==
  [did : {"SET"}, key : Texts, val : Texts, ttl : 0 .. TtlRange - 1]
  \cup [did : {"GET"}, key : Texts]
  \cup [did : {"CONFIG", "EXPIRE", "PING", "ERR_UNKNOWN"}]

\* Type correctness of the connection (struct Connection) and the histories.
TypeOK ==
  /\ sent \in Seq(Commands)
  /\ op \in {"read", "parse", "write"}
  /\ Len(remaining) <= BufferSize
  /\ {pipeline_results, response_data, executed, received} \subseteq Seq(Effect)
  /\ {cut, short} \subseteq BOOLEAN

\* As long as every read ends between two commands, however many it holds, the
\* reactor executes what the client meant, nothing else, and nothing is lost:
\* what was not executed is still on the way (parse, the loop of run_reactor
\* and parse_ttl together, against the way a client writes its commands).
FramedExact ==
  ~cut => /\ Len(executed) <= Len(sent)
          /\ \A i \in DOMAIN executed : executed[i] = Meaning(sent[i])
          /\ remaining \o socket = Stream(SubSeq(sent, Len(executed) + 1, Len(sent)))

\* The texts of every second line of s behind line h, as many as n, of which
\* those behind line m are missing.
Excerpt(s, h, n, m) == [i \in 1 .. n |-> IF h + 2 * i <= m THEN s[h + 2 * i].text ELSE None]

\* Wherever the reads cut the stream, a command that is executed stands in it:
\* its arguments are whole lines of the client behind one that begins, or has
\* an end that begins, with '*' and their number, in their order and at their
\* distance, up to some line, and blank from there on.  So an argument may be
\* taken for a header, but no part of a line for the whole of one, and nothing
\* that a read has left out is skipped (parse; the test for '*' at its start).
Excerpts ==
  LET s == Stream(sent)
  IN  \A x \in ToSet(executed) : \E h \in DOMAIN s : \E m \in h .. Len(s) :
        \E t \in ({s[h].text} \cup Remainders(s[h].text)) \cap DOMAIN Star :
          x = Execute(Excerpt(s, h, Star[t], m))

\* The effects of a command that is cut behind its first n arguments.
Blanked(c, n) == [i \in DOMAIN Args(c) |-> IF i <= n THEN Args(c)[i] ELSE None]
Effects(c) == {Execute(Blanked(c, n)) : n \in 0 .. Len(Args(c))}

\* A read that starts in it takes it for a header of some arguments.
Deceives(text) == \E t \in {text} \cup Remainders(text) : t \in DOMAIN Star /\ Star[t] > 0

\* Unless an argument looks like a header, where a read may end decides only
\* how many of the last arguments of a command are missing: no argument is ever
\* taken for another (parse).
OnlyBlanks ==
  (\A c \in ToSet(sent) : \A i \in DOMAIN Args(c) : ~Deceives(Args(c)[i]))
    => ToSet(executed) \subseteq UNION {Effects(c) : c \in ToSet(sent)}

\* The start of a command whose last lines are missing is left for when they
\* have come (test_main_integration.cpp:197-203).
IncompleteIsNotConsumed ==
  op = "parse" /\ StartsWithStar(remaining) /\ remaining[1].first
    /\ LineCount(remaining) < 1 + 2 * NumArgs(remaining)
  => parse(remaining).consumed = 0

\* Replies come in the order of the commands, one for each command that was
\* executed, as long as no send ended early (submit_response).
RepliesInOrder ==
  ~short => received \o (IF op = "write" THEN response_data ELSE pipeline_results) = executed

\* A client gets as many replies as it has sent commands, unless a read or a
\* send was cut: then it may wait for ever.
Answered == \A n \in 1 .. MaxCommands :
  Len(sent) = n ~> Len(received) >= n \/ cut \/ short
=============================================================================
