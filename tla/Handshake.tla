----------------------------- MODULE Handshake -----------------------------
(***************************************************************************)
(* The line a child process announces its socket with, and the parent that *)
(* reads it (angzarr_client/child.py handshake_line, escaped,              *)
(* parse_handshake, resolve_socket_path).  A text is the sequence of its   *)
(* pieces: the protocol's own words, the characters the line is cut at,    *)
(* and any other; Bad is a byte that is not UTF-8.                         *)
(*                                                                         *)
(* What the launcher prints (uv, a shell) comes before the child's line in *)
(* the same pipe.  How the parent cuts the pipe into lines is external: up *)
(* to and with the first LF.                                               *)
(***************************************************************************)
EXTENDS Naturals, SequencesExt

CONSTANTS
  Piece,       \* the pieces of a text
  Path,        \* the absolute paths a child may be given
  Noise,       \* lines the launcher prints
  MaxNoise     \* bound: lines of noise

SP == " "
LF == "\n"
CR == "\r"
Bad == "\\xff"
Prefix == "angzarr-handshake"
ProtocolVersion == "v1"
Unix == "unix:"

ASSUME PieceAssumption ==
  {SP, LF, CR, Bad, Prefix, ProtocolVersion, Unix, "/"} \subseteq Piece

\* A path is absolute.
ASSUME PathAssumption ==
  Path \subseteq Seq(Piece) /\ \A p \in Path : p # <<>> /\ p[1] = "/"

VARIABLES
  child,     \* "new", "bound", "refused" or "announced"
  path,      \* its socket path
  pipe,      \* what was written and not read yet
  noise,     \* how many lines of noise were written
  parent     \* what the parent has: [state, text]

lineVars == <<child, path, pipe, noise, parent>>

At(state, text) == [state |-> state, text |-> text]

LineInit ==
  /\ child = "new" /\ path = <<>> /\ pipe = <<>> /\ noise = 0
  /\ parent = At("reading", <<>>)
----------------------------------------------------------------------------
\* str.removesuffix and str.partition, for one character.
RemoveSuffix(text, c) ==
  IF text # <<>> /\ Last(text) = c THEN Front(text) ELSE text

Cut(text, c) == SelectInSeq(text, LAMBDA x : x = c)
Before(text, c) ==
  IF Contains(text, c) THEN SubSeq(text, 1, Cut(text, c) - 1) ELSE text
After(text, c) ==
  IF Contains(text, c) THEN SubSeq(text, Cut(text, c) + 1, Len(text)) ELSE <<>>

HandshakeLine(address) == <<Prefix, SP, ProtocolVersion, SP>> \o address \o <<LF>>

\* Mutant: all white space at the line's end is taken for its ending.
BodyStripped(line) ==
  SubSeq(line, 1, SelectLastInSeq(line, LAMBDA x : x \notin {SP, CR, LF}))

\* The line without its line ending.
Body(line) == RemoveSuffix(RemoveSuffix(line, LF), CR)

\* A line of the launcher's is cut at its LF and is no handshake.
ASSUME NoiseAssumption ==
  /\ Noise \subseteq Seq(Piece)
  /\ \A l \in Noise : /\ ~Contains(l, LF)
                      /\ Before(Body(l \o <<LF>>), SP) # <<Prefix>>

Decodes(text) == ~Contains(text, Bad)

IsAddress(text) ==
  /\ Len(text) > 1 /\ text[1] = Unix /\ text[2] = "/"
  /\ ~Contains(text, LF)

\* parse_handshake of the bytes read: not a handshake, an address, or refused
\* under HOST_REASON_HANDSHAKE_MALFORMED.
Parse(line) ==
  LET body == Body(line)
      rest == After(body, SP)
  IN  IF Before(body, SP) # <<Prefix>> THEN At("reading", <<>>)
      ELSE IF /\ Decodes(body) /\ Before(rest, SP) = <<ProtocolVersion>>
              /\ IsAddress(After(rest, SP)) THEN At("connected", After(rest, SP))
      ELSE At("malformed", body)
----------------------------------------------------------------------------
LauncherPrints ==
  /\ child = "new" /\ noise < MaxNoise
  /\ \E line \in Noise : pipe' = pipe \o line \o <<LF>>
  /\ noise' = noise + 1
  /\ UNCHANGED <<child, path, parent>>

\* run_child: a path that is not UTF-8 is refused before anything is bound.
ChildBegins ==
  /\ child = "new"
  /\ path' \in Path
  /\ child' = IF Decodes(path') THEN "bound" ELSE "refused"
  /\ UNCHANGED <<pipe, noise, parent>>

\* Once SERVING, the one line.
ChildAnnounces ==
  /\ child = "bound"
  /\ child' = "announced"
  /\ pipe' = pipe \o HandshakeLine(<<Unix>> \o path)
  /\ UNCHANGED <<path, noise, parent>>

ParentReads ==
  /\ parent.state = "reading" /\ Contains(pipe, LF)
  /\ parent' = Parse(SubSeq(pipe, 1, Cut(pipe, LF)))
  /\ pipe' = After(pipe, LF)
  /\ UNCHANGED <<child, path, noise>>

LineDone ==
  /\ child \in {"refused", "announced"}
  /\ parent.state = "reading" => ~Contains(pipe, LF)
  /\ UNCHANGED lineVars

LineNext == LauncherPrints \/ ChildBegins \/ ChildAnnounces \/ ParentReads \/ LineDone

LineSpec == LineInit /\ [][LineNext]_lineVars
----------------------------------------------------------------------------
\* A path the line can carry: no line break in it, and no CR at its end,
\* which run_child does not refuse.
Announceable == path # <<>> => ~Contains(path, LF) /\ Last(path) # CR

\* Through whatever was printed before it, the parent ends up at the socket
\* the child bound: other lines are skipped and never refused, spaces and
\* undecodable bytes in them included; the child's is neither skipped nor
\* cut short; and no parent is sent to a socket nobody bound.
AnnouncedSocketIsRead ==
  Announceable =>
    /\ parent.state # "malformed"
    /\ parent.state = "connected" =>
         child = "announced" /\ parent.text = <<Unix>> \o path
    /\ (child = "announced" /\ pipe = <<>>) => parent.state = "connected"
=============================================================================
