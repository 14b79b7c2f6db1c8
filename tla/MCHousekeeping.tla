--------------------------- MODULE MCHousekeeping ---------------------------
(***************************************************************************)
(* Housekeeping for TLC: three table entries, two combined packets, two    *)
(* cameras; a stale threshold of 2 and a miss limit of 3 in place of 5 and *)
(* 255.                                                                    *)
(***************************************************************************)
EXTENDS Housekeeping

CONSTANTS PKT1, PKT2, reserved, cam1, cam2, b1, b2

MCInputSize == [a \in Apps |-> IF a = "POWERMC" THEN 3 ELSE 2]

E(in, at, out, to, n) == [in |-> in, at |-> at, out |-> out, to |-> to, n |-> n]
Unused == E(reserved, 0, reserved, 0, 0)

\* The delivered table, cut to two applications and to one.
Pair(a, b) == CopyTable(<<a, b>>, PKT1)
Single(a)  == CopyTable(<<a>>, PKT1)

\* An input that goes into two packets, one of them with a gap.
Shared == <<E("POWERMC", 1, PKT1, 1, 2), E("MPPTMC", 1, PKT2, 3, 1), E("POWERMC", 2, PKT2, 1, 1)>>
\* An input without a packet.
NoPacket == <<E("MPPTMC", 1, PKT1, 1, 1), E("POWERMC", 1, reserved, 0, 1), Unused>>
\* A packet too large for the pool, and an entry that reads past its input's end.
TooLarge == <<E("POWERMC", 1, PKT2, 9, 1), E("MPPTMC", 2, PKT1, 1, 1), E("MPPTMC", 1, PKT1, 2, 1)>>
\* More bytes than a combined packet may have.
TooMany == <<E("POWERMC", 0, PKT1, 0, 3), E("MPPTMC", 0, PKT1, 3, 2), E("POWERMC", 0, PKT1, 5, 1)>>
\* A place in a packet without an input; and an entry of no bytes without a packet.
NoInput == <<E(reserved, 0, PKT1, 4, 1), E("MPPTMC", 1, PKT1, 1, 1), E("POWERMC", 1, reserved, 0, 0)>>

\* No entry in use.
Empty      == <<Unused, Unused, Unused>>

MCFirstTables == {Pair("POWERMC", "MPPTMC"), Empty} \cup {Single(a) : a \in Apps}
MCTables == {Shared, NoPacket, TooLarge, TooMany, NoInput}

Nothing == [awake |-> {}, others |-> {}, table |-> Empty, loads |-> {},
            troubles |-> 0, commands |-> 0, quiet |-> {}, pings |-> {}, shots |-> 0,
            outcomes |-> {}, mishaps |-> 0, files |-> {}]

Cams(x, y) == [c \in Cameras |-> IF c = cam1 THEN x ELSE y]

\* One application and its board.
Cycle(a) == [Nothing EXCEPT !.awake = {a}, !.table = Single(a), !.quiet = {HkRequest[a].to},
                            !.pings = {HkRequest[a].to} \cap {"MPPT", "PAYLOAD"}]
\* With a command for HK, and the table services failing.
Commanded(a) == [Cycle(a) EXCEPT !.commands = 1, !.troubles = 1, !.quiet = {}]
\* COMMMC beginning with its file.
Starting == [Nothing EXCEPT !.awake = {"COMMMC"}, !.table = Single("COMMMC"), !.files = FileSizes]
\* Beside another.
Two(a, b) == [Nothing EXCEPT !.awake = {a}, !.others = {b}, !.table = Pair(a, b)]
\* Two tables, one after the other, and one failure of the pool, the bus or the
\* table services.
Loads(t, u) == [Nothing EXCEPT !.others = {"POWERMC", "MPPTMC"}, !.loads = {t, u},
                               !.table = Pair("POWERMC", "MPPTMC"), !.troubles = 1]
\* PAYLOADMC held up by captures.
Held == [Nothing EXCEPT !.awake = {"PAYLOADMC"}, !.shots = 2, !.quiet = {"PAYLOAD"},
                        !.outcomes = {Cams("REFUSED", "REFUSED")}]
\* Two captures with one camera, and a mishap of DS; one capture and two mishaps;
\* one capture with two cameras.
Photos == [Nothing EXCEPT !.shots = 3, !.mishaps = 1,
                          !.outcomes = {Cams("DONE", "REFUSED"), Cams("NO_ANSWER", "REFUSED")}]
Mishaps == [Nothing EXCEPT !.shots = 2, !.mishaps = 2, !.outcomes = {Cams("DONE", "REFUSED")}]
TwoCameras == [Nothing EXCEPT !.shots = 2, !.outcomes = {Cams("DONE", "NO_ANSWER")}]

MCScenarios ==
  {Cycle(a) : a \in Apps} \cup
    {Commanded("POWERMC"), Starting, Two("POWERMC", "MPPTMC"), Held, Photos, Mishaps, TwoCameras,
     Loads(Shared, NoPacket), Loads(TooLarge, TooMany), Loads(NoInput, NoInput)}

=============================================================================
