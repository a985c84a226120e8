-------------------------------- MODULE Wire --------------------------------
(***************************************************************************)
(* The OP exchange of one connection (internal/adapter/wire), from the     *)
(* importer's request to the decoded reply and, for an import, to the      *)
(* moment the kernel takes the socket over.  A stream is a sequence of     *)
(* units: header, device count, device descriptor, interface descriptor,   *)
(* busid field, and the URBs the kernels exchange afterwards.  The         *)
(* connection may be cut between two units or inside one.                  *)
(***************************************************************************)
EXTENDS Integers, Sequences, FiniteSets, SequencesExt

CONSTANTS
    FieldSize,     \* domain.BusIDSize
    MaxDevlist,    \* MaxDevlistDevices
    DeviceLists,   \* what the exporter may have to offer
    MaxUrbs        \* bound: URBs sent after the handover

(* An exporter may have nothing to offer, and has fewer devices than any cap is about       *)
(* (devlist.go:26); no device is what a bad speed is written as.                           *)
ASSUME WireAssumption ==
    /\ FieldSize \in Nat \ {0, 1}
    /\ MaxDevlist \in Nat /\ MaxUrbs \in Nat
    /\ << >> \in DeviceLists
    /\ \A ds \in DeviceLists :
          /\ Len(ds) \in 0..MaxDevlist /\ ds = [i \in 1..Len(ds) |-> ds[i]]
          /\ \A i \in DOMAIN ds : ds[i].id # "badspeed" /\ ds[i].num \in Nat

(* Byte classes of a padded string field: NUL, a busid rune, another printable, the rest.  *)
Bytes == {"nul", "id", "sp", "ctl"}

(* A unit: its type, a number (status, count, NumInterfaces) and a name.                   *)
Unit(t, n, v) == [t |-> t, n |-> n, v |-> v]
Part == Unit("part", 0, "none")

VARIABLES
    wiOp,       \* "devlist" or "import"
    wiSentBusID,\* the busid asked for, as a string of byte classes
    wiField,    \* the busid field on the wire
    wiOurs,     \* the client is this program
    wiFault,    \* what a foreign exporter gets wrong, "none" for this program's
    wiDevices,  \* the exporter's devices
    wiReason,   \* how the exporter decides an import
    wiUp,       \* request units not yet read
    wiUpEnd,    \* the client's side is closed
    wiExp,      \* where the exporter's handler stands
    wiReply,    \* reply units not yet written
    wiDown,     \* units written towards the importer
    wiDownEnd,  \* the exporter's side is closed
    wiCut,      \* the connection was cut
    wiRead,     \* units the decoder has consumed
    wiFetched,  \* units taken out of the socket (bufio reads ahead)
    wiImp,      \* where the importer's decoder stands
    wiCount,    \* devices announced
    wiGot,      \* devices decoded
    wiBusID     \* the busid the exporter accepted

wiPeer    == <<wiOp, wiSentBusID, wiField, wiOurs, wiFault, wiDevices, wiReason>>
wiExpVars == <<wiUp, wiExp, wiReply, wiDown, wiDownEnd, wiBusID>>
wiImpVars == <<wiRead, wiFetched, wiImp, wiCount, wiGot>>
wiVars    == <<wiPeer, wiExpVars, wiImpVars, wiUpEnd, wiCut>>

-----------------------------------------------------------------------------
(* Padded strings *)

Printable(b) == b \in {"id", "sp"}

(* WritePaddedString: room for one NUL at least.                                           *)
Fits(s) == Len(s) < FieldSize
Padded(s) == [i \in 1..FieldSize |-> IF i <= Len(s) THEN s[i] ELSE "nul"]

(* The first byte outside the printable range, if there is one.                            *)
Stops(buf) == {i \in DOMAIN buf : ~Printable(buf[i])}
Stop(buf)  == CHOOSE i \in Stops(buf) : \A j \in Stops(buf) : i <= j

(* paddedStringFromBytes: the string, and whether the field was malformed.                 *)
PaddedStringFromBytes(buf) ==
    IF Stops(buf) = {}
    THEN [s |-> buf, truncated |-> TRUE]
    ELSE [s |-> SubSeq(buf, 1, Stop(buf) - 1), truncated |-> buf[Stop(buf)] # "nul"]

(* ValidateWireBusID.                                                                      *)
ValidWireBusID(s) == s # << >> /\ Fits(s) /\ \A i \in DOMAIN s : s[i] = "id"

(* DecodeOpReqImportBody.                                                                  *)
BusIDAccepted(field) ==
    LET p == PaddedStringFromBytes(field) IN ~p.truncated /\ ValidWireBusID(p.s)

-----------------------------------------------------------------------------
(* Encoders *)

(* EncodeDevice and encodeInterfaces: NumInterfaces wins over the interfaces held.         *)
DeviceUnits(d) ==
    <<Unit("dev", d.num, d.id)>>
    \o [i \in 1..d.num |-> Unit("intf", 0, IF i <= Len(d.ifs) THEN d.ifs[i] ELSE "zero")]

(* A path or busid too long for its field fails the encoder where it stands.               *)
Encodable(ds) == \A i \in DOMAIN ds : ~ds[i].long
EncodedPrefix(ds) == IF Encodable(ds) THEN ds
                     ELSE SubSeq(ds, 1, (CHOOSE i \in DOMAIN ds :
                                           ds[i].long /\ \A j \in 1..i - 1 : ~ds[j].long) - 1)

OpRepDevlist(ds) ==
    <<Unit("hdr", 0, "devlist"), Unit("count", Len(ds), "none")>>
    \o FlattenSeq([i \in DOMAIN EncodedPrefix(ds) |-> DeviceUnits(ds[i])])

(* EncodeOpRepImport carries no interfaces; EncodeOpRepImportError no body.                *)
OpRepImport(d) == <<Unit("hdr", 0, "import")>> \o (IF d.long THEN << >> ELSE <<Unit("dev", d.num, d.id)>>)
OpRepImportError(status) == <<Unit("hdr", status, "import")>>

(* ST_NA, ST_DEV_BUSY, ST_DEV_ERR.                                                         *)
ImportStatus(reason) == CASE reason = "notfound" -> 1 [] reason = "busy" -> 2 [] reason = "error" -> 3

(* What a foreign exporter may put in the place of a unit.                                 *)
Faulty(u) ==
    CASE wiFault = "version" /\ u.t = "hdr" -> [u EXCEPT !.v = "version"]
      [] wiFault = "opcode" /\ u.t = "hdr"  -> [u EXCEPT !.v = "other"]
      [] wiFault = "status" /\ u.t = "hdr"  -> [u EXCEPT !.n = 9]
      [] wiFault = "count" /\ u.t = "count" -> [u EXCEPT !.n = MaxDevlist + 1]
      [] wiFault = "speed" /\ u.t = "dev"   -> [u EXCEPT !.v = "badspeed"]
      [] OTHER -> u

-----------------------------------------------------------------------------
Faults == {"none", "version", "opcode", "status", "count", "speed"}

Results == {"ok", "eof", "truncated", "mismatch", "protoerr", "notfound", "busy", "unavailable"}

(* Besides the types: the decoder never holds more devices than the cap, and consumes      *)
(* nothing it did not fetch.                                                               *)
WiTypeOK ==
    /\ wiExp \in {"hdr", "body", "reply", "kernel", "closed"}
    /\ wiImp \in {"idle", "hdr", "count", "dev", "intf"} \cup Results
    /\ wiRead <= wiFetched /\ wiFetched <= Len(wiDown)
    /\ wiCount \in 0..MaxDevlist
    /\ wiImp = "ok" => Len(wiGot) <= MaxDevlist

RawBusIDs == UNION {[1..n -> {"id"}] : n \in 1..FieldSize - 1}

(* At most one of the two ends is foreign.                                                 *)
WiInitFrom(ops, ours, faults, lists) ==
    /\ wiOp \in ops
    /\ wiOurs \in ours
    /\ wiSentBusID \in (IF wiOp = "import" THEN RawBusIDs ELSE {<<"id">>})
    /\ wiField \in (IF wiOurs \/ wiOp = "devlist" THEN {Padded(wiSentBusID)} ELSE [1..FieldSize -> Bytes])
    /\ wiFault \in (IF wiOurs THEN faults ELSE {"none"})
    /\ wiDevices \in (IF wiOp = "devlist" THEN lists ELSE {ds \in lists : Len(ds) = 1})
    /\ wiReason \in (IF wiOp = "devlist" THEN {"ok"} ELSE {"ok", "notfound", "busy", "error"})
    /\ wiUp = << >> /\ wiUpEnd = FALSE /\ wiDownEnd = FALSE /\ wiCut = FALSE
    /\ wiExp = "hdr" /\ wiReply = << >> /\ wiDown = << >> /\ wiBusID = << >>
    /\ wiRead = 0 /\ wiFetched = 0 /\ wiImp = "idle" /\ wiCount = 0 /\ wiGot = << >>

WiInit == WiInitFrom({"devlist", "import"}, BOOLEAN, Faults, DeviceLists)

-----------------------------------------------------------------------------
(* The connection *)

(* EncodeOpReqDevlist, EncodeOpReqImport: the importer sends its request and waits.        *)
SendRequest ==
    /\ wiImp = "idle"
    /\ wiUp' = IF wiOp = "devlist" THEN <<Unit("hdr", 0, "devlist")>>
               ELSE <<Unit("hdr", 0, "import"), Unit("field", 0, "none")>>
    /\ wiImp' = "hdr"
    /\ UNCHANGED <<wiPeer, wiUpEnd, wiCut, wiExp, wiReply, wiDown, wiDownEnd, wiBusID, wiRead,
                   wiFetched, wiCount, wiGot>>

(* The peer or the network ends it: what is under way arrives in part or not at all.       *)
Cut ==
    /\ ~wiCut /\ ~wiDownEnd
    /\ wiImp \notin Results \cup {"idle"}
    /\ wiCut' = TRUE /\ wiUpEnd' = TRUE /\ wiDownEnd' = TRUE
    /\ wiUp' = << >> /\ wiReply' = << >>
    /\ wiExp' = "closed"
    /\ \/ wiReply # << >> /\ wiDown' = Append(wiDown, Part)
       \/ UNCHANGED wiDown
    /\ UNCHANGED <<wiPeer, wiBusID, wiImpVars>>

-----------------------------------------------------------------------------
(* The exporter: handleConn's dispatch, serveDevlist, serveImport *)

ExpClose == wiExp' = "closed" /\ wiDownEnd' = TRUE

ReadRequestHeader ==
    /\ wiExp = "hdr" /\ wiUp # << >>
    /\ wiUp' = Tail(wiUp)
    /\ IF Head(wiUp).v = "devlist"
       THEN wiExp' = "reply" /\ wiReply' = OpRepDevlist(wiDevices)
       ELSE wiExp' = "body" /\ UNCHANGED wiReply
    /\ UNCHANGED <<wiPeer, wiDown, wiDownEnd, wiBusID, wiImpVars, wiUpEnd, wiCut>>

(* DecodeOpReqImportBody, then the decision; a refused busid gets no reply.                *)
ReadImportBody ==
    /\ wiExp = "body" /\ wiUp # << >>
    /\ wiUp' = Tail(wiUp)
    /\ IF BusIDAccepted(wiField)
       THEN /\ wiBusID' = PaddedStringFromBytes(wiField).s
            /\ wiExp' = "reply"
            /\ wiReply' = IF wiReason = "ok" THEN OpRepImport(wiDevices[1])
                          ELSE OpRepImportError(ImportStatus(wiReason))
            /\ UNCHANGED wiDownEnd
       ELSE ExpClose /\ UNCHANGED <<wiBusID, wiReply>>
    /\ UNCHANGED <<wiPeer, wiDown, wiImpVars, wiUpEnd, wiCut>>

WriteUnit ==
    /\ wiExp = "reply" /\ wiReply # << >>
    /\ wiDown' = Append(wiDown, Faulty(Head(wiReply)))
    /\ wiReply' = Tail(wiReply)
    /\ UNCHANGED <<wiPeer, wiUp, wiExp, wiDownEnd, wiBusID, wiImpVars, wiUpEnd, wiCut>>

(* The reply is out: a served import goes to the kernel, everything else is closed.        *)
Replied ==
    /\ wiExp = "reply" /\ wiReply = << >>
    /\ IF wiOp = "import" /\ wiReason = "ok" /\ Encodable(wiDevices)
       THEN wiExp' = "kernel" /\ UNCHANGED wiDownEnd
       ELSE ExpClose
    /\ UNCHANGED <<wiPeer, wiUp, wiReply, wiDown, wiBusID, wiImpVars, wiUpEnd, wiCut>>

Urbs == {i \in DOMAIN wiDown : wiDown[i].t = "urb"}

(* The exporter's kernel may speak before the importer has read the reply.                 *)
KernelSends ==
    /\ wiExp = "kernel" /\ Cardinality(Urbs) < MaxUrbs
    /\ wiDown' = Append(wiDown, Unit("urb", 0, "none"))
    /\ UNCHANGED <<wiPeer, wiUp, wiExp, wiReply, wiDownEnd, wiBusID, wiImpVars, wiUpEnd, wiCut>>

-----------------------------------------------------------------------------
(* The importer: DecodeOpRepDevlist, DecodeOpRepImport *)

(* DecodeOpRepDevlist wraps the connection in a bufio.Reader, DecodeOpRepImport does not.  *)
ReadsAhead(op) == op = "devlist"

Next1 == wiDown[wiRead + 1]
Ready1(t) == wiRead < Len(wiDown) /\ Next1.t = t

Consume ==
    /\ wiRead' = wiRead + 1
    /\ wiFetched' \in (IF wiRead < wiFetched THEN {wiFetched}
                       ELSE IF ReadsAhead(wiOp) THEN wiRead + 1..Len(wiDown) ELSE {wiRead + 1})

(* io.ReadFull at the end of the stream, or inside a unit: io.EOF before the first byte of *)
(* the reply, io.ErrUnexpectedEOF everywhere else.                                         *)
StreamEnds_Partial ==
    /\ wiImp \in {"hdr", "count", "dev", "intf"}
    /\ \/ wiRead = Len(wiDown) /\ wiDownEnd
       \/ wiRead < Len(wiDown) /\ Next1 = Part
    /\ wiImp' = IF wiGot # << >> THEN "ok" ELSE "truncated"
    /\ UNCHANGED <<wiPeer, wiExpVars, wiUpEnd, wiCut, wiRead, wiFetched, wiCount, wiGot>>

StreamEnds ==
    /\ wiImp \in {"hdr", "count", "dev", "intf"}
    /\ \/ wiRead = Len(wiDown) /\ wiDownEnd
       \/ wiRead < Len(wiDown) /\ Next1 = Part
    /\ wiImp' = IF wiImp = "hdr" /\ wiRead = Len(wiDown) THEN "eof" ELSE "truncated"
    /\ wiGot' = << >>
    /\ UNCHANGED <<wiPeer, wiExpVars, wiUpEnd, wiCut, wiRead, wiFetched, wiCount>>

(* decodeHeaderAllowStatus, DecodeHeader, mapImportStatus.                                 *)
MapImportStatus(status) ==
    CASE status \in {1, 4} -> "notfound"
      [] status = 2 -> "busy"
      [] status = 3 -> "unavailable"
      [] OTHER -> "protoerr"

HeaderVerdict(u) ==
    CASE u.v # wiOp -> "mismatch"
      [] u.v = wiOp /\ u.n # 0 -> IF wiOp = "import" THEN MapImportStatus(u.n) ELSE "protoerr"
      [] OTHER -> IF wiOp = "devlist" THEN "count" ELSE "dev"

DecodeHeader ==
    /\ wiImp = "hdr" /\ Ready1("hdr")
    /\ Consume
    /\ wiImp' = HeaderVerdict(Next1)
    /\ UNCHANGED <<wiPeer, wiExpVars, wiUpEnd, wiCut, wiCount, wiGot>>

CountOK(n) == n <= MaxDevlist

DecodeCount ==
    /\ wiImp = "count" /\ Ready1("count")
    /\ Consume
    /\ IF CountOK(Next1.n)
       THEN wiCount' = Next1.n /\ wiImp' = IF Next1.n = 0 THEN "ok" ELSE "dev"
       ELSE wiImp' = "mismatch" /\ UNCHANGED wiCount
    /\ UNCHANGED <<wiPeer, wiExpVars, wiUpEnd, wiCut, wiGot>>

(* After a device: its interfaces, the next device, or the end of the reply.               *)
AfterDevice(got) ==
    LET last == got[Len(got)]
    IN  IF wiOp = "devlist" /\ Len(last.ifs) < last.num THEN "intf"
        ELSE IF wiOp = "devlist" /\ Len(got) < wiCount THEN "dev" ELSE "ok"

DecodeDevice ==
    /\ wiImp = "dev" /\ Ready1("dev")
    /\ Consume
    /\ IF Next1.v = "badspeed"
       THEN wiImp' = "protoerr" /\ wiGot' = << >>
       ELSE /\ wiGot' = Append(wiGot, [id |-> Next1.v, num |-> Next1.n, ifs |-> << >>])
            /\ wiImp' = AfterDevice(wiGot')
    /\ UNCHANGED <<wiPeer, wiExpVars, wiUpEnd, wiCut, wiCount>>

DecodeInterface ==
    /\ wiImp = "intf" /\ Ready1("intf")
    /\ Consume
    /\ wiGot' = [wiGot EXCEPT ![Len(wiGot)].ifs = Append(@, Next1.v)]
    /\ wiImp' = AfterDevice(wiGot')
    /\ UNCHANGED <<wiPeer, wiExpVars, wiUpEnd, wiCut, wiCount>>

WiNext ==
    \/ SendRequest \/ Cut \/ ReadRequestHeader \/ ReadImportBody \/ WriteUnit \/ Replied \/ KernelSends
    \/ StreamEnds \/ DecodeHeader \/ DecodeCount \/ DecodeDevice \/ DecodeInterface

WiFairness ==
    /\ WF_wiVars(ReadRequestHeader \/ ReadImportBody \/ WriteUnit \/ Replied)
    /\ WF_wiVars(StreamEnds \/ DecodeHeader \/ DecodeCount \/ DecodeDevice \/ DecodeInterface)

-----------------------------------------------------------------------------
(* Properties *)

Normal(d) == [id |-> d.id, num |-> d.num,
              ifs |-> [i \in 1..d.num |-> IF i <= Len(d.ifs) THEN d.ifs[i] ELSE "zero"]]

(* A reply that decodes is the whole reply: every device, each with exactly NumInterfaces  *)
(* interfaces, never a list shortened by a cut connection or by a device that could not be *)
(* encoded after the count was already sent (EncodeOpRepDevlist, devlist.go:95).           *)
DecodedIsSent ==
    wiImp = "ok" =>
        IF wiOp = "devlist"
        THEN Encodable(wiDevices) /\ wiGot = [i \in DOMAIN wiDevices |-> Normal(wiDevices[i])]
        ELSE /\ wiReason = "ok"
             /\ wiGot = <<[id |-> wiDevices[1].id, num |-> wiDevices[1].num, ifs |-> << >>]>>

(* An importer that reports a refusal reports the exporter's reason; it blames the         *)
(* protocol only on a foreign peer, and a short stream only when it was short              *)
(* (mapImportStatus and the error matrix of DecodeHeader).                                 *)
RefusalsAreTrue ==
    /\ wiImp = "notfound" => wiReason = "notfound"
    /\ wiImp = "busy" => wiReason = "busy"
    /\ wiImp = "unavailable" => wiReason = "error"
    /\ wiImp \in {"mismatch", "protoerr"} => wiFault # "none"
    /\ wiImp \in {"eof", "truncated"} => \/ wiCut
                                         \/ ~Encodable(wiDevices)
                                         \/ ~wiOurs

(* When the importer hands the socket to the kernel, the first URB is still in it: the     *)
(* decoder took exactly the reply out of the stream (DecodeOpRepImport reads unbuffered).  *)
HandoverLosesNothing ==
    wiOp = "import" /\ wiImp = "ok" => \A i \in Urbs : i > wiFetched

(* A busid the exporter goes on to use as a path component is the one asked for, and one a *)
(* foreign client sends is a non-empty run of busid runes that ends at a NUL               *)
(* (DecodeOpReqImportBody, import_op.go:61).                                               *)
BusIDArrives ==
    wiBusID # << >> =>
        /\ wiOurs => wiBusID = wiSentBusID
        /\ ValidWireBusID(wiBusID)
        /\ \E i \in 2..FieldSize : wiField[i] = "nul" /\ wiBusID = SubSeq(wiField, 1, i - 1)

(* Whoever sent a request gets a verdict: the decoder never waits on a closed or complete  *)
(* reply.                                                                                  *)
EveryExchangeEnds == wiImp # "idle" ~> wiImp \in Results

(* What one side concludes from the stream is what the other side said, through cut, short *)
(* and faulty streams, and the kernel gets the rest of the stream whole.                   *)
ExchangeIsFaithful ==
    DecodedIsSent /\ RefusalsAreTrue /\ HandoverLosesNothing /\ BusIDArrives
=============================================================================
