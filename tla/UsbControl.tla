----------------------------- MODULE UsbControl -----------------------------
(***************************************************************************)
(* The control endpoint of the CH552 (ch552_fw/src/main.c): the            *)
(* configuration descriptor built for the active endpoints, the SETUP      *)
(* handler, and the interrupts that carry on a control transfer.           *)
(*                                                                         *)
(* Sizes are the ones of the code; a descriptor is a sequence of records   *)
(* with the fields the program or this module looks at, and data on the    *)
(* bus is which bytes of which descriptor.  The host starts a request at   *)
(* any time, also in the middle of another one, and may miss a handshake.  *)
(***************************************************************************)
EXTENDS Naturals, Sequences, SequencesExt

CONSTANTS
  Masks,       \* the sets of functions in addition to CDC
  Lengths,     \* wLength of requests for data
  Addresses,   \* device addresses the host assigns
  OutData,     \* class requests the host sends data with
  MaxRequests, \* bound: requests in a behaviour
  MaxLost      \* bound: handshakes the device misses

ASSUME ConstantsAssumption ==
  /\ \A m \in Masks : m \in SUBSET {"FIDO", "CCID", "DEBUG"} /\ {"FIDO", "CCID"} \ m # {}
  /\ Lengths \subseteq Nat
  /\ Addresses \subseteq 1 .. 127
  /\ OutData \cap {"NONE", "GET_DESCRIPTOR", "SET_ADDRESS"} = {}
  /\ MaxRequests \in Nat /\ MaxLost \in Nat

BUF_EP0_SIZE == 64
MAX_CFG_DESC_SIZE == 9 + 66 + 77 + 32
FIDO_REPORT_DESC_SIZE == 47
DEBUG_REPORT_DESC_SIZE == 34
CHANGE_ME == 0

VARIABLES
  mask,        \* the functions in the configuration descriptor
  SetupReq, SetupLen, pDescr,
  ep0,         \* UEP0_CTRL and UEP0_T_LEN with the bytes to be sent
  USB_DEV_AD,
  UsbConfig,
  stalled,     \* addresses of the endpoints that answer STALL
  host,        \* the request the host is at, and what it has received
  requests, lost

device == <<SetupReq, SetupLen, pDescr, ep0>>
vars == <<mask, device, USB_DEV_AD, UsbConfig, stalled, host, requests, lost>>

-----------------------------------------------------------------------------
(* Descriptors *)

Iface(eps) == [type |-> "INTERFACE", len |-> 9, num |-> CHANGE_ME, eps |-> eps]
Endpoint(addr) == [type |-> "ENDPOINT", len |-> 7, addr |-> addr]
Functional(len) == [type |-> "CS_INTERFACE", len |-> len]
Hid(report) == [type |-> "HID", len |-> 9, report |-> report]

CfgDesc == <<[type |-> "CONFIGURATION", len |-> 9, total |-> CHANGE_ME, num |-> CHANGE_ME]>>

CdcDesc ==
  <<[type |-> "INTERFACE_ASSOCIATION", len |-> 8, first |-> 0, count |-> 2],
    Iface(1), Functional(5), Functional(5), Functional(4),
    [type |-> "UNION", len |-> 5, control |-> 0, data |-> 1], Endpoint(129),
    Iface(2), Endpoint(2), Endpoint(130)>>

FidoDesc == <<Iface(2), Hid(FIDO_REPORT_DESC_SIZE), Endpoint(3), Endpoint(131)>>

CcidFunctional == [type |-> "CCID", len |-> 54]
CcidEndpoints == <<Endpoint(3), Endpoint(131)>>
CcidDesc == <<Iface(2), CcidFunctional>> \o CcidEndpoints

DebugDesc == <<Iface(2), Hid(DEBUG_REPORT_DESC_SIZE), Endpoint(4), Endpoint(132)>>

\* Bytes of the items of the report descriptors.
FidoReportDesc == <<3, 2, 2,  2, 2, 3, 2, 2, 2,  2, 2, 3, 2, 2, 2,  2, 2, 3, 2, 2, 2,  1>>
DebugReportDesc == <<3, 2, 2,  2, 2, 3, 2, 2, 2,  2, 2, 3, 2, 2, 2,  1>>

Total(sizes) ==
  LET upto[i \in 0 .. Len(sizes)] == IF i = 0 THEN 0 ELSE upto[i - 1] + sizes[i]
  IN  upto[Len(sizes)]
SizeOf(desc) == Total([i \in DOMAIN desc |-> desc[i].len])

\* ActiveCfgDesc[off] = v; the interface number is the third byte of an interface.
Put(desc, off, v) ==
  [i \in DOMAIN desc |->
     IF desc[i].type = "INTERFACE" /\ SizeOf(SubSeq(desc, 1, i - 1)) + 2 = off
     THEN [desc[i] EXCEPT !.num = v] ELSE desc[i]]

\* Mutant: num_iface is not incremented.
MutWithFunction(on, cfg, desc) ==
  IF on THEN [cfg EXCEPT !.bytes = Put(@ \o desc, SizeOf(@) + 2, cfg.num)] ELSE cfg
WithFunction(on, cfg, desc) ==
  IF on
  THEN [bytes |-> Put(cfg.bytes \o desc, SizeOf(cfg.bytes) + 2, cfg.num),
        num |-> cfg.num + 1]
  ELSE cfg

CreateCfgDescriptor(functions) ==
  LET size == SizeOf(CfgDesc)
      cdc  == [bytes |-> Put(Put(CfgDesc \o CdcDesc, size + 10, 0), size + 45, 1), num |-> 2]
      fido == WithFunction("FIDO" \in functions, cdc, FidoDesc)
      ccid == WithFunction("CCID" \in functions, fido, CcidDesc)
      all  == WithFunction("DEBUG" \in functions, ccid, DebugDesc)
  IN  [all.bytes EXCEPT ![1].total = SizeOf(all.bytes), ![1].num = all.num]

\* FidoInterfaceNum, DebugInterfaceNum; 255 when the function is not there.
FidoInterfaceNum(functions) == IF "FIDO" \in functions THEN 2 ELSE 255
DebugInterfaceNum(functions) ==
  IF "DEBUG" \notin functions THEN 255
  ELSE IF functions \cap {"FIDO", "CCID"} = {} THEN 2 ELSE 3

\* The other descriptors are one piece: their sizes, usb_strings.h included.
DevDesc == 18
LangDesc == 4
FidoCfgDesc == Hid(FIDO_REPORT_DESC_SIZE).len
DebugCfgDesc == Hid(DEBUG_REPORT_DESC_SIZE).len
LineCoding == 7
StringSizes ==
  [MFC |-> 18, PRODUCT |-> 42, SERIAL |-> 74, CDC_CTRL |-> 18, CDC_DATA |-> 18,
   FIDO |-> 10, CCID |-> 10, DEBUG |-> 12]

Length(d) ==
  CASE d = "DEVICE" -> DevDesc
    [] d = "CONFIGURATION" -> SizeOf(CreateCfgDescriptor(mask))
    [] d = "LANG" -> LangDesc
    [] d \in DOMAIN StringSizes -> StringSizes[d]
    [] d = "FIDO_HID" -> FidoCfgDesc
    [] d = "DEBUG_HID" -> DebugCfgDesc
    [] d = "FIDO_REPORT" -> Total(FidoReportDesc)
    [] d = "DEBUG_REPORT" -> Total(DebugReportDesc)
    [] d = "LINE_CODING" -> LineCoding

-----------------------------------------------------------------------------
(* Requests *)

\* What a GET_DESCRIPTOR request names, by type, string index or interface.
Strings == {"LANG", "MFC", "PRODUCT", "SERIAL", "CDC_CTRL", "CDC_DATA", "FIDO", "CCID", "DEBUG"}
Descriptors == {"DEVICE", "CONFIGURATION", "DEVICE_QUALIFIER", "UNKNOWN"} \cup Strings
HidDescriptors == {"HID", "REPORT"}
Interfaces == {2, 3}

EndpointAddresses == {1, 2, 3, 4, 129, 130, 131, 132}

\* `desc' is what a request for a descriptor names, `arg' the rest of wValue and
\* wIndex that matters.
Request(req, desc, arg, wLength) ==
  [req |-> req, desc |-> desc, arg |-> arg, wLength |-> wLength]
Plain(req, arg, wLength) == Request(req, "NONE", arg, wLength)

Requests ==
  {Request("GET_DESCRIPTOR", d, 0, n) : d \in Descriptors, n \in Lengths}
    \cup {Request("GET_DESCRIPTOR", d, i, n) : d \in HidDescriptors, i \in Interfaces, n \in Lengths}
    \cup {Plain("SET_ADDRESS", a, 0) : a \in Addresses}
    \cup {Plain("SET_CONFIGURATION", c, 0) : c \in 0 .. 1}
    \cup {Plain(r, e, 0) : r \in {"CLEAR_FEATURE", "SET_FEATURE"}, e \in EndpointAddresses \cup {5}}
    \cup {Plain(r, 0, n) : r \in {"GET_CONFIGURATION", "GET_STATUS", "GET_LINE_CODING"}, n \in Lengths \ {0}}
    \cup {Plain(r, 0, 0) : r \in {"SET_IDLE", "SET_CONTROL_LINE_STATE", "UNSUPPORTED"}}
    \cup {Plain(r, 0, 7) : r \in OutData}

\* The descriptor a request gets: a name, "EMPTY" or "UNKNOWN".
Asked(r) ==
  CASE r.desc = "DEVICE_QUALIFIER" -> "EMPTY"
    [] r.desc \in HidDescriptors /\ r.arg = FidoInterfaceNum(mask) ->
         IF r.desc = "HID" THEN "FIDO_HID" ELSE "FIDO_REPORT"
    [] r.desc \in HidDescriptors /\ r.arg = DebugInterfaceNum(mask) ->
         IF r.desc = "HID" THEN "DEBUG_HID" ELSE "DEBUG_REPORT"
    [] r.desc \in HidDescriptors /\ r.arg \notin {FidoInterfaceNum(mask), DebugInterfaceNum(mask)} -> "UNKNOWN"
    [] OTHER -> r.desc

Min2(a, b) == IF a < b THEN a ELSE b
Piece(d, from, len) == [d |-> d, from |-> from, len |-> len]
NoData == Piece("NONE", 0, 0)

\* The epilogue: DATA1, and ACK to whatever comes, or STALL.
Answer(piece) == ep0' = [data |-> piece, res |-> "ACK", tog |-> 1]
Stall ==
  /\ ep0' = [data |-> ep0.data, res |-> "STALL", tog |-> 1]
  /\ SetupReq' = "NONE"

\* The block that every request for a descriptor ends with.
\* Mutant: the rest of a long descriptor starts from its beginning.
MutSend(d, wLength) ==
  LET all == Min2(wLength, Length(d))
      len == Min2(all, BUF_EP0_SIZE)
  IN  /\ SetupLen' = all - len
      /\ pDescr' = [d |-> d, off |-> 0]
      /\ Answer(IF len > 0 THEN Piece(d, 0, len) ELSE NoData)
Send(d, wLength) ==
  LET all == Min2(wLength, Length(d))
      len == Min2(all, BUF_EP0_SIZE)
  IN  /\ SetupLen' = all - len
      /\ pDescr' = [d |-> d, off |-> len]
      /\ Answer(IF len > 0 THEN Piece(d, 0, len) ELSE NoData)

GetDescriptor(r) ==
  /\ r.req = "GET_DESCRIPTOR"
  /\ CASE Asked(r) = "UNKNOWN" ->
            Stall /\ SetupLen' = r.wLength /\ UNCHANGED pDescr
       [] Asked(r) = "EMPTY" ->
            SetupReq' = r.req /\ Answer(NoData) /\ SetupLen' = r.wLength /\ UNCHANGED pDescr
       [] OTHER ->
            SetupReq' = r.req /\ Send(Asked(r), r.wLength)
  /\ UNCHANGED <<USB_DEV_AD, UsbConfig, stalled>>

ClassRequest(r) ==
  /\ r.req \in {"GET_LINE_CODING", "SET_IDLE", "SET_CONTROL_LINE_STATE"} \cup OutData
  /\ SetupReq' = r.req
  /\ IF r.req = "GET_LINE_CODING"
     THEN Send("LINE_CODING", r.wLength)
     ELSE Answer(NoData) /\ SetupLen' = r.wLength /\ UNCHANGED pDescr
  /\ UNCHANGED <<USB_DEV_AD, UsbConfig, stalled>>

\* Mutant: the address changes before the status stage.
MutSetAddress(r) ==
  /\ r.req = "SET_ADDRESS"
  /\ SetupReq' = r.req /\ SetupLen' = r.arg /\ Answer(NoData)
  /\ USB_DEV_AD' = r.arg
  /\ UNCHANGED <<pDescr, UsbConfig, stalled>>
SetAddress(r) ==
  /\ r.req = "SET_ADDRESS"
  /\ SetupReq' = r.req /\ SetupLen' = r.arg /\ Answer(NoData)
  /\ UNCHANGED <<pDescr, USB_DEV_AD, UsbConfig, stalled>>

Configuration(r) ==
  /\ r.req \in {"GET_CONFIGURATION", "SET_CONFIGURATION"}
  /\ SetupReq' = r.req /\ SetupLen' = r.wLength
  /\ Answer(IF r.req = "GET_CONFIGURATION" THEN Piece(r.req, 0, 1) ELSE NoData)
  /\ UsbConfig' = IF r.req = "SET_CONFIGURATION" THEN r.arg ELSE UsbConfig
  /\ UNCHANGED <<pDescr, USB_DEV_AD, stalled>>

GetStatus(r) ==
  /\ r.req = "GET_STATUS"
  /\ SetupReq' = r.req /\ SetupLen' = r.wLength
  /\ Answer(Piece(r.req, 0, Min2(r.wLength, 2)))
  /\ UNCHANGED <<pDescr, USB_DEV_AD, UsbConfig, stalled>>

ClearFeature(r) ==
  /\ r.req = "CLEAR_FEATURE"
  /\ SetupLen' = r.wLength
  /\ IF r.arg \in EndpointAddresses
     THEN SetupReq' = r.req /\ Answer(NoData) /\ stalled' = stalled \ {r.arg}
     ELSE Stall /\ UNCHANGED stalled
  /\ UNCHANGED <<pDescr, USB_DEV_AD, UsbConfig>>

\* The case of endpoint 1 OUT falls through to the default.
SetFeature(r) ==
  /\ r.req = "SET_FEATURE"
  /\ SetupLen' = r.wLength
  /\ stalled' = stalled \cup ({r.arg} \cap EndpointAddresses)
  /\ IF r.arg \in EndpointAddresses \ {1}
     THEN SetupReq' = r.req /\ Answer(NoData)
     ELSE Stall
  /\ UNCHANGED <<pDescr, USB_DEV_AD, UsbConfig>>

Unsupported(r) ==
  /\ r.req = "UNSUPPORTED"
  /\ Stall /\ SetupLen' = r.wLength
  /\ UNCHANGED <<pDescr, USB_DEV_AD, UsbConfig, stalled>>

-----------------------------------------------------------------------------
(* The host and the interrupts *)

Idle == [phase |-> "idle", r |-> Plain("NONE", 0, 0), got |-> <<>>, tog |-> 1]

Init ==
  /\ mask \in Masks
  /\ SetupReq = "NONE" /\ SetupLen = 0 /\ pDescr = [d |-> "NULL", off |-> 0]
  /\ ep0 = [data |-> NoData, res |-> "NAK", tog |-> 0]
  /\ USB_DEV_AD = 0 /\ UsbConfig = 0 /\ stalled = {}
  /\ host = Idle /\ requests = 0 /\ lost = 0

FirstPhase(r) ==
  CASE r.req \in OutData -> "data_out"
    [] r.req \notin OutData /\ r.wLength > 0 -> "data_in"
    [] OTHER -> "status_in"

\* UsbEp0SetupHandler
Setup(r) ==
  /\ requests < MaxRequests
  /\ requests' = requests + 1
  /\ host' = [phase |-> FirstPhase(r), r |-> r, got |-> <<>>, tog |-> 1]
  /\ \/ GetDescriptor(r) \/ ClassRequest(r) \/ SetAddress(r) \/ Configuration(r)
     \/ GetStatus(r) \/ ClearFeature(r) \/ SetFeature(r) \/ Unsupported(r)
  /\ UNCHANGED <<mask, lost>>

\* UIS_TOKEN_IN | 0, once the host has acknowledged what was sent.
Ep0In ==
  /\ CASE SetupReq = "GET_DESCRIPTOR" ->
            LET len == Min2(SetupLen, BUF_EP0_SIZE)
            IN  /\ SetupLen' = SetupLen - len
                /\ pDescr' = [pDescr EXCEPT !.off = @ + len]
                /\ ep0' = [ep0 EXCEPT !.tog = 1 - @,
                             !.data = IF len > 0 THEN Piece(pDescr.d, pDescr.off, len) ELSE NoData]
                /\ UNCHANGED USB_DEV_AD
       [] SetupReq = "SET_ADDRESS" ->
            /\ USB_DEV_AD' = SetupLen
            /\ ep0' = [ep0 EXCEPT !.res = "NAK", !.tog = 0]
            /\ UNCHANGED <<SetupLen, pDescr>>
       [] OTHER ->
            /\ ep0' = [data |-> NoData, res |-> "NAK", tog |-> 0]
            /\ UNCHANGED <<SetupLen, pDescr, USB_DEV_AD>>
  /\ UNCHANGED <<SetupReq, UsbConfig, stalled>>

\* UIS_TOKEN_OUT | 0
\* Mutant: SET_LINE_CODING is treated like the status phase.
MutEp0Out ==
  /\ ep0' = [ep0 EXCEPT !.data = NoData, !.res = IF @ = "ACK" THEN "NAK" ELSE @]
  /\ UNCHANGED <<SetupReq, SetupLen, pDescr, USB_DEV_AD, UsbConfig, stalled>>
Ep0Out ==
  /\ ep0' = [ep0 EXCEPT !.data = NoData,
               !.res = IF SetupReq = "SET_LINE_CODING" THEN @ ELSE IF @ = "ACK" THEN "NAK" ELSE @]
  /\ UNCHANGED <<SetupReq, SetupLen, pDescr, USB_DEV_AD, UsbConfig, stalled>>

\* The host drops a packet it has seen: its toggle did not change.
Got == IF ep0.tog = host.tog THEN Append(host.got, ep0.data) ELSE host.got

Enough(got) ==
  \/ Total([i \in DOMAIN got |-> got[i].len]) >= host.r.wLength
  \/ got # <<>> /\ Last(got).len < BUF_EP0_SIZE

DataIn(handshakeLost) ==
  /\ host.phase = "data_in" /\ ep0.res = "ACK"
  /\ host' = [host EXCEPT !.got = Got,
                !.tog = IF ep0.tog = @ THEN 1 - @ ELSE @,
                !.phase = IF Enough(Got) /\ ~handshakeLost THEN "status_out" ELSE @]
  /\ IF handshakeLost
     THEN lost < MaxLost /\ lost' = lost + 1 /\ UNCHANGED <<device, USB_DEV_AD, UsbConfig, stalled>>
     ELSE lost' = lost /\ Ep0In
  /\ UNCHANGED <<mask, requests>>

DataOut ==
  /\ host.phase = "data_out" /\ ep0.res # "STALL"
  /\ host' = [host EXCEPT !.phase = "status_in"]
  /\ Ep0Out
  /\ UNCHANGED <<mask, requests, lost>>

StatusIn ==
  /\ host.phase = "status_in" /\ ep0.res = "ACK" /\ ep0.data.len = 0
  /\ host' = Idle
  /\ Ep0In
  /\ UNCHANGED <<mask, requests, lost>>

StatusOut ==
  /\ host.phase = "status_out"
  /\ host' = Idle
  /\ Ep0Out
  /\ UNCHANGED <<mask, requests, lost>>

\* STALL ends a request.
Refused ==
  /\ host.phase \in {"data_in", "data_out", "status_in"} /\ ep0.res = "STALL"
  /\ host' = Idle
  /\ UNCHANGED <<mask, device, USB_DEV_AD, UsbConfig, stalled, requests, lost>>

BusReset ==
  /\ requests < MaxRequests /\ requests' = requests + 1
  /\ ep0' = [ep0 EXCEPT !.res = "NAK", !.tog = 0]
  /\ USB_DEV_AD' = 0 /\ UsbConfig' = 0 /\ stalled' = {}
  /\ host' = Idle
  /\ UNCHANGED <<mask, SetupReq, SetupLen, pDescr, lost>>

Transfer == \E l \in BOOLEAN : DataIn(l) \/ DataOut \/ StatusIn \/ StatusOut \/ Refused

Next == (\E r \in Requests : Setup(r)) \/ Transfer \/ BusReset

Spec == Init /\ [][Next]_vars

\* The host carries a transfer on and does not lose handshakes for ever (lost).
FairSpec == Spec /\ WF_vars(Transfer)

-----------------------------------------------------------------------------
(* Properties *)

\* When the data stage of a request for a descriptor is over, the host has the
\* first bytes of that descriptor, as many as there are or as it asked for, in
\* order and once each: across packets, lost handshakes and abandoned requests.
DescriptorIsExact ==
  host.phase = "status_out" /\ host.r.req = "GET_DESCRIPTOR" =>
    LET d == Asked(host.r)
        last == Len(host.got)
    IN  /\ d # "UNKNOWN"
        /\ \A i \in 1 .. last :
             \/ i = last /\ host.got[i].len = 0
             \/ /\ host.got[i].d = d /\ host.got[i].from = BUF_EP0_SIZE * (i - 1)
                /\ i < last => host.got[i].len = BUF_EP0_SIZE
        /\ Total([i \in DOMAIN host.got |-> host.got[i].len])
             = IF d = "EMPTY" THEN 0 ELSE Min2(host.r.wLength, Length(d))

\* The address changes in the status stage of the request that sets it, to that
\* address, never before and never for a request that was abandoned; else only a
\* bus reset clears it.
AddressAfterStatus ==
  [][IF StatusIn /\ host.r.req = "SET_ADDRESS"
     THEN USB_DEV_AD' = host.r.arg
     ELSE USB_DEV_AD' = USB_DEV_AD \/ BusReset]_vars

\* The configuration descriptor says of itself what it is: its size, within its
\* buffer and one byte, interfaces numbered from zero in the order they come, as
\* many endpoints as they announce, an address for one endpoint only; and whoever
\* asks such an interface for its report descriptor gets one of the announced size.
ConfigurationIsSound ==
  LET cfg == CreateCfgDescriptor(mask)
      ifaces == SelectSeq(cfg, LAMBDA x : x.type = "INTERFACE")
      endpoints == SelectSeq(cfg, LAMBDA x : x.type = "ENDPOINT")
      report(i) == Asked(Request("GET_DESCRIPTOR", "REPORT", cfg[i - 1].num, 255))
  IN  /\ cfg[1].total = SizeOf(cfg) /\ SizeOf(cfg) <= MAX_CFG_DESC_SIZE
      /\ cfg[1].num = Len(ifaces)
      /\ \A i \in DOMAIN ifaces : ifaces[i].num = i - 1
      /\ Len(endpoints) = Total([i \in DOMAIN ifaces |-> ifaces[i].eps])
      /\ IsInjective([i \in DOMAIN endpoints |-> endpoints[i].addr])
      /\ \A i \in DOMAIN cfg :
           cfg[i].type = "HID" => report(i) # "UNKNOWN" /\ Length(report(i)) = cfg[i].report

\* Every request comes to an end: data, status or a refusal, never NAK for ever.
TransfersEnd == host.phase # "idle" ~> host.phase = "idle"
=============================================================================
