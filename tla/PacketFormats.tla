----------------------------- MODULE PacketFormats -----------------------------
(***************************************************************************)
(* The packet formats of the code as layouts.  The LE side: ATT, SMP,      *)
(* L2CAP, ISO, the HCI commands and events of advertising, BIG, direction  *)
(* finding and channel sounding.  The classic profiles: AVRCP, AV/C,       *)
(* AVDTP, SDP, OBEX, HID, RFCOMM and LMP.                                  *)
(*                                                                         *)
(* Structures the code shares between writer and reader have one layout;   *)
(* writers and readers that are functions of their own in the code, the    *)
(* controller's event builders and the hosts' readers among them, have     *)
(* layouts of their own here.                                              *)
(***************************************************************************)
EXTENDS Layout, TLC

Shared(kinds) == [k \in DOMAIN kinds |-> [w |-> kinds[k], r |-> kinds[k]]]
Apart(ws, rs) == [k \in DOMAIN ws |-> [w |-> ws[k], r |-> rs[k]]]
Alone(l) == Shared([message |-> l])

u8 == U(1)
u16 == L(2)
u24 == L(3)
u32 == L(4)
address == U(6)

--------------------------------------------------------------------------------
\* ATT.
AttOpcode ==
  [ErrorRsp |-> 1, ExchangeMtuReq |-> 2, ExchangeMtuRsp |-> 3, FindInformationReq |-> 4, FindInformationRsp |-> 5,
   FindByTypeValueReq |-> 6, FindByTypeValueRsp |-> 7, ReadByTypeReq |-> 8, ReadByTypeRsp |-> 9, ReadReq |-> 10,
   ReadRsp |-> 11, ReadBlobReq |-> 12, ReadBlobRsp |-> 13, ReadMultipleReq |-> 14, ReadMultipleRsp |-> 15,
   ReadByGroupTypeReq |-> 16, ReadByGroupTypeRsp |-> 17, WriteReq |-> 18, WriteRsp |-> 19, WriteCmd |-> 82,
   PrepareWriteReq |-> 22, PrepareWriteRsp |-> 23, ExecuteWriteReq |-> 24, ExecuteWriteRsp |-> 25,
   HandleValueNotify |-> 27, HandleValueInd |-> 29, HandleValueCfm |-> 30]

AttExchange ==
  [ErrorRsp |-> <<u8, u16, u8>>, ExchangeMtuReq |-> <<u16>>, ExchangeMtuRsp |-> <<u16>>, FindInformationReq |-> <<u16, u16>>]

\* Handles with UUIDs of two octets, or of sixteen; handle ranges.
AttFinding ==
  [FindInformationRsp |-> <<Choice(u8, 1 :> <<Items(<<u16, U(2)>>)>> @@ 2 :> <<Items(<<u16, U(16)>>)>>)>>,
   FindByTypeValueReq |-> <<u16, u16, u16, Rest>>,
   FindByTypeValueRsp |-> <<Items(<<u16, u16>>)>>]

AttByType == [ReadByTypeReq |-> <<u16, u16, Rest>>, ReadByTypeRsp |-> <<Uniform(u8, 2, <<u16, Rest>>)>>]

AttByGroup == [ReadByGroupTypeReq |-> <<u16, u16, Rest>>, ReadByGroupTypeRsp |-> <<Uniform(u8, 4, <<u16, u16, Rest>>)>>]

AttAccess ==
  [ReadReq |-> <<u16>>, ReadBlobReq |-> <<u16, u16>>, WriteReq |-> <<u16, Rest>>, WriteCmd |-> <<u16, Rest>>,
   PrepareWriteReq |-> <<u16, u16, Rest>>, PrepareWriteRsp |-> <<u16, u16, Rest>>]

AttExecute == [ExecuteWriteReq |-> <<u8>>, HandleValueNotify |-> <<u16, Rest>>, HandleValueInd |-> <<u16, Rest>>]

\* AttPdu::parse: an opcode, and the layout it stands for.
AttPdu ==
  LET bare == [ReadRsp |-> <<Rest>>, ReadBlobRsp |-> <<Rest>>, ReadMultipleReq |-> <<Items(<<u16>>)>>,
               ReadMultipleRsp |-> <<Rest>>, WriteRsp |-> <<>>, ExecuteWriteRsp |-> <<>>, HandleValueCfm |-> <<>>]
      body == AttExchange @@ AttFinding @@ AttByType @@ AttByGroup @@ AttAccess @@ AttExecute @@ bare
  IN Shared([k \in DOMAIN AttOpcode |-> <<Lit(<<AttOpcode[k]>>)>> \o body[k]])

--------------------------------------------------------------------------------
\* SMP: a Pairing Response states no out-of-band data and a key of sixteen octets.
SmpSent ==
  [PairingRequest |-> <<Lit(<<1>>), u8, u8, u8, u8, u8, u8>>,
   PairingResponse |-> <<Lit(<<2>>), u8, Is(u8, 0), u8, Is(u8, 16), u8, u8>>]

SmpPairingPacket == [PairingRequest |-> SmpSent.PairingRequest, PairingResponse |-> <<Lit(<<2>>), u8, u8, u8, u8, u8, u8>>]

SmpKeys ==
  [PairingFailed |-> <<Lit(<<5>>), u8>>, MasterIdentification |-> <<Lit(<<7>>), u16, U(8)>>,
   IdentityAddressInformation |-> <<Lit(<<9>>), u8, address>>]

--------------------------------------------------------------------------------
\* L2CAP in ACL fragments, and isochronous data.
Acl(flags) == <<Bits(u16, <<W(12), W(2), flags>>), Slack(u16, <<Rest>>)>>
HciAcl == [message |-> [w |-> Acl(Only(2, {0})), r |-> Acl(W(2))]]

L2capFrame == Alone(<<Over(Slack(u16, <<Rest>>), <<u16>>)>>)

\* A packet carries one whole SDU, whose own length the reader goes by.
IsoPacket(boundaries) ==
  <<Lit(<<5>>), Bits(u16, <<W(12), Only(2, boundaries), Only(2, {0})>>), Total(u16, <<u16, Slack(u16, <<Upto(40)>>)>>)>>
Iso == [message |-> [w |-> IsoPacket({2}), r |-> IsoPacket({0, 2})]]

MtuOption == Opt(<<Lit(<<1, 2>>), u16>>)

SignalingBodies ==
  [ConnectionRequest |-> <<2, <<u16, u16>>>>, ConnectionResponse |-> <<3, <<u16, u16, u16, u16>>>>,
   ConfigurationRequest |-> <<4, <<u16, u16, MtuOption>>>>, ConfigurationResponse |-> <<5, <<u16, u16, u16, MtuOption>>>>,
   DisconnectionRequest |-> <<6, <<u16, u16>>>>, DisconnectionResponse |-> <<7, <<u16, u16>>>>,
   LeCreditBasedConnectionRequest |-> <<20, <<u16, u16, u16, u16>>>>,
   LeCreditBasedConnectionResponse |-> <<21, <<u16, u16, u16, u16>>>>, LeFlowControlCredit |-> <<22, <<u16, u16>>>>]

L2capSignaling ==
  Shared([k \in DOMAIN SignalingBodies |-> <<Lit(<<SignalingBodies[k][1]>>), u8, Slack(u16, SignalingBodies[k][2])>>])

--------------------------------------------------------------------------------
\* HCI commands: the opcode of a command whose group is LE (2), a length nobody reads,
\* and the parameters (host::command, handle_packet).
Command(group, kinds) ==
  [k \in DOMAIN kinds |-> <<Lit(<<1, kinds[k][1], group>>), Total(u8, kinds[k][2])>>]
LE == 32

AdvertisingData(max) == Slack(u8, <<Upto(max)>>)

AdvertisingCommands ==
  [LeSetAdvertisingSetRandomAddress |-> <<53, <<u8, address>>>>,
   LeSetExtendedAdvertisingParameters |->
     <<54, <<u8, u16, u24, u24, u8, u8, u8, address, u8, u8, u8, u8, u8, u8, u8>>>>,
   LeSetExtendedAdvertisingData |-> <<55, <<u8, u8, u8, AdvertisingData(251)>>>>]

AdvertisingSetCommands ==
  [LeSetExtendedScanResponseData |-> <<56, <<u8, u8, u8, AdvertisingData(251)>>>>,
   LeSetExtendedAdvertisingEnable |-> <<57, <<u8, Counted(u8, <<u8, u16, u8>>)>>>>,
   LeReadMaximumAdvertisingDataLength |-> <<58, <<>>>>,
   LeRemoveAdvertisingSet |-> <<60, <<u8>>>>, LeClearAdvertisingSets |-> <<61, <<>>>>]

PeriodicCommands ==
  [LeSetPeriodicAdvertisingParameters |-> <<62, <<u8, u16, u16, u16>>>>,
   LeSetPeriodicAdvertisingData |-> <<63, <<u8, u8, AdvertisingData(252)>>>>,
   LeSetPeriodicAdvertisingEnable |-> <<64, <<u8, u8>>>>,
   LeSetExtendedScanParameters |-> <<65, <<u8, u8, PerBit(u8, <<u8, u16, u16>>)>>>>]

SyncCommands ==
  [LeSetExtendedScanEnable |-> <<66, <<u8, u8, u16, u16>>>>,
   LePeriodicAdvertisingCreateSync |-> <<68, <<u8, u8, u8, address, u16, u16, u8>>>>,
   LePeriodicAdvertisingCreateSyncCancel |-> <<69, <<>>>>, LePeriodicAdvertisingTerminateSync |-> <<70, <<u16>>>>]

BigCommands ==
  [LeCreateBig |-> <<104, <<u8, u8, u8, u24, u16, u16, u8, u8, u8, u8, u8, U(16)>>>>, LeTerminateBig |-> <<106, <<u8, u8>>>>,
   LeBigCreateSync |-> <<107, <<u8, u16, u8, U(16), u8, u16, Counted(u8, <<u8>>)>>>>, LeBigTerminateSync |-> <<108, <<u8>>>>]

Antennas == Counted(u8, <<u8>>)
DfTransmitCommands ==
  [LeSetConnectionlessCteTransmitParameters |-> <<81, <<u8, u8, u8, u8, Antennas>>>>,
   LeSetConnectionlessCteTransmitEnable |-> <<82, <<u8, u8>>>>,
   LeSetConnectionlessIqSamplingEnable |-> <<83, <<u16, u8, u8, u8, Antennas>>>>]

DfConnectionCommands ==
  [LeSetConnectionCteReceiveParameters |-> <<84, <<u16, u8, u8, Antennas>>>>,
   LeSetConnectionCteTransmitParameters |-> <<85, <<u16, u8, Antennas>>>>,
   LeConnectionCteRequestEnable |-> <<86, <<u16, u8, u16, u8, u8>>>>, LeConnectionCteResponseEnable |-> <<87, <<u16, u8>>>>,
   LeReadAntennaInformation |-> <<88, <<>>>>]

CsCommands ==
  [LeCsReadLocalSupportedCapabilities |-> <<137, <<>>>>, LeCsReadRemoteSupportedCapabilities |-> <<138, <<u16>>>>,
   LeCsCreateConfig |->
     <<144, <<u16, u8, u8, u8, u8, u8, u8, u8, u8, u8, u8, u8, U(10), u8, u8, u8, u8, u8>>>>,
   LeCsRemoveConfig |-> <<145, <<u16, u8>>>>, LeCsProcedureEnable |-> <<148, <<u16, u8, u8>>>>]

HciCommands ==
  Shared(Command(LE, AdvertisingCommands @@ AdvertisingSetCommands @@ PeriodicCommands @@ SyncCommands
                       @@ BigCommands @@ DfTransmitCommands @@ DfConnectionCommands @@ CsCommands))

--------------------------------------------------------------------------------
\* HCI events, as the controller builds them.
EventPacket(code, body) == <<Lit(<<4, code>>), Sized(u8, body)>>
LeMeta(subevent, body) == EventPacket(62, <<Lit(<<subevent>>)>> \o body)

InquiryEventsSent ==
  [InquiryResult |-> EventPacket(2, <<Counted(u8, <<address, Is(u8, 1), Is(u16, 0), U(3), Is(u16, 0)>>)>>),
   InquiryComplete |-> EventPacket(1, <<u8>>),
   RemoteNameRequestComplete |-> EventPacket(7, <<Is(u8, 0), address, Padded(248)>>)]

ConnectionEventsSent ==
  [ConnectionRequest |-> EventPacket(4, <<address, U(3), u8>>),
   SynchronousConnectionComplete |->
     EventPacket(44, <<u8, u16, address, u8, Is(u8, 0), Is(u8, 0), Is(u16, 60), Is(u16, 60), u8>>),
   ConnectionComplete |-> EventPacket(3, <<u8, u16, address, Is(u8, 1), Is(u8, 0)>>),
   DisconnectionComplete |-> EventPacket(5, <<Is(u8, 0), u16, u8>>),
   CommandComplete |-> EventPacket(14, <<Is(u8, 1), u16, Rest>>)]

SecurityEventsSent ==
  [LinkKeyRequest |-> EventPacket(23, <<address>>), LinkKeyNotification |-> EventPacket(24, <<address, U(16), u8>>),
   IoCapabilityRequest |-> EventPacket(49, <<address>>), IoCapabilityResponse |-> EventPacket(50, <<address, u8, u8, u8>>),
   UserConfirmationRequest |-> EventPacket(51, <<address, u32>>), UserPasskeyRequest |-> EventPacket(52, <<address>>),
   UserPasskeyNotification |-> EventPacket(59, <<address, u32>>), SimplePairingComplete |-> EventPacket(54, <<u8, address>>),
   AuthenticationComplete |-> EventPacket(6, <<u8, u16>>), EncryptionChange |-> EventPacket(8, <<u8, u16, u8>>)]

LeEventsSent ==
  [LeLongTermKeyRequest |-> LeMeta(5, <<u16, U(8), u16>>),
   LeConnectionComplete |-> LeMeta(1, <<Is(u8, 0), u16, u8, Is(u8, 0), address, Is(u16, 24), Is(u16, 0), Is(u16, 42), Is(u8, 0)>>),
   LePhyUpdateComplete |-> LeMeta(12, <<Is(u8, 0), u16, u8, u8>>),
   LeCisRequest |-> LeMeta(26, <<u16, u16, Is(u8, 0), Is(u8, 0)>>),
   LeCisEstablished |->
     LeMeta(25, <<u8, u16, Is(u24, 40000), Is(u24, 40000), Is(u24, 40000), Is(u24, 40000), Is(u8, 2), Is(u8, 2), Is(u8, 1),
                  Is(u8, 1), Is(u8, 1), Is(u8, 1), Is(u8, 1), Is(u16, 100), Is(u16, 100), Is(u16, 8)>>)]

AdvertisingEventsSent ==
  [LeAdvertisingReport |-> LeMeta(2, <<Single(u8, <<u8, u8, address, Sized(u8, <<Upto(31)>>), u8>>)>>),
   LeExtendedAdvertisingReport |->
     LeMeta(13, <<Single(u8, <<Is(u16, 0), Is(u8, 0), address, Is(u8, 1), Is(u8, 2), u8, Is(u8, 127), u8, Is(u16, 0),
                               Is(u8, 0), Lit(<<0, 0, 0, 0, 0, 0>>), Sized(u8, <<Upto(229)>>)>>)>>),
   LePeriodicAdvertisingSyncEstablished |->
     LeMeta(14, <<Is(u8, 0), u16, u8, Is(u8, 0), address, Is(u8, 2), Is(u16, 0), Is(u8, 0)>>),
   LePeriodicAdvertisingReport |->
     LeMeta(15, <<u16, Is(u8, 127), Is(u8, 127), Is(u8, 255), Is(u8, 0), Sized(u8, <<Upto(247)>>)>>)]

BigEventsSent ==
  [LeBigInfoAdvertisingReport |->
     LeMeta(34, <<u16, u8, Is(u8, 3), Is(u16, 8), Is(u8, 1), Is(u8, 0), Is(u8, 2), u16, u24, u16, u8, u8, u8>>),
   LeCreateBigComplete |->
     LeMeta(27, <<u8, u8, Is(u24, 100000), Is(u24, 75000), Is(u8, 2), Is(u8, 3), Is(u8, 1), Is(u8, 0), Is(u8, 2),
                  Is(u16, 100), Is(u16, 8), Counted(u8, <<u16>>)>>),
   LeTerminateBigComplete |-> LeMeta(28, <<u8, u8>>),
   LeBigSyncEstablished |->
     LeMeta(29, <<u8, u8, Is(u24, 75000), Is(u8, 3), Is(u8, 1), Is(u8, 0), Is(u8, 2), Is(u16, 100), Is(u16, 8),
                  Counted(u8, <<u16>>)>>),
   LeBigSyncLost |-> LeMeta(30, <<u8, u8>>)]

\* A step measures one tone on each antenna path and one more: its phase as two numbers
\* of twelve bits, and its quality.
Tone == <<Bits(u24, <<W(12), W(12)>>), Is(u8, 0)>>
CsHandle == Bits(u16, <<W(12), Only(4, {0})>>)

CsEventsSent ==
  [LeCsConfigComplete |->
     LeMeta(47, <<Is(u8, 0), u16, u8, In(u8, {0, 1}), Is(u8, 2), Is(u8, 255), Is(u8, 19), Is(u8, 19), Is(u8, 0), Is(u8, 0),
                  u8, Is(u8, 0), Is(u8, 1), U(10), Is(u8, 1), Is(u8, 0), Is(u8, 0), Is(u8, 0), Is(u8, 0)>>),
   LeCsProcedureEnableComplete |->
     LeMeta(48, <<u8, u16, u8, In(u8, {0, 1}), Is(u8, 0), u8, Is(u24, 3392), Is(u8, 1), Is(u16, 0), Is(u16, 1), Is(u16, 1),
                  Is(u16, 0), Is(u16, 64)>>),
   LeCsSubeventResult |->
     LeMeta(49, <<CsHandle, u8, u16, u16, Is(u16, 65535), u8, Is(u8, 0), Is(u8, 0), Is(u8, 0), Is(u8, 0), Is(u8, 1),
                  Counted(u8, <<Is(u8, 2), u8, Sized(u8, <<Is(u8, 0)>> \o Tone \o Tone)>>)>>)]

StatusEventsSent ==
  [CommandStatus |-> EventPacket(15, <<u8, Is(u8, 1), u16>>),
   LeConnectionUpdateComplete |-> LeMeta(3, <<Is(u8, 0), u16, u16, u16, u16>>)]

HciEventsSent ==
  InquiryEventsSent @@ ConnectionEventsSent @@ SecurityEventsSent @@ LeEventsSent @@ AdvertisingEventsSent @@ BigEventsSent
    @@ CsEventsSent @@ StatusEventsSent

--------------------------------------------------------------------------------
\* HCI events, as the hosts read them: octets after the fields a host looks at, and
\* octets that are missing although the length counts them, are no error (parse_h4).
\* Mutant of EventRead: what is missing of an event is zero, as in a buffer of fixed size.
EventFilled(code, body) == <<Lit(<<4, code>>), Filled(u8, body)>>
EventRead(code, body) == <<Lit(<<4, code>>), Clamped(u8, body)>>
LeRead(subevent, body) == EventRead(62, <<Lit(<<subevent>>)>> \o body)

\* HciEvent::from_parameters.
LinkEventsRead ==
  [LeConnectionComplete |-> LeRead(1, <<u8, u16, u8, u8, address>>), LeLongTermKeyRequest |-> LeRead(5, <<u16, U(8), u16>>),
   EncryptionChange |-> EventRead(8, <<u8, u16, u8>>), DisconnectionComplete |-> EventRead(5, <<u8, u16, u8>>)]

StreamEventsRead ==
  [ConnectionRequest |-> EventRead(4, <<address, U(3), u8>>),
   ConnectionComplete |-> EventRead(3, <<u8, u16, address, u8, u8>>),
   SynchronousConnectionComplete |-> EventRead(44, <<u8, u16, address, u8, u8, u8, u16, u16, u8>>),
   LeCisRequest |-> LeRead(26, <<u16, u16, u8, u8>>), LeCisEstablished |-> LeRead(25, <<u8, u16>>),
   CommandComplete |-> EventRead(14, <<u8, u16, Rest>>)]

LeAdvertisingReportRead == [LeAdvertisingReport |-> LeRead(2, <<Kept(u8, <<u8, u8, address, Slack(u8, <<Rest>>), u8>>)>>)]

HciEvent == LinkEventsRead @@ StreamEventsRead @@ LeAdvertisingReportRead

\* handle_security_event takes octets at their places.
SecurityEventsRead ==
  [LinkKeyRequest |-> EventRead(23, <<address>>), LinkKeyNotification |-> EventRead(24, <<address, U(16), u8>>),
   IoCapabilityRequest |-> EventRead(49, <<address>>), IoCapabilityResponse |-> EventRead(50, <<Skip(6), u8>>),
   UserConfirmationRequest |-> EventRead(51, <<address, u32>>), UserPasskeyRequest |-> EventRead(52, <<address>>),
   UserPasskeyNotification |-> EventRead(59, <<Skip(6), u32>>), SimplePairingComplete |-> EventRead(54, <<u8>>),
   AuthenticationComplete |-> EventRead(6, <<u8>>)]

InquiryEventsRead ==
  [InquiryResult |-> EventRead(2, <<Kept(u8, <<address, Skip(1), Skip(2), U(3), Skip(2)>>)>>),
   InquiryComplete |-> EventRead(1, <<>>),
   RemoteNameRequestComplete |-> EventRead(7, <<Lit(<<0>>), address, Padded(248)>>)]

\* The events of extended and periodic advertising, of BIGs and of direction finding.
ExtendedEventsRead ==
  [LeExtendedAdvertisingReport |->
     LeRead(13, <<Some(u8, <<u16, u8, address, u8, u8, u8, u8, u8, u16, u8, Skip(6), Slack(u8, <<Rest>>)>>)>>),
   LePeriodicAdvertisingSyncEstablished |-> LeRead(14, <<u8, u16, u8, u8, address, u8, u16, u8>>),
   LePeriodicAdvertisingReport |-> LeRead(15, <<u16, u8, u8, u8, u8, Slack(u8, <<Rest>>)>>)]

BigSourceEventsRead ==
  [LeCreateBigComplete |-> LeRead(27, <<u8, u8, u24, u24, u8, u8, u8, u8, u8, u16, u16, Counted(u8, <<u16>>)>>),
   LeTerminateBigComplete |-> LeRead(28, <<u8, u8>>)]

BigSyncEventsRead ==
  [LeBigSyncEstablished |-> LeRead(29, <<u8, u8, u24, u8, u8, u8, u8, u16, u16, Counted(u8, <<u16>>)>>),
   LeBigSyncLost |-> LeRead(30, <<u8, u8>>),
   LeBigInfoAdvertisingReport |-> LeRead(34, <<u16, u8, u8, u16, u8, u8, u8, u16, u24, u16, u8, u8, u8>>)]

IqReports ==
  LET samples == Counted(u8, <<u8, u8>>)
  IN Shared([LeConnectionlessIqReport |-> LeRead(21, <<u16, u8, u16, u8, u8, u8, u8, u16, samples>>),
             LeConnectionIqReport |-> LeRead(22, <<u16, u8, u8, u16, u8, u8, u8, u8, u16, samples>>),
             LeCteRequestFailed |-> LeRead(23, <<u8, u16>>)])

\* Of a step the first tone is taken, and of a procedure's events their status.
CsEventsRead ==
  [LeCsConfigComplete |-> LeRead(47, <<u8>>), LeCsProcedureEnableComplete |-> LeRead(48, <<u8>>),
   LeCsSubeventResult |->
     LeRead(49, <<Bits(u16, <<W(12), W(4)>>), u8, Skip(2), u16, Skip(2), u8, Skip(1), Skip(1), Skip(1), Skip(1), u8,
                  Counted(u8, <<u8, u8, Slack(u8, <<Skip(1), Bits(u24, <<W(12), W(12)>>), u8>>)>>)>>)]

StatusEventsRead ==
  [CommandStatus |-> EventRead(15, <<Skip(1), Skip(1), u16>>), LePhyUpdateComplete |-> LeRead(12, <<Lit(<<0>>), Skip(2), u8, u8>>),
   LeConnectionUpdateComplete |-> LeRead(3, <<>>)]

HciEvents ==
  Apart(HciEventsSent,
        HciEvent @@ SecurityEventsRead @@ InquiryEventsRead @@ ExtendedEventsRead @@ BigSourceEventsRead
          @@ BigSyncEventsRead @@ CsEventsRead @@ StatusEventsRead)

--------------------------------------------------------------------------------
\* Advertising data: structures of a length, a type and what the type stands for.
AdTypes(uuids16, uuids128) ==
  (1 :> <<u8>>) @@ (8 :> <<Rest>>) @@ (9 :> <<Rest>>) @@ (3 :> <<uuids16>>) @@ (7 :> <<uuids128>>) @@ (22 :> <<u16, Rest>>)
    @@ (46 :> <<U(6)>>) @@ (255 :> <<u16, Rest>>)

AdvertisingDataSent == <<Items(<<Sized(u8, <<Choice(u8, AdTypes(Whole(<<u16>>), Whole(<<U(16)>>)))>>)>>)>>

\* decode_ad_structures: reads a few types nobody here sends, and drops half a UUID.
AdvertisingDataRead ==
  LET more == (2 :> <<Items(<<u16>>)>>) @@ (6 :> <<Items(<<U(16)>>)>>) @@ (10 :> <<u8>>)
  IN <<Items(<<Slack(u8, <<Choice(u8, AdTypes(Items(<<u16>>), Items(<<U(16)>>)) @@ more)>>)>>)>>

--------------------------------------------------------------------------------
\* LE Audio: values with a length and a type, in the announcement of a broadcast.
CodecSpecificConfiguration ==
  Items(<<Sized(u8, <<Choice(u8, (1 :> <<In(u8, 1 .. 13)>>) @@ (2 :> <<In(u8, {0, 1})>>) @@ (3 :> <<u32>>) @@ (4 :> <<u16>>) @@ (5 :> <<u8>>))>>)>>)

\* The number of streams stands before the rest of the subgroup, the streams after it.
Subgroup ==
  <<Over(Counted(u8, <<u8, Sized(u8, <<CodecSpecificConfiguration>>)>>),
         <<U(5), Sized(u8, <<CodecSpecificConfiguration>>), Sized(u8, <<Rest>>)>>)>>

BasicAudioAnnouncement == <<u24, Counted(u8, Subgroup)>>

--------------------------------------------------------------------------------
(***************************************************************************)
(* The classic profiles.                                                   *)
(***************************************************************************)

b16 == U(2)
b24 == U(3)
b32 == U(4)
b64 == U(8)

\* A message is a code and the layout it stands for, written and read.
Coded(codes, ws, rs) ==
  [k \in DOMAIN ws |-> [w |-> <<Lit(<<codes[k]>>)>> \o ws[k], r |-> <<Lit(<<codes[k]>>)>> \o rs[k]]]

--------------------------------------------------------------------------------
\* AVRCP: strings and lists with their length in front (Reader, put_*, write_*, read_*).
Put8 == Sized(u8, <<Rest>>)
Put16 == Sized(b16, <<Rest>>)
String8 == Slack(u8, <<Rest>>)
String16 == Slack(b16, <<Rest>>)
U8List == Counted(u8, <<u8>>)
U32List == Counted(u8, <<b32>>)
SettingList == Counted(u8, <<u8, u8>>)

MediaAttributeWritten == <<b32, b16, Put16>>
MediaAttributeRead == <<b32, b16, String16>>
SettingTextWritten == <<u8, b16, Put8>>
SettingTextRead == <<u8, b16, String8>>

\* Two numbers of a player are least significant octet first, among others that are not.
MediaPlayerItem(mode, string) == <<Counting(mode, b16, <<b16, u8, u32, u8, L(16), b16, string>>)>>
FolderItem(mode, playable, string) == <<Counting(mode, b16, <<b64, u8, playable, b16, string>>)>>
MediaElementItem(mode, string, attribute) == <<Counting(mode, b16, <<b64, u8, b16, string, Counted(u8, attribute)>>)>>
BrowseableItem(player, folder, element) == <<Choice(u8, (1 :> player) @@ (2 :> folder) @@ (3 :> element))>>
ItemWritten ==
  BrowseableItem(MediaPlayerItem("sized", Put16), FolderItem("sized", In(u8, {0, 1}), Put16),
                 MediaElementItem("sized", Put16, MediaAttributeWritten))
ItemRead ==
  BrowseableItem(MediaPlayerItem("slack", String16), FolderItem("slack", u8, String16),
                 MediaElementItem("slack", String16, MediaAttributeRead))

AvrcpPduId ==
  [GetCapabilities |-> 16, ListPlayerApplicationSettingAttributes |-> 17, ListPlayerApplicationSettingValues |-> 18,
   GetCurrentPlayerApplicationSettingValue |-> 19, SetPlayerApplicationSettingValue |-> 20,
   GetPlayerApplicationSettingAttributeText |-> 21, GetPlayerApplicationSettingValueText |-> 22,
   InformDisplayableCharacterSet |-> 23, InformBatteryStatusOfCt |-> 24, GetElementAttributes |-> 32, GetPlayStatus |-> 48,
   RegisterNotification |-> 49, RequestContinuingResponse |-> 64, AbortContinuingResponse |-> 65, SetAbsoluteVolume |-> 80,
   SetAddressedPlayer |-> 96, SetBrowsedPlayer |-> 112, GetFolderItems |-> 113, ChangePath |-> 114, GetItemAttributes |-> 115,
   PlayItem |-> 116, GetTotalNumberOfItems |-> 117, Search |-> 128, AddToNowPlaying |-> 144]

\* Command::to_parameters.
CommandWritten ==
  [GetCapabilities |-> <<u8>>, ListPlayerApplicationSettingAttributes |-> <<>>, ListPlayerApplicationSettingValues |-> <<u8>>,
   GetCurrentPlayerApplicationSettingValue |-> <<U8List>>, SetPlayerApplicationSettingValue |-> <<SettingList>>,
   GetPlayerApplicationSettingAttributeText |-> <<U8List>>, GetPlayerApplicationSettingValueText |-> <<u8, U8List>>,
   InformDisplayableCharacterSet |-> <<Counted(u8, <<b16>>)>>, InformBatteryStatusOfCt |-> <<u8>>,
   GetElementAttributes |-> <<b64, U32List>>, GetPlayStatus |-> <<>>, RequestContinuingResponse |-> <<u8>>,
   AbortContinuingResponse |-> <<u8>>, RegisterNotification |-> <<u8, b32>>, SetAbsoluteVolume |-> <<u8>>,
   SetAddressedPlayer |-> <<b16>>, SetBrowsedPlayer |-> <<b16>>, GetFolderItems |-> <<u8, b32, b32, U32List>>,
   ChangePath |-> <<b16, u8, b64>>, GetItemAttributes |-> <<u8, b64, b16, U32List>>, GetTotalNumberOfItems |-> <<u8>>,
   Search |-> <<b16, Put16>>, PlayItem |-> <<u8, b64, b16>>, AddToNowPlaying |-> <<u8, b64, b16>>]

\* Command::parse.
CommandRead ==
  [GetCapabilities |-> <<u8>>, ListPlayerApplicationSettingAttributes |-> <<>>, ListPlayerApplicationSettingValues |-> <<u8>>,
   GetCurrentPlayerApplicationSettingValue |-> <<U8List>>, SetPlayerApplicationSettingValue |-> <<SettingList>>,
   GetPlayerApplicationSettingAttributeText |-> <<U8List>>, GetPlayerApplicationSettingValueText |-> <<u8, U8List>>,
   InformDisplayableCharacterSet |-> <<Counted(u8, <<b16>>)>>, InformBatteryStatusOfCt |-> <<u8>>,
   GetElementAttributes |-> <<b64, U32List>>, GetPlayStatus |-> <<>>, RequestContinuingResponse |-> <<u8>>,
   AbortContinuingResponse |-> <<u8>>, RegisterNotification |-> <<u8, b32>>, SetAbsoluteVolume |-> <<u8>>,
   SetAddressedPlayer |-> <<b16>>, SetBrowsedPlayer |-> <<b16>>, GetFolderItems |-> <<u8, b32, b32, U32List>>,
   ChangePath |-> <<b16, u8, b64>>, GetItemAttributes |-> <<u8, b64, b16, U32List>>, GetTotalNumberOfItems |-> <<u8>>,
   Search |-> <<b16, String16>>, PlayItem |-> <<u8, b64, b16>>, AddToNowPlaying |-> <<u8, b64, b16>>]

AvrcpEvent ==
  Choice(u8, (1 :> <<u8>>) @@ (2 :> <<b64>>) @@ (3 :> <<Rest>>) @@ (4 :> <<Rest>>) @@ (5 :> <<b32>>) @@ (6 :> <<Rest>>)
               @@ (7 :> <<Rest>>) @@ (8 :> <<SettingList>>) @@ (9 :> <<>>) @@ (10 :> <<>>) @@ (11 :> <<b16, b16>>)
               @@ (12 :> <<b16>>) @@ (13 :> <<u8>>))

\* Response::to_parameters; a notification carries its event.
ResponseWritten ==
  [GetCapabilities |-> <<Choice(u8, (2 :> <<Counted(u8, <<b24>>)>>) @@ (3 :> <<U8List>>))>>,
   ListPlayerApplicationSettingAttributes |-> <<U8List>>, ListPlayerApplicationSettingValues |-> <<U8List>>,
   GetCurrentPlayerApplicationSettingValue |-> <<SettingList>>, SetPlayerApplicationSettingValue |-> <<>>,
   GetPlayerApplicationSettingAttributeText |-> <<Counted(u8, SettingTextWritten)>>,
   GetPlayerApplicationSettingValueText |-> <<Counted(u8, SettingTextWritten)>>, InformDisplayableCharacterSet |-> <<>>,
   InformBatteryStatusOfCt |-> <<>>, GetElementAttributes |-> <<Counted(u8, MediaAttributeWritten)>>,
   GetPlayStatus |-> <<b32, b32, u8>>, AbortContinuingResponse |-> <<>>, RegisterNotification |-> <<AvrcpEvent>>,
   SetAbsoluteVolume |-> <<u8>>, SetAddressedPlayer |-> <<u8>>,
   SetBrowsedPlayer |-> <<u8, b16, b32, b16, Counted(u8, <<Put16>>)>>, GetFolderItems |-> <<u8, b16, Counted(b16, ItemWritten)>>,
   ChangePath |-> <<u8, b32>>, GetItemAttributes |-> <<u8, Counted(u8, MediaAttributeWritten)>>,
   GetTotalNumberOfItems |-> <<u8, b16, b32>>, Search |-> <<u8, b16, b32>>, PlayItem |-> <<u8>>, AddToNowPlaying |-> <<u8>>]

\* Response::parse.
ResponseRead ==
  [GetCapabilities |-> <<Choice(u8, (2 :> <<Counted(u8, <<b24>>)>>) @@ (3 :> <<Counted(u8, <<u8>>)>>))>>,
   ListPlayerApplicationSettingAttributes |-> <<U8List>>, ListPlayerApplicationSettingValues |-> <<U8List>>,
   GetCurrentPlayerApplicationSettingValue |-> <<SettingList>>, SetPlayerApplicationSettingValue |-> <<>>,
   GetPlayerApplicationSettingAttributeText |-> <<Counted(u8, SettingTextRead)>>,
   GetPlayerApplicationSettingValueText |-> <<Counted(u8, SettingTextRead)>>, InformDisplayableCharacterSet |-> <<>>,
   InformBatteryStatusOfCt |-> <<>>, GetElementAttributes |-> <<Counted(u8, MediaAttributeRead)>>,
   GetPlayStatus |-> <<b32, b32, u8>>, AbortContinuingResponse |-> <<>>, RegisterNotification |-> <<AvrcpEvent>>,
   SetAbsoluteVolume |-> <<u8>>, SetAddressedPlayer |-> <<u8>>,
   SetBrowsedPlayer |-> <<u8, b16, b32, b16, Counted(u8, <<String16>>)>>, GetFolderItems |-> <<u8, b16, Counted(b16, ItemRead)>>,
   ChangePath |-> <<u8, b32>>, GetItemAttributes |-> <<u8, Counted(u8, MediaAttributeRead)>>,
   GetTotalNumberOfItems |-> <<u8, b16, b32>>, Search |-> <<u8, b16, b32>>, PlayItem |-> <<u8>>, AddToNowPlaying |-> <<u8>>]

AvrcpCommands == Coded(AvrcpPduId, CommandWritten, CommandRead)
AvrcpResponses == Coded(AvrcpPduId, ResponseWritten, ResponseRead)

--------------------------------------------------------------------------------
\* AV/C frames: subunit numbers above four do not fit the writer's frames.
CommandType == Only(4, 0 .. 4)
ResponseCode == Only(4, {8, 9, 10, 11, 12, 13, 15})
AvcHeader(code, opcode) ==
  <<Bits(u8, <<code, Only(4, {0})>>), Bits(u8, <<Only(3, (0 .. 4) \cup {7}), Only(5, (0 .. 31) \ {30})>>), Lit(<<opcode>>)>>

VendorDependent == <<b24, Rest>>
PassThroughWritten == <<Bits(u8, <<W(7), W(1)>>), Sized(u8, <<Rest>>)>>
PassThroughRead == <<Bits(u8, <<W(7), W(1)>>), Slack(u8, <<Rest>>)>>

AvcFrame ==
  [VendorCommand |-> [w |-> AvcHeader(CommandType, 0) \o VendorDependent, r |-> AvcHeader(CommandType, 0) \o VendorDependent],
   PassCommand |->
     [w |-> AvcHeader(CommandType, 124) \o PassThroughWritten, r |-> AvcHeader(CommandType, 124) \o PassThroughRead],
   VendorResponse |->
     [w |-> AvcHeader(ResponseCode, 0) \o VendorDependent, r |-> AvcHeader(ResponseCode, 0) \o VendorDependent],
   PassResponse |->
     [w |-> AvcHeader(ResponseCode, 124) \o PassThroughWritten, r |-> AvcHeader(ResponseCode, 124) \o PassThroughRead]]

--------------------------------------------------------------------------------
\* AVDTP: the header of a single packet, the signal, and what the message carries.
Signal ==
  [Discover |-> 1, GetCapabilities |-> 2, SetConfiguration |-> 3, GetConfiguration |-> 4, Reconfigure |-> 5, Open |-> 6,
   Start |-> 7, Close |-> 8, Suspend |-> 9, Abort |-> 10, SecurityControl |-> 11, GetAllCapabilities |-> 12, DelayReport |-> 13]
MessageType == [Command |-> 0, GeneralReject |-> 1, ResponseAccept |-> 2, ResponseReject |-> 3]
AvdtpHeader(type) == Bits(u8, <<Only(2, {MessageType[type]}), Only(2, {0}), W(4)>>)

SeidWritten == Bits(u8, <<Only(2, {0}), W(6)>>)
\* Mutant of SeidRead: the identifier is not shifted down.
SeidUnshifted == Bits(u8, <<W(6), W(2)>>)
SeidRead == Bits(u8, <<W(2), W(6)>>)
SepInfoWritten ==
  <<Bits(u8, <<Only(1, {0}), W(1), W(6)>>), Bits(u8, <<Only(3, {0}), Only(1, {0, 1}), Only(4, {0, 1, 2})>>)>>
SepInfoRead == <<Bits(u8, <<W(1), W(1), W(6)>>), Bits(u8, <<W(3), Only(1, {0, 1}), Only(4, {0, 1, 2})>>)>>

\* A list of capabilities; the codec is one with a layout of its own.
Codec == <<In(u8, {0, 1, 2}), u8, Rest>>
CapabilitiesWritten ==
  LET plain == <<Sized(u8, <<Rest>>)>>
  IN Items(<<Choice(u8, [c \in {1, 2, 3, 4, 5, 6, 8} |-> plain] @@ (7 :> <<Sized(u8, Codec)>>))>>)
CapabilitiesRead ==
  LET plain == <<Slack(u8, <<Rest>>)>>
  IN Whole(<<Choice(u8, [c \in {1, 2, 3, 4, 5, 6, 8} |-> plain] @@ (7 :> <<Slack(u8, Codec)>>))>>)

\* Message::to_payload and Message::parse: the first are the commands, the second the answers.
CommandsCarry(seid, capabilities) ==
  [Discover |-> <<>>, GetCapabilities |-> <<seid>>, GetAllCapabilities |-> <<seid>>,
   SetConfiguration |-> <<seid, seid, capabilities>>, GetConfiguration |-> <<seid>>, Reconfigure |-> <<seid, capabilities>>,
   Open |-> <<seid>>, Start |-> <<Items(<<seid>>)>>, Suspend |-> <<Items(<<seid>>)>>, Close |-> <<seid>>, Abort |-> <<seid>>,
   SecurityControl |-> <<seid, Rest>>, DelayReport |-> <<seid, b16>>]

AcceptsCarry(endpoint, capabilities) ==
  [k \in DOMAIN Signal |->
     CASE k = "Discover" -> <<Items(endpoint)>>
       [] k \in {"GetCapabilities", "GetAllCapabilities", "GetConfiguration"} -> <<capabilities>>
       [] OTHER -> <<>>]

\* Four signals are rejected with what was wrong besides the error.
RejectsCarry(seid) ==
  [k \in {"SetConfiguration", "Reconfigure"} |-> <<u8, u8>>] @@ [k \in {"Start", "Suspend"} |-> <<seid, u8>>]
    @@ [k \in {"GetCapabilities", "GetAllCapabilities", "GetConfiguration", "Open", "Close", "SecurityControl", "DelayReport"} |-> <<u8>>]

AvdtpSide(type, carry) == [k \in DOMAIN carry |-> <<AvdtpHeader(type), Lit(<<Signal[k]>>)>> \o carry[k]]
AvdtpWhole(c, a, r) == \* the messages of one side, under names of their own
  [x \in ({"command"} \X DOMAIN c) \cup ({"accept"} \X DOMAIN a) \cup ({"reject"} \X DOMAIN r) \cup {<<"general", "">>} |->
     CASE x[1] = "command" -> c[x[2]] [] x[1] = "accept" -> a[x[2]] [] x[1] = "reject" -> r[x[2]]
       [] OTHER -> <<AvdtpHeader("GeneralReject"), In(u8, 1 .. 13)>>]

AvdtpMessages ==
  Apart(AvdtpWhole(AvdtpSide("Command", CommandsCarry(SeidWritten, CapabilitiesWritten)),
                   AvdtpSide("ResponseAccept", AcceptsCarry(SepInfoWritten, CapabilitiesWritten)),
                   AvdtpSide("ResponseReject", RejectsCarry(SeidWritten))),
        AvdtpWhole(AvdtpSide("Command", CommandsCarry(SeidRead, CapabilitiesRead)),
                   AvdtpSide("ResponseAccept", AcceptsCarry(SepInfoRead, CapabilitiesRead)),
                   AvdtpSide("ResponseReject", RejectsCarry(SeidRead))))

--------------------------------------------------------------------------------
\* SDP data elements, nested to a depth: a header octet of a type and the way its size is
\* given.  The writer takes the short form of a size up to 255.
Fixed(type, index) == type * 8 + index
Numbers(type) == (Fixed(type, 0) :> <<u8>>) @@ (Fixed(type, 1) :> <<b16>>) @@ (Fixed(type, 2) :> <<b32>>) @@ (Fixed(type, 3) :> <<b64>>)
Leaves ==
  (Fixed(0, 0) :> <<>>) @@ Numbers(1) @@ Numbers(2) @@ (Fixed(3, 1) :> <<b16>>) @@ (Fixed(3, 2) :> <<b32>>)
    @@ (Fixed(3, 4) :> <<L(16)>>) @@ (Fixed(5, 0) :> <<In(u8, {0, 1})>>)
Strings(type) == (Fixed(type, 5) :> <<Sized(u8, <<Upto(255)>>)>>) @@ (Fixed(type, 6) :> <<Sized(b16, <<Between(256, 257)>>)>>)

RECURSIVE DataElement(_)
DataElement(depth) ==
  LET short == Leaves @@ (Fixed(4, 5) :> <<Sized(u8, <<Rest>>)>>)
      Nested(type) == Fixed(type, 5) :> <<Sized(u8, <<Whole(DataElement(depth - 1))>>)>>
  IN IF depth = 0 THEN <<Choice(u8, short)>> ELSE <<Choice(u8, short @@ Nested(6) @@ Nested(7))>>

SdpElements == Alone(<<Choice(u8, Leaves @@ Strings(4) @@ Strings(8) @@ DataElement(2)[1].of)>>)

\* SdpPdu::parameters and SdpPdu::parse.
SdpParameters(list) ==
  [ErrorResponse |-> <<1, <<b16>>>>, ServiceSearchRequest |-> <<2, DataElement(1) \o <<b16, Rest>>>>,
   ServiceSearchResponse |-> <<3, <<b16, Counted(b16, <<b32>>), Rest>>>>,
   ServiceAttributeRequest |-> <<4, <<b32, b16>> \o DataElement(1) \o <<Rest>>>>,
   ServiceAttributeResponse |-> <<5, <<list, Rest>>>>,
   ServiceSearchAttributeRequest |-> <<6, DataElement(0) \o <<b16>> \o DataElement(0) \o <<Rest>>>>,
   ServiceSearchAttributeResponse |-> <<7, <<list, Rest>>>>]

SdpSide(parameters, mode) ==
  [k \in DOMAIN parameters |-> <<Lit(<<parameters[k][1]>>), b16, Counting(mode, b16, parameters[k][2])>>]
SdpPdus ==
  Apart(SdpSide(SdpParameters(Sized(b16, <<Rest>>)), "sized"), SdpSide(SdpParameters(Slack(b16, <<Rest>>)), "slack"))

--------------------------------------------------------------------------------
\* OBEX headers: text, octets, one octet or four, by the upper bits of the identifier.  The
\* length of a header, like that of a packet, counts the identifier and itself.
HeaderId ==
  [Name |-> 1, Description |-> 5, Type |-> 66, Target |-> 70, Body |-> 72, EndOfBody |-> 73, Who |-> 74, AppParameters |-> 76,
   AuthChallenge |-> 77, AuthResponse |-> 78, OtherBytes |-> 81, SingleResponseMode |-> 151, OtherByte |-> 152, Count |-> 192,
   Length |-> 195, ConnectionId |-> 203, OtherText |-> 6, OtherFour |-> 196]
Prefixed(mode, of) == Biased(Counting(mode, b16, of), 3)
HeaderEncoding(mode, identifier) ==
  CASE identifier < 64 -> <<Prefixed(mode, <<Text>>)>>
    [] identifier \in 64 .. 127 -> <<Prefixed(mode, <<Rest>>)>>
    [] identifier \in 128 .. 191 -> <<u8>>
    [] OTHER -> <<b32>>
ObexHeaders(mode) == Whole(<<Choice(u8, [i \in {HeaderId[k] : k \in DOMAIN HeaderId} |-> HeaderEncoding(mode, i)])>>)

ConnectFields == <<u8, u8, b16>>
RequestSide(mode) ==
  LET Asks(opcode, final, fields) ==
        <<Bits(u8, <<Only(7, {opcode}), Only(1, final)>>), Prefixed(mode, fields \o <<ObexHeaders(mode)>>)>>
  IN [Connect |-> Asks(0, {1}, ConnectFields), Disconnect |-> Asks(1, {1}, <<>>), Put |-> Asks(2, {0, 1}, <<>>),
      Get |-> Asks(3, {0, 1}, <<>>), SetPath |-> Asks(5, {1}, <<u8, u8>>), Abort |-> Asks(127, {1}, <<>>)]
\* The answer to a Connect is read as one: its fields are there when it succeeds.
ResponseSide(mode) ==
  LET Answers(code, fields) == <<Lit(<<code>>), Prefixed(mode, fields \o <<ObexHeaders(mode)>>)>>
  IN [Continue |-> Answers(144, <<>>), Success |-> Answers(160, <<>>), BadRequest |-> Answers(192, <<>>),
      Forbidden |-> Answers(195, <<>>), NotFound |-> Answers(196, <<>>), ServiceUnavailable |-> Answers(211, <<>>)]
ConnectResponseSide(mode) ==
  [ResponseSide(mode) EXCEPT !.Success = <<@[1], Prefixed(mode, ConnectFields \o <<ObexHeaders(mode)>>)>>]

ObexRequests == Apart(RequestSide("sized"), RequestSide("slack"))
ObexResponses == Apart(ResponseSide("sized"), ResponseSide("slack"))
ObexConnectResponses == Apart(ConnectResponseSide("sized"), ConnectResponseSide("slack"))

--------------------------------------------------------------------------------
\* HID: the kind in the upper half of the first octet, its parameter in the lower one.
HidHeader(param, kind) == Bits(u8, Append(param, Only(4, {kind})))
HidMessageWritten ==
  LET report == <<W(2), Only(1, {0}), Only(1, {0})>>
  IN [Handshake |-> <<HidHeader(<<W(4)>>, 0)>>, Control |-> <<HidHeader(<<W(4)>>, 1)>>,
      GetReport |-> <<HidHeader(report, 4), u8>>, GetReportSized |-> <<HidHeader(<<W(2), Only(1, {0}), Only(1, {1})>>, 4), u8, u16>>,
      SetReport |-> <<HidHeader(report, 5), Rest>>, GetProtocol |-> <<HidHeader(<<Only(4, {0})>>, 6)>>,
      SetProtocol |-> <<HidHeader(<<W(1), Only(3, {0})>>, 7)>>, Data |-> <<HidHeader(report, 10), Rest>>]
HidMessageRead ==
  LET report == <<W(2), W(1), W(1)>>
  IN [Handshake |-> <<HidHeader(<<W(4)>>, 0)>>, Control |-> <<HidHeader(<<W(4)>>, 1)>>,
      GetReport |-> <<HidHeader(<<W(2), W(1), Only(1, {0})>>, 4), u8>>,
      GetReportSized |-> <<HidHeader(<<W(2), W(1), Only(1, {1})>>, 4), u8, u16>>,
      SetReport |-> <<HidHeader(report, 5), Rest>>, GetProtocol |-> <<HidHeader(<<W(4)>>, 6)>>,
      SetProtocol |-> <<HidHeader(<<W(1), W(3)>>, 7)>>, Data |-> <<HidHeader(report, 10), Rest>>]
HidMessages == Apart(HidMessageWritten, HidMessageRead)

--------------------------------------------------------------------------------
\* RFCOMM frames: address, control, length, information and check sum.  The credits of a
\* frame are in front of its data and not counted; the reader does not look at the length.
FrameType == [SABM |-> 47, UA |-> 99, DM |-> 15, DISC |-> 67, UIH |-> 239]
RfcommHeader(type, final) == <<Bits(u8, <<Only(1, {1}), W(1), W(6)>>), Is(u8, FrameType[type] + 16 * final)>>
RfcommSide(credited) ==
  LET Bare(type) == <<Sealed(3, RfcommHeader(type, 1) \o <<Total(Ea, <<Upto(0)>>)>>)>>
      Uih(final, information) == <<Sealed(2, RfcommHeader("UIH", final) \o <<information>>)>>
  IN [SABM |-> Bare("SABM"), UA |-> Bare("UA"), DM |-> Bare("DM"), DISC |-> Bare("DISC"),
      Data |-> Uih(0, Total(Ea, <<Upto(200)>>)), Credits |-> Uih(1, credited)]
RfcommFrames == LET credited == Total(Ea, <<u8, Rest>>) IN Apart(RfcommSide(Biased(credited, -1)), RfcommSide(credited))

\* Commands of the multiplexer, in the information of a frame.
Mcc(mode, type, of) == <<Bits(u8, <<Only(1, {1}), W(1), Only(6, {type})>>), Counting(mode, Ea, of)>>
MccPn(credits) == <<u8, u8, u8, u8, u16, u8, credits>>
MccMscWritten == <<Bits(u8, <<Only(2, {3}), W(6)>>), Bits(u8, <<Only(1, {1}), W(1), W(1), W(1), Only(2, {0}), W(1), W(1)>>)>>
MccMscRead == <<Bits(u8, <<W(2), W(6)>>), Bits(u8, <<W(1), W(1), W(1), W(1), W(2), W(1), W(1)>>)>>
MccCommands ==
  Apart([Pn |-> Mcc("sized", 32, MccPn(In(u8, 0 .. 7))), Msc |-> Mcc("sized", 56, MccMscWritten), Nsc |-> Mcc("sized", 4, <<u8>>)],
        [Pn |-> Mcc("slack", 32, MccPn(u8)), Msc |-> Mcc("slack", 56, MccMscRead), Nsc |-> Mcc("slack", 4, <<Rest>>)])

--------------------------------------------------------------------------------
\* LMP: the transaction in the lowest bit of the first octet.
Lmp(opcode) == Bits(u8, <<W(1), Only(7, {opcode})>>)
LmpAnswers ==
  [HostConnectionReq |-> <<Lmp(51)>>, Accepted |-> <<Lmp(3), u8>>, NotAccepted |-> <<Lmp(4), u8, u8>>]
LmpFeatures == [FeaturesReq |-> <<Lmp(39)>>, FeaturesRes |-> <<Lmp(40), U(8)>>]
LmpMessages == Shared(LmpAnswers @@ LmpFeatures)

\* RTP without contributing sources, extension or padding, as written here, and the
\* octet in front of SBC frames.
MediaPacket == Alone(<<Bits(u8, <<Only(4, {0}), Only(1, {0}), Only(1, {0}), Only(2, {2})>>), Bits(u8, <<W(7), W(1)>>), b16, b32, b32, Rest>>)
SbcPayload == Alone(<<Bits(u8, <<W(4), Only(1, {0}), W(1), W(1), W(1)>>), Rest>>)

================================================================================
