--------------------------- MODULE MCRtmpCommands ---------------------------
(* RtmpCommands with a small client for TLC.                                   *)
EXTENDS RtmpCommands, AmfCodec

(* The texts of the client are numbers of one digit.                           *)
Strtol(text) == IF text = "3" THEN 3 ELSE 0

Request(type, document, value, kinds) ==
  [type |-> type, document |-> document, value |-> value, kinds |-> kinds]

Call(name, arguments) == Request("command", <<String(name)>> \o arguments, 0, {})
Metadata(document) == Request("data", document, 0, {})

(* An object without pairs, which a client writes out, comes before the field  *)
(* the answer depends on.                                                      *)
SmallConnects ==
  {Call("connect", <<Object(<< <<"tcUrl", String("app")>>, <<"caps", Object(<<>>)>>,
                               <<"objectEncoding", Number(3)>> >>)>>),
   Call("connect", <<Object(<< <<"fpad", Boolean(FALSE)>>, <<"tcUrl", String("query")>> >>)>>)}

SmallRequests ==
  {Call("createStream", <<Null>>),
   Call("releaseStream", <<Undefined, String("s1")>>),
   Call("FCPublish", <<Null, String("s1")>>),
   Call("publish", <<Null, String("s2"), String("live")>>),
   Call("publish", <<Null, String("")>>),
   Metadata(<<String("@setDataFrame"), String("onMetaData"),
              Array(<< <<"width", Number(2)>>, <<"videocodecid", Number(7)>>,
                       <<"audiochannels", String("stereo")>>, <<"maxBitrate", String("3")>>,
                       <<"videodevice", String("XSplitBroadcaster")>> >>)>>),
   Metadata(<<String("@setDataFrame"), String("onMetaData"),
              Object(<< <<"audiocodecid", String("mp4a")>>, <<"bitrate", Number(5)>>,
                        <<"framerate", Number(25)>>, <<"audiodatarate", Number(1)>> >>)>>),
   Metadata(<<String("@setDataFrame"), String("onMetaData"),
              Object(<< <<"encoder", String("Lavf")>>, <<"videodatarate", Number(4)>> >>)>>),
   Metadata(<<String("onMetaData"), Array(<< <<"width", Number(9)>> >>)>>),
   Request("window", <<>>, 3, {}),
   Request("media", <<>>, 0, {"video", "audio"})}
=============================================================================
