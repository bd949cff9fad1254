---------------------------- MODULE MCEdgeBridge ----------------------------
(* EdgeBridge with a frame interval of three polls, devices that can and   *)
(* cannot be used, and JPEGs that pass and fail the scan of their markers. *)
EXTENDS EdgeBridge

Url == [scheme |-> "ws", parts |-> {"host", "port"}, path |-> "/camera/v1/stream"]
Config == [url |-> Url, absolute_device |-> TRUE, connect |-> 1, io |-> 4, initial |-> 1, max |-> 5]
MCConfigs ==
  {Config,
   [Config EXCEPT !.io = 3, !.initial = 3, !.max = 1],
   [Config EXCEPT !.url = None], [Config EXCEPT !.absolute_device = FALSE]}
     \cup {[Config EXCEPT !.url = url] :
              url \in {[Url EXCEPT !.scheme = "wss"], [Url EXCEPT !.path = "/"],
                      [Url EXCEPT !.parts = {"host"}], [Url EXCEPT !.parts = @ \cup {"query"}]}}

MCTexts ==
  {[bytes |-> 120, object |-> Descriptor],
   [bytes |-> 120, object |-> [Descriptor EXCEPT !.fps = 25]]}

Marker(marker, length, left, size) ==
  [marker |-> marker, length |-> length, left |-> left, size |-> size]
Comment == Marker(254, 4, 40, NoSize)
Restart == Marker(208, 0, 40, NoSize)
Frame(size) == Marker(192, 11, 30, size)
Jpeg(markers) == [bytes |-> 100, soi |-> TRUE, eoi |-> TRUE, markers |-> markers]

MCJpegs ==
  {Jpeg(<<Frame(FrameSize)>>),
   Jpeg(<<Comment, Restart, Frame(FrameSize), Marker(218, 4, 20, NoSize)>>),
   Jpeg(<<Comment, Frame(<<1280, 720>>), Frame(FrameSize)>>),
   Jpeg(<<Marker(218, 4, 40, NoSize), Frame(FrameSize)>>)}

Loopback ==
  [char_device |-> TRUE, capabilities |-> {"device_caps", "video_output"},
   device_caps |-> {"video_output", "readwrite"}, format |-> "MJPG", size |-> FrameSize]
MCDevices ==
  {Loopback, [Loopback EXCEPT !.device_caps = {"video_output"}],
   [Loopback EXCEPT !.format = "YUYV"]}
=============================================================================
