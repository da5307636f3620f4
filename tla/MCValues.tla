------------------------------- MODULE MCValues -------------------------------
(* Values for TLC of the constants of Battery and of Suite, by themselves: a  *)
(* module that instantiates the two gives the values to its own constants.    *)
EXTENDS Naturals

\* The confs between them expose every pass and take every branch; a conf that
\* exposes all twelve passes at once only multiplies the verdicts.
MCConf(fields) ==
  [f \in {"exists", "parses", "base", "ssh", "bin", "r555", "h265", "sign", "rec",
          "host6", "rlat", "drift"} |-> f \in fields]
MCManaged == {"exists", "parses", "base", "ssh", "bin"}

MCVideo     == MCConf(MCManaged \cup {"r555", "h265"})
MCHevcOnly  == MCConf(MCManaged \cup {"h265"})
MCRecorder  == MCConf(MCManaged \cup {"rec", "host6"})
MCMeasured  == MCConf(MCManaged \cup {"sign", "rlat", "drift"})
MCUnmanaged == MCConf({"exists", "parses", "r555", "host6", "h265", "rlat", "drift"})
MCNoSsh     == MCConf({"exists", "parses", "base", "r555", "sign", "host6"})
MCMissing   == MCConf({})
MCBroken    == MCConf({"exists"})

MCFirst  == {MCVideo, MCHevcOnly, MCRecorder, MCMeasured, MCUnmanaged, MCNoSsh, MCMissing, MCBroken}
MCSecond == {MCBroken}
MCConfs  == <<MCFirst, MCSecond>>

MCSome == {1 .. 12, {2, 5, 7, 12}}

\* --only patterns that match everything, one of the keys alone, or one or two of
\* those that depend on each other; the flags in any combination.
MCLinked == {"signaling", "auth", "soak", "avts", "drift", "content", "fuzz",
             "restream", "mjpeg", "daynight", "colorcast", "mpv", "reccheck"}
MCFree   == {"transports", "wire", "sessions", "rfc", "concurrency", "regression",
             "kill", "health", "join", "ortsp", "slow", "rhd", "backchannel",
             "srt", "tls", "rtmp", "webrtc", "frigate"}
MCOnly   == {MCLinked \cup MCFree} \cup {{k, l} : k, l \in MCLinked}
MCKeys   == {{k} : k \in MCLinked \cup MCFree}
MCFlags  == SUBSET {"core", "soak", "restreamer", "cast"}
MCPlain  == {{}}
=============================================================================
