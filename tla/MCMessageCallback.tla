-------------------------- MODULE MCMessageCallback --------------------------
\* Every key with the values at its limits, every shape of topic, senders of our own
\* among them, and payloads from empty to too long.
EXTENDS MessageCallback

MCIntMin == -1024

Message(topic, long, payload, size) ==
    [topic |-> topic, longTopic |-> long, payload |-> payload, size |-> size]
Number(key, halves) == [key |-> key, kind |-> "number", value |-> halves]
String(key, text) == [key |-> key, kind |-> "string", value |-> text]
To(device) == <<device, "client">>

Numbers == {<<"aircon", "settemp", {30, 32, 45, 60, 62}>>,
            <<"aircon", "alert+", {-112, -110, 250, 252}>>,
            <<"aircon", "ontimer", {-2, 0, 1440, 1442, 5000}>>,
            <<"light", "bright", {-1, 0, 1, 2, 3}>>,
            <<"light", "timer", {0, 2, 1440, -2048, -5000}>>}

Numeric == UNION {{Message(To(t[1]), FALSE, Number(t[2], v), 1) : v \in t[3]} : t \in Numbers}

Texts == {Message(To("aircon"), FALSE, String(k, v), 1) :
            k \in {"power", "mode", "get"}, v \in {"on", "cool", "temperature"}}
           \cup {Message(To("switch"), FALSE, String(k, v), 1) :
                   k \in {"power", "enable"}, v \in {"off", "true"}}

Command == String("power", "on")
Sizes == {Message(To("switch"), FALSE, Command, n) : n \in 1 .. 5}
           \cup {Message(To("switch"), FALSE, Garbage, n) : n \in {0, 2}}
Topics == {Message(t, FALSE, Command, 2) :
             t \in {<<"light", "long">>, <<"light", "">>, <<"ours">>, <<"ours", "client">>,
                    <<"light", "client", "light">>, <<"light", "ours">>}}
            \cup {Message(To("light"), TRUE, Command, 2)}

MCMessages == Numeric \cup Texts \cup Sizes \cup Topics
=============================================================================
