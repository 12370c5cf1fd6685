--------------------------- MODULE MCVlessStream ---------------------------
(* Connections whose peers frame two or three cells of payload in the ways *)
(* that differ for the code; the socket cuts every one of them anywhere.   *)
EXTENDS VlessStream

Data(v) == Cell("data", v, 0, 0)
Class(v, n) == Cell("data", v, n, 0)
Padding(n) == [i \in 1..n |-> Cell("pad", 0, 0, 0)]
Response(addon) == <<Cell("ver", 0, 0, 0), Cell("add", 0, addon, 0)>> \o Padding(addon)
Ws(opcode, body) == <<Cell("ws", opcode, Len(body), 0)>> \o body
Msg(body) == <<Cell("msg", 0, Len(body), 0)>> \o body
Rec(body) == <<Cell("rec", 0, 0, 0), Cell("len", 0, Len(body), 0)>> \o body
Frame(command, body, padding) == <<Cell("cmd", command, Len(body), padding)>> \o body \o Padding(padding)
Id == <<Cell("id", 0, 0, 0)>>
Up(status) == <<Cell("hdr", 0, 0, 0), Cell("up", status, 0, 0)>>
Status(code) == <<Cell("resp", code, 0, 0)>>
Link(kind, wire, up) == [kind |-> kind, wire |-> wire, up |-> up, fast |-> FALSE]
Fast(kind, wire, up) == [Link(kind, wire, up) EXCEPT !.fast = TRUE]

Plain == <<Data(1), Data(2)>>
Hello(n) == <<Class(1, HelloStart), Class(2, n)>>
OverTls == <<Class(11, ClientHello), Class(12, AppData), Class(13, AppData)>>

TcpLinks == {Link("tcp", Response(1) \o Plain, Plain),
             Link("tcp", <<Cell("ver", 1, 0, 0), Cell("add", 0, 0, 0)>>, <<>>)}
WsLinks == {Link("ws", Up(101) \o Ws(2, Response(0) \o <<Data(1)>>) \o Ws(9, <<>>) \o Ws(0, <<Data(2)>>)
                       \o Ws(8, <<>>), Plain),
            Fast("ws", Up(101) \o Ws(2, Response(0)) \o Ws(10, <<>>) \o Ws(2, Plain), Plain),
            Fast("raw", Up(101) \o Response(1) \o Plain, Plain),
            Link("ws", Up(101) \o Ws(1, Response(0)), <<>>),
            Link("raw", Up(404), Plain)}
GrpcLinks == {Link("grpc", Status(200) \o Msg(Response(0) \o <<Data(1)>>) \o Msg(<<>>) \o Msg(<<Data(2)>>), Plain),
              Link("grpc", Status(404), <<>>),
              Link("grpc", Status(200) \o <<Cell("msg", 1, 1, 0), Data(1)>>, <<>>)}
VisionLinks == {
    \* direct copying after a TLS 1.3 handshake, in records of their own
    Link("vision", Rec(Response(0) \o Id \o Frame(0, Hello(Hello13), 1)) \o Rec(Frame(2, <<Data(3)>>, 1))
                   \o <<Data(4), Data(5)>>, OverTls),
    \* a frame spread over two records, an empty record between; no direct copying with TLS 1.2
    Link("vision", Rec(Response(1) \o Id) \o Rec(<<>>) \o Rec(Frame(0, Hello(Hello12), 0)) \o Rec(Frame(1, <<>>, 1) \o <<Data(3)>>)
                   \o Rec(<<Data(4)>>), OverTls),
    \* no TLS inside, padded to the end
    Link("vision", Rec(Response(0) \o Id \o Frame(0, <<Data(1)>>, 0)) \o Rec(Frame(0, <<Data(2)>>, 0)), Plain),
    \* an unframed downlink, and one that is too short
    Link("vision", Rec(Response(0) \o <<Data(1)>>) \o Rec(<<Data(2), Data(3)>>), Plain),
    Link("vision", Rec(Response(0) \o <<Data(1)>>), Plain),
    Link("vision", Rec(Response(0) \o Id \o Frame(3, <<>>, 0)), <<>>)}

MCLinks == TcpLinks \union WsLinks \union GrpcLinks \union VisionLinks
=============================================================================
