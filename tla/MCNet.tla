------------------------------- MODULE MCNet --------------------------------
(* A host `me' on a network with `peer', which is also its gateway.               *)
EXTENDS Net, TLC

CONSTANTS t1, t2, s1, s2, s3, s4

MCPrefix == ("any" :> "zero") @@ ("all" :> "ones") @@ ("lo" :> "loop") @@ ("me" :> "lan")
            @@ ("peer" :> "lan") @@ ("far" :> "wan")

Req(op, s, addr, port, how) == [op |-> op, sock |-> s, addr |-> addr, port |-> port, how |-> how]
SetAddr == Req("setaddr", None, "me", 0, "none")
SetMask == Req("setmask", None, None, 0, "none")
SetRoute == Req("addroute", None, "peer", 0, "none")
Down == Req("down", None, None, 0, "none")
BindTo(s, addr, port) == Req("bind", s, addr, port, "none")
Send(s, addr, port) == Req("sendmsg", s, addr, port, "none")
Writing(s) == Req("write", s, None, 1, "none")
Conn(s, addr) == Req("connect", s, addr, 0, "none")
Recv(s, how) == Req("recvmsg", s, None, 0, how)
Read(s, how) == Req("read", s, None, 0, how)
Shut(s) == Req("close", s, None, 0, "none")
Opt(s, op) == Req(op, s, None, 0, "none")

Script(one, two, frames) == [calls |-> (t1 :> one) @@ (t2 :> two), inbound |-> frames]

Echo == Frame("echo", "peer", "me", 0)
Who == Frame("request", "peer", "me", 0)
Udp(port) == Frame("udp", "peer", "me", port)
Unknown == Frame("other", "far", "me", 0)

MCScripts == {
  \* the address is configured while others send and are pinged
  Script(<<SetAddr, SetMask, SetRoute, Send(s2, "peer", 1)>>, <<Send(s1, "far", 1), Send(s1, "me", 1)>>, {Echo, Who}),
  \* a socket that receives, from outside and from this host, in every way
  Script(<<BindTo(s1, "any", 1), Recv(s1, "block"), Recv(s1, "nonblock")>>,
         <<Conn(s1, "lo"), Send(s2, "lo", 1), Writing(s1)>>, {Udp(1)}),
  Script(<<BindTo(s1, "lo", 1), Recv(s1, "block"), Shut(s1)>>,
         <<Send(s2, "lo", 1), Recv(s1, "block")>>, {Udp(1)}),
  Script(<<BindTo(s1, "any", 1), Read(s1, "block"), Recv(s1, "dontwait")>>,
         <<Send(s1, "lo", 1), Read(s1, "nonblock")>>, {Udp(1)}),
  \* ports given out, released and given out again
  Script(<<BindTo(s3, "any", 1), Shut(s3), Send(s1, "lo", 1), Shut(s1)>>,
         <<Send(s2, "lo", 1), BindTo(s2, "any", 0), Shut(s2)>>, {}),
  \* a socket that is closed while another thread sends with it, and ports given out
  \* while the byte of its port is read and written
  Script(<<Send(s1, "lo", 1), BindTo(s2, "any", 0)>>, <<Shut(s1), BindTo(s3, "any", 0)>>, {}),
  Script(<<BindTo(s4, "any", 1), Shut(s4)>>, <<BindTo(s1, "any", 0), BindTo(s2, "any", 0), BindTo(s3, "any", 0)>>, {}),
  \* a socket connected and never bound
  Script(<<Conn(s1, "lo"), Writing(s1)>>, <<Recv(s1, "block"), Shut(s1)>>, {Udp(2)}),
  \* more ports given out than there are, and then one released
  Script(<<BindTo(s1, "any", 0), BindTo(s2, "any", 0), BindTo(s3, "any", 0), BindTo(s3, "any", 0),
           BindTo(s4, "any", 0), Shut(s2)>>, <<>>, {}),
  \* the address of a bound socket goes away; broadcasts
  Script(<<SetAddr, SetMask, BindTo(s1, "me", 1), Send(s1, "far", 1), Down>>,
         <<Opt(s2, "todevice"), Opt(s2, "broadcast"), Send(s2, "all", 1)>>, {Unknown, Udp(1)})
}
=============================================================================
