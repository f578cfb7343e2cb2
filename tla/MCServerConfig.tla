--------------------------- MODULE MCServerConfig ---------------------------
EXTENDS ServerConfig

MCPlainLines ==
  {<<"[LOG]", NL>>, <<"[levelcount]", NL>>, <<NL>>,
   <<"LOGNUM", "=", "1", NL>>,
   <<" ", "lognum", " ", "=", " ", "2", NL>>,
   <<"LOGNUM", "=", "0", NL>>,
   <<"LOGNUM", "=", NL>>,
   <<"x", "LOGNUM", "=", "3", NL>>,
   <<"LOGNUM", "x", "=", "3", NL>>,
   <<"LOGSIZE", "=", "2", NL>>,
   <<"RANDCOUNT", "=", "0", NL>>}

MCOddLines ==
  {<<"#", " ", "LOGNUM", "=", "2", NL>>,
   <<"x", "=", " ", "LOGNUM", NL>>,
   <<"LOGNUM", " ", "x", "=", "2", NL>>,
   <<"RANDCOUNT", "=", "1">>}
=============================================================================
