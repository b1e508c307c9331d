---------------------------- MODULE KeyPrefixMap ----------------------------
(***************************************************************************)
(* The numbers of bucket_prefixmap.go.  PrefixMap.tla shows for any hash   *)
(* what the search of generate/main.go finds; here the file that is in the *)
(* repository, which nothing generates anew, is held against SHA-256: 9600 *)
(* of its 65536 entries, in four parts, the last of them its end.          *)
(*                                                                         *)
(* A caller goes through the prefixes of a part, one after the other, and  *)
(* makes a peer ID of each, while the search goes through the candidates,  *)
(* from 0 on, as many as there are entries here.                           *)
(***************************************************************************)
EXTENDS Sha256

VARIABLE targetPrefix  \* of the peer ID that is made

\* From prefix 2336 on.
keyPrefixMap1 == <<
    42472,13150,108317,106038,5266,1004,31351,41691,20834,27119,14871,42058,19309,18264,15714,128645,33753,97813,14991,36632,127182,38788,23800,23029,134259,141169,22689,9008,35810,85196,80190,175150,
    41805,96633,36654,189935,45878,63838,3242,5356,312001,228710,66129,4509,14881,203932,11812,70030,47757,276830,122405,33146,49251,2261,162697,5363,120050,24738,211941,21746,44252,31697,2242,4877,
    3708,85573,85060,82434,25856,115291,56583,56567,107864,962,58671,54581,120347,39508,201071,94108,1228,71194,12513,225594,36550,6911,160283,35838,41682,115576,28022,16436,34496,5034,74108,10228,
    47025,11047,141530,3837,8393,65028,55696,31079,173365,61729,57479,106029,246526,10526,54647,134609,12894,3537,244,16862,161607,118386,60183,141700,35670,22051,179401,24135,90785,29822,122577,87924,
    126572,2459,80584,28905,2095,87804,54240,102268,124731,60006,15202,109796,157033,21466,164665,37695,58694,81513,83134,208222,554,5651,7656,87297,12786,33576,15075,146538,9642,40949,163656,9760,
    4817,21064,83245,14829,16136,95061,68060,24365,47864,1179,105850,5322,174698,19385,5399,111971,66992,363067,36771,86468,4639,166195,77004,80406,69284,96401,199722,27643,10625,105066,89724,58878,
    40710,29791,24556,99909,27763,9231,35125,110086,51738,12458,116193,41661,30404,41774,96495,7041,264105,37287,172797,19867,137904,45042,61041,151622,109882,58327,51284,132939,52487,238,24806,356262,
    42824,71570,114506,221874,57514,290906,425324,6771,2740,77666,51262,18017,10479,14457,11137,19547,146799,74299,1986,193822,107390,66292,13142,8549,16586,41783,4738,83585,88038,9102,61338,33010,
    174951,5451,103430,20873,9410,71603,254445,29027,16185,19139,109385,57580,44158,18457,29275,116743,5568,32928,91629,19307,40658,229962,46426,15411,46108,30487,67181,20224,12763,92267,69682,41491,
    97385,46327,89571,20801,26175,104473,82178,53280,108859,90329,60749,15258,664,104876,189856,72942,230732,51261,34901,19996,67470,20008,38335,18089,46663,52358,14286,59726,14395,26243,124071,9514,
    50750,71549,45061,44126,141320,2803,58061,44739,93140,659,64128,26178,15361,168531,40344,8977,47997,172770,68707,16055,55784,23990,20994,19090,6791,21011,244531,47352,307840,16546,63361,164913,
    118569,30189,34941,229229,107326,24202,160409,1575,18056,16156,162544,1298,58281,140814,38998,4285,260415,19797,24212,11490,54691,125241,149765,53575,8790,98579,39432,49317,73332,17200,47059,6532,
    45633,17042,110013,4418,7511,26786,2639,40536,45674,39902,37280,138726,143373,16114,16063,95339,14031,18222,148011,134245,11799,36311,103728,15146,94491,24149,24405,126162,35646,2622,13619,190698,
    96544,59993,46574,579,14560,43052,125756,11698,26049,139612,76126,94179,32983,27506,5021,32417,25791,73423,53795,119140,83814,24222,419,60678,42094,36193,71555,167797,231370,39846,78400,68056,
    63955,1124,59895,8546,139212,47144,37860,26891,2359,163343,60583,105848,169908,4972,13013,132896,3108,44849,132211,4330,183486,14009,10090,75230,105867,102476,3031,44769,28197,21633,23419,68902,
    32941,109556,36098,52255,124968,209278,40772,6698,26402,57023,171822,87578,88267,23469,27050,64577,149768,71917,89979,16941,23053,7594,106397,125192,3078,35227,9172,18615,19091,182038,12549,48594,
    52924,6894,86017,20427,25383,22580,75986,18233,19209,61027,86544,26111,111548,24619,166688,24272,97361,51184,78541,14792,3959,2430,71174,280134,24880,85091,19069,48720,235061,148747,27783,40579,
    9099,95152,259500,59221,24921,73721,170222,102157,161254,66033,357515,82190,151405,105610,28252,213067,20508,97281,6878,87399,7159,45662,182676,27626,34381,71179,112126,12802,20133,56316,50576,70823,
    11434,14879,96554,27582,74036,24193,21984,147179,19974,41451,8452,161213,34769,115,18749,115303,36585,8710,130627,54462,1076,15711,78215,45693,22454,41595,35658,31785,17354,64339,5699,30987,
    38727,113863,1046,127166,235160,27501,82135,137484,111547,143478,71619,20477,96454,65400,93505,9234,117448,71966,130201,9407,156940,10894,113917,102178,91330,3786,25046,137247,37299,14204,156671,48589,
    7310,119658,1019,3147,26915,389655,28024,29905,117060,110822,603,9922,51369,186019,151553,53930,22620,65936,33869,50466,61861,18339,116756,22544,322264,178320,134504,32779,106850,51259,7921,18753,
    111694,76143,15475,39056,15091,96327,38933,146365,2624,6183,303617,83865,40345,8720,102137,208016,300446,153481,62817,17230,177064,59995,17444,96781,1707,62069,105642,215627,27389,113620,8641,39778,
    54792,22640,92614,72033,327783,56938,97175,28337,132669,24810,100695,42694,183543,96612,26568,321,59003,67147,64475,124682,17744,254962,92433,55393,20603,153319,316603,192699,151134,16030,30713,5369,
    106923,79389,15318,196516,53084,229057,32215,2061,71803,15710,68210,36730,279424,61974,109245,21881,319816,40889,10178,55054,11579,30821,76533,48007,21946,12530,41523,56504,16728,146955,90643,77497,
    38274,58777,12829,83673,72711,24324,131406,209463,5085,14864,2408,146954,83391,104916,53219,39654,88646,106083,13930,24286,40159,28744,20399,11792,25027,26454,82556,24039,34680,36361,145006,21872,
    10752,107608,27995,36258,12988,66287,75099,84038,54126,38128,56142,14292,30365,99229,9312,5952,18338,50601,15454,40761,100445,4866,42787,168097,230674,27,4416,59458,44874,21538,13837,21543,
    84974,32659,181908,81485,143877,1443,22510,44084,123253,114222,131683,77045,139372,123203,151023,23972,28082,30654,30914,61473,91477,143646,51334,8042,144002,18818,47219,30784,13096,53692,57020,125132,
    219729,72133,94451,32149,46016,5231,19109,89053,50029,67191,30812,104508,42377,43699,106368,9836,14601,54570,18766,12632,6660,155889,71980,75016,58244,83344,7256,100628,58978,56720,58199,118422,
    23918,11726,37394,463,88206,139614,253619,539,113611,38238,154196,29350,64452,9692,12873,4429,17541,32212,6089,18497,41032,117229,60868,14143,10942,926,24793,66470,12021,18956,23792,155539,
    49189,11284,84405,157831,10978,12543,64410,50098,40175,82131,32892,21615,37156,5526,99592,36215,10947,19241,20602,2093,71709,93588,80808,10971,106894,25921,413,34040,112538,180819,118821,72357,
    57007,79329,16870,137412,137486,10245,90727,18898,150608,14622,19833,22840,152719,29427,209294,4232,40615,60643,170375,22011,7746,28136,332881,60551,279716,193813,38074,19946,13101,16840,117701,27751,
    19524,59518,5857,368,28708,105821,12973,27739,40578,900,41397,104380,72320,33862,8409,34652,1096,35868,72140,8303,182051,82682,33389,5630,94527,27756,204584,39519,51275,31654,10240,28759,
    22833,178542,47192,48182,45164,83416,42256,42796,81917,217466,53292,37786,77519,106347,83381,18672,48508,13787,77506,13385,5421,76619,372545,27228,140302,83313,3227,42955,37845,66043,76055,149143,
    149830,12497,9759,138621,5587,153959,83576,136204,27579,39401,30659,75311,5357,6559,74434,7707,428725,26547,2082,18025,248187,41435,176983,82585,6326,238794,27806,33103,206760,30220,62067,73068,
    39814,3267,31130,1487,32585,16095,47315,334742,89923,102036,75915,77001,44341,23722,4933,28107,288753,33496,67090,13693,284443,67130,6821,12171,96368,120123,128906,6889,31201,197218,124216,25556,
    94189,226026,49191,116420,119504,22368,28238,62479,20359,140859,29908,42319,52073,25021,11717,171363,103216,48554,148106,44322,179,62550,142748,5200,27934,626834,53683,40353,32801,386580,59130,42350,
    96035,956,88884,71218,34111,41335,31551,1556,34309,7435,32506,89091,101326,35050,97836,7566,18198,14509,235440,30012,20704,338945,90305,62331,210266,5359,86970,67633,37643,51918,7476,35122,
    27880,2530,23516,55992,141873,9269,20887,235173,106000,53315,71177,78367,19414,8455,3948,72358,56614,93522,50567,6412,167714,32465,101863,1914,66483,142566,61810,14328,107885,75527,21510,22073,
    86602,3162,170297,80142,4379,139776,150756,52344,20796,126580,47459,31811,75467,203428,2360,109945,4987,40280,38609,247457,5017,131195,52873,51358,118857,25612,54684,86642,26003,82237,10347,74817,
    34308,134385,105661,2079,114428,3924,56947,20197,29198,93080,30441,23003,6686,189968,44029,59712,29697,69462,47863,6319,73632,71419,54022,228432,3739,11617,144267,6304,69795,159284,38182,88987,
    16798,60652,18367,39753,41504,26776,44767,4986,7207,326091,10211,275129,30722,15983,114324,26287,21436,250022,386,16493,36735,47994,4425,57498,28067,7086,86124,96341,28545,29897,71934,19803,
    3239,94102,112964,21957,11221,53105,41589,82164,36031,6367,42771,2307,41889,128904,54967,59098,100010,163061,65256,39405,19247,129504,97081,10279,317673,79950,84866,47576,29495,35727,17138,23769,
    174554,168948,28307,137478,6424,65666,84059,28007,129725,112584,87500,22631,53845,9237,125865,12109,94986,62791,47377,95747,7955,119822,43499,77478,59676,37816,112528,83870,2604,10721,277540,129593,
    191497,1803,103962,39100,19735,137806,184562,831,102214,21611,10860,96243,62954,12392,277571,104806,23844,21269,30123,51663,11872,3731,70610,110093,179525,50391,26607,87825,261436,17108,19172,65210,
    34492,179038,18937,8799,428,29645,11956,61342,78404,376484,132083,73837,142035,103650,20615,4466,16747,74934,38480,234599,17246,46547,32844,24552,27578,22737,103773,39027,37021,1234,22307,95862,
    33672,4191,11010,27369,57944,36384,94490,7931,26056,163500,146122,22564,135760,93787,61065,30077,2369,6137,12659,3122,61674,56540,24935,25675,122066,26194,26305,22069,31327,2064,15705,149614,
    19374,89531,613,93086,157065,5730,15360,6683,40553,8430,74835,94791,130982,74032,11372,90140,69619,36036,16092,112362,71290,44790,23930,155440,38855,195955,61949,49611,72100,9710,26268,41136,
    92903,169781,27353,78082,95940,112981,249266,45995,51422,17889,6210,74226,165999,87787,28659,84558,65713,42221,17212,99031,57873,122295,227056,76534,50726,57460,287606,77186,7288,29042,88166,172092,
    20272,22733,128506,113493,2081,55443,102934,214,42326,28948,53196,24237,22624,21099,13480,39377,81120,35325,45300,24047,57914,47609,64670,25672,79352,7747,71834,161803,19447,8688,10183,9684,
    1684,6277,61421,45761,72302,118558,18353,10661,11774,128325,16327,2665,302559,70280,76546,45579,161481,169457,36438,37410,96396,127007,10776,56760,13692,115406,41747,83908,414988,69549,169745,58040,
    3721,62350,104731,13605,79066,14490,121161,108219,56627,83538,32335,35780,46883,23245,40346,24451,21150,129629,31758,47729,11747,2392,5660,43534,12184,23309,97227,201922,5856,75935,22492,245478,
    113458,122567,38892,52163,176117,98436,387939,127565,84416,26809,1689,44206,52079,78841,20795,5683,27933,162169,34126,12822,3354,45811,72520,20811,59765,13615,3254,29527,141359,123305,19887,90838,
    2212,8885,33750,29379,216309,13657,7475,88895,2555,55375,35969,66537,23458,112987,1751,75280,196722,96722,67717,118130,142463,83824,80129,105478,45701,183568,315287,14884,44548,167199,36212,100715,
    28798,95743,42919,6271,19418,59193,16434,72701,215,108179,34472,75818,29916,15862,29177,1351,9396,129616,4305,86650,10574,51218,914,206197,114226,53103,156910,12946,84475,16322,71666,47108,
    13520,81329,27088,120745,18694,174187,3645,72390,34056,18867,220604,95316,4524,97988,41515,586619,90302,23520,19632,127752,62930,258836,36988,204585,13539,57180,13517,6044,19407,65336,268952,132299,
    77209,53483,3327,22672,7728,50216,2729,12196,38088,36872,5799,111465,9535,11303,51899,76725,2263,23913,3675,253827,23875,65387,63019,12817,183945,28678,43266,62072,17750,269599,29961,5765,
    26274,6555,2446,55197,67172,1910,71875,19799,10585,1419,27911,88939,28042,167002,124915,104112,22199,47768,14066,16710,7478,99068,196517,131507,51331,27291,42046,63842,66030,117306,144818,41353,
    26774,14822,38660,171065,192929,121185,116712,28895,31434,3911,52612,111118,25850,18697,65634,4147,50197,74729,15097,117548,52926,274499,54590,79384,178158,113803,36365,137334,4679,5949,253573,27681,
    181256,356354,65776,146248,70184,2871,18045,156661,229600,6542,22726,9001,9959,34743,33915,7460,105594,269690,12482,86077,72158,12017,58753,24594,73974,3029,1912,30079,2726,109412,146145,35326,
    35085,862,90862,85609,78087,43053,160170,33043,23284,4515,162825,69896,35568,601,13016,1407,51713,90134,750,45520,155676,21397,168585,187237,5401,125230,5635,89220,27254,54715,98930,113085,
    11966,3030,1855,149700,17569,56634,16775,51586,223253,10938,121033,70787,71993,76450,39521,26162,103357,94057,56597,26906,111477,293134,42368,24553,55722,30882,11930,19889,30504,35653,6466,203139,
    26034,287857,19452,2522,46774,8228,76457,83553,35392,6216,12166,56704,36285,6768,54803,1726,214814,6895,182419,26778,41143,53690,13669,45646,163465,22665,198804,39125,1051,54093,61411,31560,
    16094,26798,90341,277777,81044,169520,129829,46588,6636,71429,29098,27473,76489,47101,118137,125121,179102,29265,57351,60270,20712,59437,33382,18626,39178,70695,80048,54642,35683,106381,97513,43264,
    125177,120906,35533,22522,54219,7788,92290,6116,30617,6801,86129,39209,52994,53661,59735,17738,25324,24278,105977,13689,50123,36059,130088,54180,2543,36656,87050,59769,87529,20220,367,68705,
    58995,26101,26380,43246,10688,79793,82063,59968,125199,31463,19802,62223,12388,70063,151361,3296,60158,33268,27121,110554,125481,31240,69489,60334,131646,25391,20034,24248,7642,55281,33709,57581,
    133350,77700,27095,3522,65874,30518,61307,126098,3438,49052,9849,78050,97277,50748,175256,49826,101450,107315,118984,13409,10075,128877,62205,13193,56344,25228,87810,2143,116821,7648,113840,19459,
    50778,131885,88512,13697,60547,58403,210177,34494,98016,51781,47807,12099,106135,16443,16925,19635,13859,8422,14030,4756,14255,48634,3275,4837,16300,230472,6616,53129,77373,22360,111581,9662,
    173521,71655,15044,5531,8285,190633,62896,54909,45932,34330,16255,17909,37426,152464,256859,18903,4054,67227,5705,135855,114295,14380,28822,86386,55947,44796,22159,43163,7703,65450,5829,97182,
    39114,652,2216,44468,52,74475,73693,208207,51119,111015,105280,42780,128135,3956,13974,30409,19714,40616,22185,44115,60715,199079,86742,81192,9554,53876,58171,29597,50492,316379,10539,3453,
    88180,23111,24529,93240,2823,46332,22213,8752,118271,197846,6618,8946,52993,21325,30302,17074,122625,9575,29441,295253,97919,3130,132791,140156,23859,8941,106857,22772,37895,107740,9471,34989,
    25040,85180,21330,47109,33614,110324,23189,24151,32102,171390,19981,29005,20431,121,38106,170174,3577,46060,182390,13411,9275,119138,47329,30160,15686,30347,7585,10003,43031,29151,20512,144355,
    157741,153623,16851,99315,110358,156059,69556,9859,1884,75126,4225,180276,40291,131485,17863,1299,125391,75039,111409,31614,13736,31156,97629,65733,5008,14589,129738,29549,64881,29351,75196,52675,
    87336,57594,21161,14655,77381,35333,37937,262082,70711,100777,11065,52574,43032,79308,11911,5569,49155,8990,20956,71672,118587,90936,6794,2889,70494,14885,17291,20073,4318,33042,38735,27931,
    10168,11340,174780,29799,30126,32276,416159,9138,12580,186182,69114,30093,10524,55369,90592,23723,280104,31769,43457,134915,104001,3107,52049,3483,145413,4347,87847,8340,2862,22905,12749,10655,
    84140,32339,14853,21123,6603,75082,30462,29877,106005,84964,69112,129634,13566,31377,1731,2591,12780,75605,9265,203857,11251,95054,43621,106786,42830,115761,76779,15968,571,316548,48436,23152 >>

\* From prefix 21536 on.
keyPrefixMap2 == <<
    112401,85555,7543,130762,105440,130853,18911,12575,33456,139214,29318,62849,57347,85786,171698,27142,121611,1138,80752,54791,4221,77844,47524,140582,94954,18043,313972,120855,36517,63651,18688,30456,
    24046,74888,58460,70311,27796,50699,84011,20285,6255,200303,74910,57724,33394,16958,104867,22244,72990,7001,57825,20114,135408,43742,54632,30820,116627,34162,194876,27214,1233,2542,89114,33428,
    57874,24432,73244,13342,25654,36812,42775,137065,95419,3034,109640,69998,68156,15470,40930,43371,401399,12617,9352,26808,313338,55155,36975,17890,55208,52186,226992,16324,45573,22248,14465,65809,
    93124,76501,130378,8533,119251,28580,43089,52170,47200,44870,76202,54398,38196,30768,33917,36165,11909,25697,353546,54562,130667,372979,149630,9125,45391,144756,57973,19599,73904,2645,258411,25268,
    64964,61348,128044,132867,167846,141414,52489,108908,4137,41282,39617,33797,115606,493331,11554,30049,52036,71190,77943,31602,62214,2239,12602,19146,7969,18428,131922,852,160925,6259,23383,165390,
    7187,12808,189017,142381,1132,41841,18701,29043,134835,99,15791,9068,40309,98444,127461,27332,73195,112064,5097,39453,64494,72450,24011,7695,80472,162172,41084,177912,444841,55640,51858,96982,
    61111,3710,41637,100576,26500,116386,75146,6890,45323,42246,54944,26323,40743,9228,36712,134278,53625,8230,40754,28377,52797,241804,26552,261558,22659,53109,11974,49532,15631,300307,18096,92,
    29739,107565,55632,22306,36706,120177,123369,52145,28841,81811,2967,6374,39147,48191,58003,205210,102836,34591,52967,14473,26794,120917,61270,53041,10536,41117,108058,363097,14845,27166,219697,10564,
    87305,3185,20437,15052,45874,8849,48484,35021,12241,1310,87883,136400,127587,39626,11562,40667,83833,19748,78478,3152,57183,48701,22123,86751,79722,116436,5100,237306,30844,5999,191075,65796,
    41304,91788,24098,149740,84655,17286,186934,44080,20825,86063,13887,29758,92500,168321,114890,64965,3722,47787,198506,43466,25655,5407,13240,101325,27811,1251,36859,37980,10157,135970,13500,104703,
    81634,106088,4011,23578,31362,89054,38594,186633,34088,336505,15479,9229,92487,49521,16527,53016,70123,18389,75248,16479,22190,140271,80094,10382,185100,9051,71918,40905,72658,25068,29185,15832,
    139035,62499,80063,154077,192523,94489,96542,73906,88241,73266,64690,151133,2078,76322,24201,11290,230490,211312,36153,103,44528,9539,36954,4068,85638,788,127939,83761,100198,46098,285530,41414,
    22088,50928,15371,56983,29982,53638,112051,38452,291233,156894,16748,48674,241062,61341,921,24898,13865,8071,235453,118716,4445,177183,19708,21189,137791,14558,145674,60895,37835,46685,36314,3038,
    107218,25232,61381,204828,31726,43310,143414,32798,19718,11254,127092,88407,38234,37863,143492,19751,72528,6573,60076,8937,23046,86273,12926,43848,19177,134938,18033,102451,66695,155909,57463,34776,
    5109,25338,58091,2353,17251,3298,36065,271,28077,50946,7379,25203,5617,135531,5335,33853,21554,1514,322875,85207,47839,81931,162589,73080,72425,41666,2205,107217,133825,13839,41951,21025,
    1486,3869,68800,11775,73065,13658,35920,41391,181275,74450,84216,8800,141508,82895,22465,8542,21768,13000,8240,5971,62971,23798,245635,47169,63082,25334,10884,141547,2512,44744,8650,42190,
    34200,155357,119815,26059,9904,121764,22752,11476,120309,20694,128696,2930,6392,69057,11264,13880,91243,58841,35178,12534,68416,70963,20428,809,268253,4190,31257,66625,41199,52789,24931,112688,
    116757,6355,182513,90872,138551,2904,50394,19487,185526,10604,30792,10910,41246,165026,42224,113107,28986,50164,19196,60791,4093,348976,132032,123165,19057,48820,65522,51163,17295,95175,4484,1308,
    4148,239196,12160,143978,245766,14112,90855,4531,122360,139905,44798,12441,35356,12686,74598,10815,112075,44675,49095,131228,20301,124634,94533,9419,75441,56741,243625,2690,10998,35598,155583,1231,
    7977,46730,242597,113005,19769,157864,288814,15932,62922,81227,227889,46275,937,11294,103072,3033,63547,8861,201131,23991,100196,49148,38402,10013,26427,1584,47267,32310,157820,36321,1694,31226,
    20983,78184,30061,128167,236696,33413,66741,24836,22935,47910,35635,2678,8140,12435,14911,265634,90315,43108,109685,72546,156004,8866,37002,25727,47204,51301,8652,23492,140973,93561,41906,95949,
    7726,23391,15506,42212,45097,63870,38047,35887,52725,285299,46733,43623,22636,21753,30231,2194,23436,125735,107590,55499,257282,66930,21546,157729,105247,1991,14483,140680,522,45784,342095,166370,
    88389,122072,21358,24129,216031,54089,2437,107595,202204,163607,26303,41895,46812,40542,78707,2821,211666,62835,14082,13734,19693,1603,38978,130765,68828,24577,173255,173341,81691,26679,29930,3426,
    45925,32463,13450,24567,11256,19340,65455,7397,30292,9441,111484,57305,372,668,19439,90961,5236,16883,27753,170633,167826,153144,144689,113366,88328,50765,15108,221902,232776,9372,46450,174146,
    151611,40736,105766,1040,5360,65342,48072,55757,82104,206605,5190,78870,18841,118613,78897,18174,80393,27669,110040,158621,25465,12309,35524,25100,18285,9967,2817,4292,20320,37594,50630,17986,
    72377,87322,63433,19730,31730,51337,57653,20420,33160,147371,43603,49870,45803,188912,85055,11824,38715,173010,66391,15353,27705,31430,7938,120390,37379,123726,25452,345,24163,78121,86371,105015,
    18360,52480,28116,10182,103586,12625,43431,22706,4015,110996,23635,211386,32305,9669,5607,79602,269494,361,52000,75409,91252,16133,217163,25649,20080,40640,108653,52740,36567,24900,6769,93887,
    54650,108271,21897,49233,7797,97128,54633,281648,57073,36934,16265,167589,12650,209086,62181,5542,31164,122349,81815,67651,42209,38682,31383,122219,6375,11705,72211,22777,261663,21772,69350,85211,
    105528,83301,31254,16229,81661,5138,1814,117287,106002,97442,104335,3000,2800,69084,40361,68511,5375,11262,76099,146464,17247,106291,8526,92034,43151,22579,624,893,4442,9159,34683,63801,
    15727,54296,36030,7741,194619,26966,57386,521,100855,29101,4249,27495,144898,122045,157745,29287,62320,13800,162790,170925,78465,1720,58206,24580,39929,46731,7089,342751,16454,254942,25844,55945,
    1967,64379,6774,82424,28311,43620,50135,58126,61363,144665,15325,125247,17219,113505,10215,205466,9395,52783,670,169135,8745,37048,58689,91650,121445,22644,27467,23132,76939,233859,30141,24917,
    80385,41981,8292,35986,162380,57998,43320,212379,22009,3420,17253,49172,54191,105827,25802,3604,44248,112875,6127,145960,16299,26569,47356,14611,122830,30067,21003,192364,48151,121965,327180,5291,
    74429,11440,101228,65667,78291,16492,12720,3052,64755,138800,114706,157348,14238,155607,17452,62457,44966,41313,98226,78628,2511,99734,74253,133560,17712,1897,74082,2056,67954,146843,392522,79571,
    93583,59314,13047,43084,829,117157,13262,38703,105899,54574,104172,22161,49935,96314,98235,13239,84750,53580,34154,114889,11591,72967,66707,104862,33185,16902,22355,42766,85447,36865,165090,84531,
    42717,343264,93849,81105,27409,214283,113392,12987,208542,45776,2947,83062,28965,25376,24971,20612,62052,26121,83563,52492,52525,3766,104113,40486,5597,125,87057,6525,25694,6096,199883,183361,
    65594,40734,5880,182733,16343,16696,86236,796,63224,7501,54031,26465,276188,66868,2954,84925,12475,2514,223628,75284,9331,78770,22694,89261,127507,56323,111184,138073,38522,10128,31041,55066,
    57287,41322,157136,126272,24128,75696,37221,12395,133161,60386,24760,6499,79723,24499,76440,34317,105548,60338,146011,210310,133695,189639,390311,10417,48917,77547,25558,125695,27558,50249,50758,54053,
    43278,12651,41946,33000,46520,10764,46950,144684,13778,1185,25117,155135,141954,96252,124109,34349,110785,24351,73685,9493,83366,25352,100253,91513,17715,18369,120888,58948,46317,59607,74045,40939,
    105763,18522,3886,43064,66298,18918,33778,108305,147013,68203,169050,212793,41086,17383,9620,80428,94180,46324,90898,384293,16478,2162,57856,4565,220447,72458,27818,12844,44611,11585,8997,5614,
    730,93897,76702,124308,19722,10289,81775,44327,78975,156207,11289,31827,117889,212382,163177,125496,125643,46366,29130,40665,26254,99947,10510,84091,16574,120313,104829,138305,18480,16829,8176,17121,
    65006,22646,16279,64878,15806,31922,5544,11868,38549,32569,219914,15814,246418,24003,289255,313945,46052,157270,10005,11234,36056,153288,35135,63031,8440,1275,43404,298391,34984,44385,45317,14880,
    30170,5875,12546,45344,3163,4914,1779,66305,59800,72227,6487,36265,4458,73948,78254,47797,115442,39130,71796,11449,4283,30975,181777,25982,41970,19821,110322,41466,33507,69754,31950,489525,
    104078,4158,69239,85214,1653,56217,34223,9944,22,35473,131427,25058,121158,166086,254762,9745,276486,4120,33379,30250,3655,10419,70458,24518,6338,80002,3419,4757,24048,2139,938,210466,
    133421,8823,35575,1574,23641,94423,17694,113822,2161,40833,49449,5625,24422,131600,516,97149,36006,24910,111249,104788,8086,63142,17790,49461,10675,30015,25712,12492,181474,43374,19331,39246,
    12307,170327,251360,85956,29514,4826,115208,41680,59143,108007,189711,48650,14729,28727,61638,233522,52509,9807,83278,43091,87128,205247,225046,135671,122470,46278,118683,70557,19446,17394,5920,32166,
    80852,8067,86203,410557,33314,48904,140515,16642,24573,28653,11481,199433,119864,5958,55298,63357,14237,29162,73299,12246,9652,101149,98618,9611,57779,9592,43988,1014,6612,44197,23629,95201,
    51851,69205,94416,985,15284,36462,143673,5555,98871,71794,26730,9761,90581,198325,133604,57541,124466,1970,23017,51130,156831,80242,24852,47760,21190,76629,13862,175502,22015,38086,18855,52006,
    71380,1872,6332,88866,161906,10811,92768,111004,87247,58129,1244,4815,69201,134735,125070,78458,18392,146150,4886,66816,17908,31646,6778,69889,108470,70270,87563,7366,72962,13622,24210,28614,
    40719,40963,61900,8988,14338,191234,63447,35774,17911,12734,257831,101714,95260,78005,17582,88301,43339,8921,3918,82471,20610,84864,253574,21526,78916,58506,1435,433170,20710,147863,28259,4548,
    72451,2742,1878,156795,11315,75234,32104,46510,31448,15513,60382,37929,17263,142357,16994,34753,58853,23100,69236,5182,178878,2545,32116,152276,48111,71595,81171,93964,116002,57412,4245,19877,
    45497,156962,37019,27777,80506,87318,64770,13895,82605,511,8366,87800,85880,42605,80454,41603,36300,27404,35498,82743,121755,128166,1871,81847,25215,5995,60337,177660,36118,54831,138197,126290,
    301929,182977,7852,68390,88728,111588,58683,115820,405223,74730,36671,37592,276136,25471,6538,61648,553,89532,101905,27590,34704,25370,42539,28362,212438,98439,26905,4804,49970,60393,7138,33248,
    78329,11555,51340,1796,922,17391,17952,3534,20711,34703,17977,21148,25036,13075,6201,46397,257130,73731,213188,107033,38295,56744,112539,122324,145369,82762,25343,6279,18128,140444,35989,4474,
    15385,14399,63732,21041,30829,98387,31090,23985,55656,40284,132675,4230,48345,64072,15739,73537,8012,23754,107906,9060,3561,183232,19339,47011,28004,85175,46305,37773,122041,123221,100918,79448,
    192900,143005,63829,123166,58338,37779,33298,109415,112508,115553,68473,184384,41085,82184,61692,70292,29976,115765,134590,89398,87040,39038,8330,21348,47117,350,39878,167810,23905,28058,42971,15124,
    4336,12612,11230,18966,92061,59408,12185,128370,138880,27612,27335,49677,97407,61794,36678,60848,42083,7518,89496,57735,172121,74451,85960,144252,6256,110791,28888,21551,25192,5388,80308,1657,
    172671,42290,48,195157,5,36476,3307,89171,93568,157177,7894,66766,1420,14058,167637,30649,12677,121794,69021,13231,31605,230408,111760,67720,56743,31038,52660,61746,40620,81659,12864,14180,
    6015,215868,90084,141993,78415,116175,52441,7100,231077,112914,39586,51204,31298,52736,64704,3584,80026,74802,13972,215480,13902,93110,20076,42335,19048,41860,36983,169990,24924,34272,70434,20851,
    170586,12670,115383,39041,32955,71225,30362,30667,176119,19860,10392,48818,87859,7042,111918,36751,36731,38144,156426,19519,6773,997,29515,53787,27711,72672,159500,51584,24658,40226,1920,70951,
    26475,36713,58252,424939,115216,30508,35252,34310,133207,17198,8490,5530,93250,121485,122775,66308,95820,59227,108938,53397,88522,6280,46904,14869,8317,25024,14413,98196,5714,54882,8596,43570,
    124047,5657,302052,35,55219,105769,57203,241055,86860,6086,121752,2426,19677,79643,9137,36087,23961,35741,73879,95404,22928,151374,193172,7078,162209,225418,143148,102355,8904,2279,71928,20953,
    225992,15275,49711,9805,359835,337011,5747,97478,56084,49629,13712,164652,96201,13261,69730,256157,29392,154079,57395,17417,96558,76159,89103,154068,86071,1481,55845,81677,93643,5966,26830,128209,
    55114,215629,46997,96220,13347,6748,42089,26362,8183,87721,60802,344,95129,74756,31533,58592,82012,86256,21385,21021,2017,92952,1400,17103,123336,48961,24557,31513,34219,94330,102993,33899,
    115554,104210,45821,24373,157159,41476,17357,64836,47747,20243,42746,100702,101684,123185,46219,68593,41008,135956,132526,17386,18735,62966,27255,23471,193781,89150,2616,57853,104151,97883,5292,181287,
    226906,114560,56557,82841,7552,61282,26131,1854,179874,74127,60152,17376,124113,21668,38821,14260,31159,29704,82096,204953,21162,64569,11540,37899,44010,79498,50023,39667,14771,235800,15254,382134,
    51268,23240,7289,52385,166128,26710,362,239,31382,28658,33227,60344,73124,109004,15966,14103,77438,65958,13394,9762,92830,27896,85690,1773,205709,14225,11061,49451,12113,15690,22771,34399,
    1292,19355,16900,29634,38937,103120,45588,32502,13114,67382,21201,255605,1334,78137,14683,11960,2118,39992,111625,158751,15597,47752,3544,123201,69581,8045,25346,232034,14449,70422,61526,29243,
    21934,152079,39735,29007,76618,18195,153,27890,48728,123899,68311,48831,67038,51326,21747,8692,14967,4922,69709,15204,51495,12889,28173,172579,24243,12645,53481,33706,87736,191077,102314,17799,
    147249,101629,161049,4798,26720,45298,89381,76472,11119,5522,59583,86712,46063,85661,57137,135132,43749,6257,4316,44510,5843,232177,211804,97913,44147,11778,5876,129172,152629,43931,5404,124003,
    133428,97102,297704,57882,65703,24717,67411,23646,14269,13007,172728,4591,45604,57195,12344,102301,57982,61997,95626,254590,28672,129544,121196,14934,55616,30754,102467,25644,45957,41766,105011,59359,
    8438,80296,37663,282854,95433,8167,10263,65749,37698,56099,237283,25218,220862,42641,90021,45007,132034,144203,26155,333670,39456,63723,27049,39050,61870,153573,33337,28349,4161,99154,19089,5689,
    26501,109719,53252,38261,73560,103696,77848,61508,56418,8146,14836,30856,9845,7946,131232,127176,4654,201895,63780,158964,20916,91453,54086,43072,10456,54618,169463,46325,88920,26447,165915,26064,
    119358,76658,11753,55625,9015,143112,11520,269278,65931,121236,179251,9829,96507,5826,140198,247937,48029,31061,53953,19018,38534,95073,117331,37745,21676,22041,2439,21017,109081,12120,58943,64119,
    43078,113509,30640,37723,34943,350151,79862,143849,25089,16375,77573,16298,6131,168435,40662,50028,28766,133195,55258,45544,23665,5135,54199,18072,5477,69501,106176,37245,10255,33562,9039,7013,
    16695,29965,30540,106269,67,100273,20386,1936,45778,12653,4617,22300,42443,22525,113152,24837,42770,66959,15725,52734,29534,17022,9388,334890,23733,206600,71568,50746,100513,18013,100834,84319 >>

\* From prefix 42336 on.
keyPrefixMap3 == <<
    20446,136219,5009,2402,47228,5882,154075,61745,100420,43241,49334,149951,87091,86136,329294,49115,14429,27425,36818,111800,121708,18542,6570,27157,23605,12467,6000,70237,21157,88964,42071,18521,
    187721,24444,86,29324,21880,145192,303927,17373,2997,108310,171873,60425,203976,18220,116526,69373,99166,6387,84942,187663,95068,21687,241311,45047,25877,42751,35432,9804,7724,82982,23192,146653,
    98925,132997,92522,87415,83401,53505,150646,8142,4829,58649,25534,26193,13182,71621,73803,70797,18229,39127,69038,57676,13718,58332,31672,65795,239662,77166,190337,3939,38653,96399,34620,237425,
    116505,13199,102812,5543,153497,1676,111555,5249,30589,10038,44022,32064,89029,4156,84630,183016,38962,20874,41135,5896,181302,141985,28318,41843,43853,109018,101914,14232,78872,97030,13738,107743,
    180301,8364,79955,206838,4786,1843,19029,45663,248240,2387,51445,145895,7401,82908,16435,28522,106136,4571,2405,140262,112590,26994,36399,3894,77745,48157,81325,9424,19731,7606,25832,161377,
    60880,3462,68402,63020,77789,8989,94980,140615,125748,101040,138,61603,135487,19491,9072,42404,5975,4730,23228,147617,48627,88470,18481,32183,34084,197974,15306,16406,12419,25554,80789,50074,
    215770,77760,67732,15820,47557,8552,32891,3397,254582,51747,37440,13256,10364,19078,197381,38702,106495,126239,69247,4048,21856,4277,25578,128895,67539,63586,54687,80647,88981,92208,26195,51852,
    38805,50151,28772,79952,21428,21251,116522,15445,48732,44111,50224,95470,42316,106832,48425,377321,12149,3533,41847,71691,16078,249001,118133,10711,52808,33393,18850,60881,25327,125536,35507,17128,
    51322,25298,64567,14087,33850,17830,26983,37516,51147,63624,6036,75728,12253,42565,30641,60123,122354,7767,33831,15668,46077,207921,704,228032,56483,154155,19104,43429,254553,40400,19915,39707,
    115417,1959,8797,59126,81834,6291,43802,41057,150991,132620,67404,31385,94662,35042,22728,29984,86668,80841,166714,23521,7381,18863,127695,23731,12841,34184,955,46179,100650,105059,92227,35881,
    18218,34994,30732,65296,15741,79032,12811,2842,22372,120408,11638,298925,68294,83360,60616,1270,50705,35353,39160,65700,15535,87701,7971,17998,84660,24834,3600,57330,61887,43556,70547,21033,
    22553,123308,92138,46071,72299,43807,86552,3952,31361,45177,11621,157425,24824,87145,1530,1015,17743,64397,14528,84960,46820,135812,40268,205321,64288,83124,142613,20892,31582,178130,41319,47604,
    77006,38648,45265,69293,111674,38866,30288,90253,116384,11710,162727,119339,30760,74575,99191,114910,80920,74030,166787,23839,86149,70396,8817,71462,77192,61144,7550,263557,51979,2741,12376,38498,
    79691,27990,88220,46311,60342,115770,32907,654,122805,22347,45779,35595,103800,61077,11173,7981,240873,127729,60554,100208,160744,278120,46400,47854,233114,14783,28068,50186,78962,21368,149837,32533,
    54920,67698,16575,42220,8608,244187,24441,16118,3484,29636,35155,100272,316104,399,13004,70176,72548,2188,3176,10044,24337,146534,171223,44154,5088,100828,173780,92915,230040,59854,91355,69382,
    21926,88289,10494,133339,10172,99597,53605,17770,36838,15150,30766,12102,26,22751,93985,48775,86221,110954,26896,56128,83458,19243,10858,11338,102176,1734,27656,45449,12062,47678,227191,104843,
    17571,33218,31175,80,41929,75064,823,5915,41170,26266,21858,74328,28428,46729,53037,208149,68239,44371,128012,14846,41750,121730,939,16024,103930,2667,3749,72822,2634,17905,21653,37065,
    18313,12459,26288,15851,53019,237454,82804,43717,34825,6324,223813,34763,97837,74764,131779,54108,63115,77477,133465,158834,24606,172748,8241,11219,73157,67543,21979,44698,152474,62783,25538,151168,
    14715,17653,20409,10177,91439,51243,33807,21982,37033,28498,20946,82195,109806,89357,35843,62764,140259,29524,15905,148965,30668,242609,18782,55072,174760,95402,12389,60205,380,39535,99410,68744,
    135597,29770,37761,9074,95673,61075,167448,81798,136073,92495,63964,71292,65073,16100,82788,3903,134249,666,114606,13925,13829,14923,22844,73642,17279,39192,82814,14279,122305,98412,2819,90185,
    4420,211793,88571,343220,46444,31428,94176,75136,10237,43041,121311,109668,64848,79724,95455,406446,203623,49760,35347,15313,70728,55604,64355,9274,10349,116949,76977,10948,182885,140337,63627,148647,
    65075,60013,4856,3391,24519,53746,165940,8600,25783,64942,35809,14075,40318,2510,34997,36980,34139,23025,39457,7315,22222,75794,8923,194881,63394,25194,37165,85475,55266,208468,18378,53662,
    102764,38595,7896,34791,41422,49686,92984,25098,20126,17645,88907,226875,65100,60009,15638,21283,90408,4537,139878,112661,53640,5071,42553,9995,35128,46262,76889,67947,48932,16991,106940,167117,
    11192,66889,6670,104891,38935,1875,45170,3303,96839,772,3134,41094,34782,66145,43963,48995,39492,21237,117116,33731,19396,265866,122508,109994,41332,31277,72923,726,6250,12016,13536,75815,
    5511,102922,12522,133050,19492,24257,18746,2693,51304,63505,129615,231652,25936,33108,79906,94200,104466,80492,72337,73422,54099,254560,176028,6993,73771,49079,55319,58712,86115,97967,23109,55938,
    5080,244577,48923,66103,7669,640,49551,74043,30891,80537,202612,47981,111700,26871,4345,17399,13931,293811,135578,107640,25276,30158,17676,15676,72289,37101,1637,43083,135447,37641,14254,111332,
    14820,13404,34584,56626,258641,7240,63894,83112,25265,17841,32376,48491,31005,66732,30950,9648,281179,112290,34755,61683,75286,5189,100077,59697,393,103531,23185,179430,95359,298178,110282,125995,
    14623,78807,24189,26684,13584,47803,47440,29923,6680,25153,12281,81189,101227,5727,57666,53928,80173,157148,23623,17510,44933,56582,107749,28680,76666,75185,175076,32262,54542,14210,77349,27496,
    13244,83199,3441,55821,39348,3757,3667,123147,458,15000,19818,5639,25379,68555,51878,6205,109451,7850,13287,9188,134348,386526,16856,19356,81143,264611,26487,30169,6959,42394,96934,7084,
    65554,79211,22545,21576,12027,4118,60397,13483,51311,75590,42156,36096,8716,11493,42998,11218,57589,275790,7172,33265,140731,69517,43030,8376,28467,43930,2234,31591,23316,47974,14197,146070,
    17272,6751,33924,168150,30458,113416,293380,11766,25980,203311,28924,162345,55229,20334,34079,27402,77197,13365,186022,69870,83798,55050,364150,25353,28302,1155,109582,70417,114784,7067,16416,132275,
    7428,45143,48146,46692,34548,35154,92593,5358,26241,23637,54860,9482,14712,7966,32576,13535,39336,35734,47925,187574,103304,90255,22548,13788,18928,36142,63464,150312,54080,263654,319602,6537,
    12870,133946,9773,20050,334,130222,30305,136258,87722,40831,167627,13993,15208,85494,50771,220399,16895,50769,10053,113498,142098,93461,17165,99681,114262,41550,192972,66158,39820,17436,87519,144390,
    83913,82212,14723,8746,57817,78233,11144,30225,28682,86362,276167,25943,7721,38719,161361,102297,14900,88287,14336,12092,108672,42339,328,10290,11250,44623,111087,145880,62246,20511,67542,263445,
    42849,24396,94945,30646,415188,26446,102124,18065,1724,4925,110914,163915,26555,176996,8050,33583,24549,11288,16296,29023,25505,6867,86739,11159,26443,84520,68545,10696,107450,65107,90951,10518,
    145899,31404,52435,29234,61035,11336,53944,64679,43528,83757,4052,13189,6901,39247,35310,26976,60726,185599,8030,4198,65906,57296,259345,122777,267741,2857,142950,19003,21338,112410,33257,200700,
    147590,74901,51360,32601,42079,29847,124456,34389,18924,20790,120555,65991,73017,171882,21281,26841,135236,5978,4123,303,15393,27267,28700,249892,5206,105391,162130,107419,4026,62796,18843,50664,
    84185,9681,10383,108809,1531,34176,8061,39095,5988,39057,7403,4419,113890,60683,85058,11712,82647,76332,51237,903,303391,133929,25009,138549,7386,175781,132183,3037,69844,21065,30442,4101,
    71611,155271,265989,32740,189865,56230,135927,48500,76523,108510,11776,16685,31877,27734,41614,24689,13315,15066,48022,4309,19314,41098,90569,30515,198575,24381,154303,42859,32821,78665,30662,14747,
    1928,59755,28149,70209,67641,20901,5264,50251,25913,66241,490439,175537,104475,97516,78264,91266,103489,23865,183520,34766,3297,275917,146670,25323,70391,25755,49964,164202,18406,31978,16441,52632,
    15446,24429,4215,37736,113347,8883,22563,15500,19295,41760,78521,113283,93790,25764,24081,23658,27856,43669,81754,11052,1792,147034,105048,59257,167471,86802,148695,15116,116449,115822,22405,24926,
    8541,22171,31801,33192,4408,12297,301197,138987,41757,44743,115490,73003,63233,12310,113745,80287,25765,1137,45241,12509,86680,100507,15502,82114,64501,29571,9042,4784,27034,836,106118,79642,
    24816,19191,71859,10806,34975,35721,20447,33671,6079,126054,58217,78753,4486,35660,45492,39072,49693,135128,38873,1595,36229,21988,86413,27520,16917,83041,32578,42649,21581,17612,3706,5582,
    62426,61684,21930,147493,27862,16374,25590,69477,11612,15240,18552,19226,54284,19154,205,44618,35702,62029,11975,135778,194034,34324,9287,92145,355,83533,389,11125,24277,28651,33600,110599,
    48262,80091,24087,86535,87411,65839,48531,5435,70504,1680,141541,34304,310164,9214,109239,74125,118018,80462,100258,37839,12516,18111,111964,15304,47559,22475,250341,55009,43502,72785,26068,56283,
    57433,145320,83034,101357,107139,13166,65124,29871,9290,47434,20163,28721,66533,101179,26384,119496,80863,26599,33186,50921,14634,49049,8156,90368,34312,71503,2924,84269,91725,54206,70953,60570,
    28606,1961,1020,118183,21342,60064,25713,117531,67241,26343,257386,77026,72355,28646,61026,94224,43244,94932,4601,230976,375789,103456,58534,48852,37402,24109,241400,52782,174015,1515,35127,236213,
    105070,41444,3868,195472,8342,37810,28026,30469,44167,123934,17110,49127,67494,4950,89802,22448,1890,32145,62103,193571,16365,8100,2759,59208,11723,30626,54047,111425,271002,34847,30791,102173,
    1865,152807,44228,16334,47918,19851,52637,48405,8350,22131,69413,35540,45564,53848,57537,202520,27742,16511,37103,9857,25110,80964,59758,10709,125803,10945,60525,12999,8553,3885,21820,165805,
    49504,26657,12487,30455,81925,76254,4388,51128,62211,301599,142773,27276,4534,106190,11978,19483,15491,115826,50411,58796,19011,32938,119108,220904,80373,67031,70541,4859,206920,6090,19310,22573,
    667,55921,9933,6880,102405,3647,62961,136965,128623,63897,23416,79705,245524,144775,47359,10859,5553,97850,6803,18191,113309,30019,22922,29253,192739,61644,10879,93327,65766,71215,147457,80167,
    19567,55770,29797,29274,22832,23356,42325,44027,261958,72646,19852,9637,29679,36046,49336,14687,21293,77708,14113,74893,71134,200672,39308,12740,20962,86248,26029,50842,105123,136390,98208,22087,
    24721,49911,106064,73490,860,163439,14873,41067,21752,30501,145265,76566,33448,28437,8815,16951,18372,74873,29462,32916,157167,37777,218069,57242,94822,93459,63003,77897,35770,25963,42205,118099,
    173224,15519,76989,16637,232737,22211,31315,67805,75729,4140,57334,9310,28937,79865,138213,106821,46828,51030,76484,117312,28062,12545,71393,159499,25453,210547,151602,22228,5207,75071,53864,71005,
    140366,13537,2178,11825,36665,45071,70308,57129,30652,16553,302183,10738,6169,43148,24995,57331,67920,86667,244672,341687,150458,19053,961,107389,92040,192870,41097,22344,23186,119577,34986,45018,
    184604,177949,6669,18473,92330,10137,20330,189512,20891,13257,66265,48954,176492,72915,219860,2494,49427,18529,56158,30214,27828,171123,69463,40254,38305,23967,79164,66024,42495,299257,23031,106341,
    143982,353,39736,75709,49560,70040,243406,1642,25503,56434,81502,48303,90043,52859,24462,43046,29747,41457,23434,42918,65328,52708,5329,21975,47830,3326,160281,95290,12932,95952,35520,107324,
    11068,52610,109869,64849,77721,9674,61370,154578,9003,27427,87582,116020,25213,95646,34677,3719,94205,2145,19568,65295,140426,3088,26113,131686,46090,188040,30031,72073,89945,2538,23463,34360,
    138173,3342,84724,64829,192691,8206,251775,2536,33329,64010,2755,48205,112232,33297,244729,27663,129905,107744,55337,67101,35709,152617,74645,44141,27514,12925,107358,33190,1841,66538,7298,34436,
    19957,54584,3634,41173,31411,2298,3434,77461,127476,54373,77688,7987,53572,15128,19113,176061,17497,39049,101234,59914,173549,48281,54139,65147,55063,16371,43136,40263,175135,13721,69771,59399,
    19841,1955,57439,88361,69314,130279,804,37567,5192,185175,75166,10500,237921,127018,7558,35337,117660,21372,36787,27678,150697,7,190870,106339,4060,7260,122007,5881,273045,63325,39801,38618,
    50414,113953,105525,17559,98940,56463,347332,34915,65348,25837,82591,5365,153665,27182,7831,15055,164423,1182,30831,177372,58804,5448,49128,44734,156695,4975,125400,91561,48994,97252,49285,17162,
    213928,127791,49987,50768,86036,12840,111058,253850,28608,197563,19740,127785,8355,34689,65656,32199,39574,8110,23600,97524,34540,38651,19006,29152,16927,100216,30893,172304,135680,31450,91503,54177,
    18374,32795,63764,459294,151587,85350,39064,13067,10830,3717,20553,32482,53805,108785,109353,20145,16878,76255,16289,14152,16623,3446,23337,31309,4282,24663,64821,61752,48030,64655,21808,264145,
    8537,50728,25184,49171,14986,13324,23567,199062,46102,179857,99718,369654,13062,27072,2232,105686,72897,219385,64202,22442,72,52447,22847,94762,33050,52976,8735,2293,108227,50715,42136,12707,
    39451,45981,114988,190349,45935,22798,12654,1,651,11355,22585,15841,113320,18682,87649,22561,40535,140869,61447,16658,95176,80270,61544,83797,57450,101532,133714,89999,48843,172813,18252,163124,
    5003,103269,9853,67492,19019,55271,3109,55823,10407,119899,97338,54114,211163,4927,123086,69260,3848,55061,18449,12690,1068,37710,26424,11375,4988,41383,92404,48881,32091,48305,36150,113778,
    30095,105405,16612,40433,41692,73917,51729,55139,15099,30180,50,16916,43602,95240,47258,86059,107434,94751,15026,33649,50744,49046,74109,13167,7627,11804,18035,3335,171349,35806,44194,37671,
    16313,34545,198682,35794,150832,210760,258621,12579,352665,110221,193929,21773,207750,141990,78065,65827,33937,281,49827,8372,38256,111292,55786,57932,51091,10740,12648,39213,156000,72468,27361,213358,
    87889,22207,42213,35711,90663,88229,37662,37545,84175,5983,52865,9162,24908,28484,109135,3656,114900,154191,40016,143364,50365,4998,47423,91888,31494,33385,89791,113590,83829,74958,6063,23411,
    5398,3346,29188,43992,169342,124619,152146,38176,47521,837,5847,40491,54818,14886,64782,79830,18935,46064,22834,11304,8356,14908,14164,58309,43094,59761,58932,55478,41212,27362,8157,45308,
    174536,290996,677,204177,10082,87199,60656,99512,92550,18666,17670,8755,6678,78663,12108,219237,60614,81551,23867,117589,23355,14754,99693,35914,69721,75856,71852,97445,14796,53501,37755,5823,
    34149,11053,56010,32326,128830,80883,474,3312,58187,4593,94897,82655,3179,117179,34370,37073,208,174,40568,42678,40325,118866,28501,3518,28399,91754,79629,270203,225029,103041,171673,19198,
    401412,202372,71959,27441,51150,57934,46575,551,31580,48734,52559,6830,207268,88303,10399,26375,6657,26942,1499,28435,10993,84614,864,33684,69818,63313,138059,44306,64282,22203,52406,127830,
    289845,11019,2908,36009,23308,8408,38414,42453,12961,116672,9638,175093,38447,99982,7614,4603,6681,54049,103103,12820,52944,2652,87605,137098,31855,44982,31388,16335,2572,234999,76439,59626 >>

\* From prefix 63136 on.
keyPrefixMap4 == <<
    104924,9960,36133,26144,2606,105224,32252,42036,5670,72687,493,78524,84818,34715,26322,28439,16288,21908,74255,9962,67106,147542,139191,43764,59580,72920,393509,63136,82929,53980,78657,4543,
    607401,11665,318088,11366,291,7537,212378,77254,85829,59252,37336,13232,359,43117,65592,71269,15897,112396,53939,40125,35830,56176,59326,11017,50696,114234,276483,22837,65630,17802,22227,18232,
    52672,51170,100713,92360,22115,91842,43063,195957,356968,3794,166425,56044,29895,163395,11168,56699,40837,67702,27339,20360,231192,89936,103744,1998,34024,32020,3803,117654,38957,94943,70290,85606,
    26722,43088,170484,36210,406,282841,54770,175134,23335,44094,73528,47037,124952,31360,23208,78534,72068,123285,11398,40458,68804,30009,6939,3499,13268,40221,12223,61566,147101,333845,73905,2372,
    164740,293468,55614,327574,276569,59394,21940,154180,162596,28918,37039,166169,66943,84556,40144,10616,11569,25337,104847,48420,26654,76526,228642,20116,66358,44381,25600,2578,4777,70479,5757,64766,
    23229,11688,27998,24560,102127,6006,130766,11689,5848,24290,203474,51926,978,76149,170663,68953,2921,5461,117041,24360,59666,1098,64926,198078,5371,1164,166512,13456,28212,22987,95713,13302,
    90108,31433,120078,63947,42938,68482,38260,42265,39320,109797,110494,79743,2499,2553,58577,180281,4271,259624,94417,68375,108792,50431,9717,29255,33510,160264,7272,343301,125072,154624,6168,27338,
    71653,51148,140929,51394,65239,109678,179395,7761,38250,81439,23490,79048,66357,53948,107018,28855,38577,94122,43589,44430,13964,103761,2708,12411,86251,119198,17302,51623,35708,305,95393,8798,
    50755,41461,203637,19736,36010,8599,54546,13603,29448,118755,50260,10357,12209,86678,39594,88467,3844,173096,17788,39975,38222,14809,54370,53581,206337,67848,23694,2309,100876,41983,276960,18075,
    67827,14170,117970,89349,137088,75893,70548,20757,14167,10804,5959,67463,252225,44451,87528,36335,84163,175996,66912,69227,195270,25238,167523,96366,1306,7967,27706,52700,5703,285,51677,60197,
    54198,170697,20548,18244,779,4822,39984,71212,46802,72502,31290,74896,22028,154697,58236,131173,51124,252252,64234,48608,86759,36236,13170,143379,70560,101041,195793,70671,113164,99377,70248,34118,
    35685,116394,50149,302730,162145,121592,530,30881,45471,162432,6235,49645,34561,40287,58509,43757,422,70918,113036,190344,2611,233661,162936,32114,6464,94933,54217,64327,47486,871,90931,33404,
    19223,20183,3928,34508,38246,36359,11459,66339,9191,90968,122115,45027,18331,84569,82055,106565,89942,52285,40019,20438,243642,100401,166242,127119,212364,42312,34711,1671,15893,23179,5020,74061,
    17518,110465,11940,3873,22617,123195,18144,100726,6409,91356,45936,73471,30046,108852,212969,66765,126182,98830,107226,23993,59716,48049,45651,82888,36560,16256,52004,17296,104428,12933,38645,135609,
    18846,26099,40801,56830,26592,992,156526,79480,19458,91618,39463,7988,50793,54675,156601,19881,147333,1159,50024,77736,30826,64647,13710,115978,1388,51510,5276,207487,27647,59310,5123,271841,
    10922,2382,11425,17267,14495,244507,2126,492,33545,12138,8818,184454,19269,134769,8528,57017,135828,73552,22221,65808,39727,367870,203492,24483,41601,196988,198,55446,46931,68675,244761,5411,
    233379,19207,36423,316277,49169,745,204311,317017,131130,150130,101903,260111,182112,30434,25375,59274,16276,109977,54255,20999,82381,135770,2885,31724,118209,21645,119343,36886,142445,81249,42421,43503,
    128310,66260,92555,94890,19672,1769,178045,35419,28740,2136,226543,24030,82907,124857,54353,157870,33436,38109,85642,96673,3118,112407,1944,31498,102206,135319,205619,160787,28723,91910,50034,79540,
    24819,28372,80113,173951,41937,15370,19059,55603,38854,100638,70561,519,5157,19218,16617,91793,3881,75012,176191,145596,111491,20452,154738,27981,1142,2054,22256,54130,9776,19737,32399,69945,
    421673,103058,91031,7281,152241,74595,46116,86993,29309,22846,33982,54529,14961,41775,23014,131668,87854,171036,94711,50319,6054,72531,3482,3581,15424,83151,45387,66155,3796,118067,32026,181774,
    82656,49811,12569,44671,54996,83240,157346,143069,2108,19813,11164,42601,55367,1359,101577,27699,239450,9023,33206,152235,154525,73472,7296,55929,9643,80206,87554,68722,118103,89632,161537,59640,
    106041,77231,63719,12373,64601,98305,1056,46674,68549,18960,17748,19013,48707,296146,134285,64092,30266,15379,85084,87899,25772,62788,25525,31250,18740,80665,23101,34025,9462,7075,49746,39284,
    229669,57834,2626,248569,91798,873,22206,84442,112152,160148,59240,6711,191327,15256,141511,171566,14493,68797,15010,17086,72828,164513,36088,32054,8175,11054,81290,64307,66636,51647,21137,68255,
    236474,72999,12123,66901,25817,58290,23813,41818,87351,51685,349139,15386,129027,92193,14750,7028,76653,56861,59524,43395,20422,123741,40958,19478,22983,87931,5921,15341,71240,18213,18961,25648,
    27846,61261,75568,216919,44661,12442,49311,68342,12399,74324,7455,42754,46158,66251,405,72411,77704,58295,15625,4552,53101,50537,30941,37141,35032,18292,98289,17870,11072,115848,60108,70972,
    17300,13269,63524,140693,109294,93883,56701,69184,33638,4485,36667,26721,24408,5954,28290,80247,1895,82128,40307,96015,11241,5825,45230,255638,760,31698,12512,26145,17584,92444,8948,17954,
    82479,9085,5850,120208,125877,9751,11265,22102,63150,153550,69826,75885,141075,131001,14419,128804,34259,129918,115229,23808,23274,3580,82265,18942,81698,8545,39913,79933,15732,6741,38339,39271,
    43577,31006,30604,53478,48340,102062,39630,12695,91584,222,20589,89230,14688,30824,97582,47266,16379,99608,42679,70464,24481,4475,80121,49522,150280,121584,178585,20071,96420,5695,31648,64033,
    262050,20662,107571,34749,48635,192388,60052,163993,43727,40545,72642,99324,61819,17935,20846,61496,56268,69226,133071,52853,72003,57628,110499,29460,88178,40245,24970,58958,17281,21360,121825,31853,
    79912,81792,201844,95444,13218,256154,26236,61260,122519,90685,37984,5119,125295,126359,310134,54407,166396,6520,28971,31149,11811,266489,27120,1794,2171,23105,744,2814,118930,46693,140092,4993,
    67746,27308,66270,97039,17636,6061,69135,4202,178278,7472,32642,40673,174656,26758,204108,44815,95661,95589,192828,73663,173039,77882,43232,71654,83845,55846,26313,21216,79689,31469,85659,11793,
    17473,17000,64471,78858,98555,104223,20905,121028,127696,15679,22246,93167,203415,40670,1525,47197,54730,29955,27650,142614,22925,38365,107626,61283,232239,25514,194946,12768,9309,63949,114873,57567,
    12136,30868,3548,537341,175026,133711,27455,27667,20740,32351,1997,26211,180188,35259,10358,54362,10747,42370,12304,6425,39816,22704,99010,215128,314017,17879,58536,20732,266131,43327,1650,27592,
    10040,89403,28410,125002,175732,21475,13832,98954,112550,155503,53781,62057,220651,63490,218647,26496,31974,28320,13557,72935,37393,40244,102949,25746,888,15552,12165,23782,23008,37306,182690,178294,
    86799,19876,69717,10583,4303,116880,7218,92683,64905,100026,340736,142052,148467,8925,2702,63925,75337,81983,220124,89751,251,226035,14097,1808,3284,142418,16036,72819,370102,13289,144922,3996,
    50264,199033,45199,139880,9835,4702,60405,74816,5438,7368,27687,162954,23655,159039,21280,61851,4481,92865,109762,3285,29851,3021,104939,2905,329,63385,22681,52094,12855,38488,18381,19211,
    7162,61266,8835,22825,64931,45593,66502,25309,78141,46199,59413,50610,12804,59952,186517,61018,42372,46728,18388,90815,296771,59091,46636,192289,83547,3423,29852,2745,18624,16583,357641,32404,
    34874,30511,86377,868,86271,59760,81404,39749,3360,74207,15394,156217,48665,41137,72366,52831,77735,59042,22515,6142,88767,22116,68286,40920,11463,78197,68958,24062,63527,100286,139882,65777,
    28889,12481,28953,8266,22258,3319,99181,17609,29140,179534,30832,42841,194315,120705,27548,161124,113924,42548,41864,56260,25499,42783,177062,105955,6406,14311,23992,86657,31334,225197,24185,39921,
    1845,104026,301294,95718,4802,8899,157667,77564,49184,6115,80340,47518,43455,6339,54561,39882,35469,115497,123233,68548,127594,20262,97680,60841,92970,5781,28954,4558,61038,45382,35089,49876,
    115005,15489,27010,91676,38840,12352,20606,19800,87761,12264,9268,146639,106838,47766,91230,8234,8811,48534,107720,27259,20572,34400,108143,52933,55637,28872,61739,77203,11162,21038,66975,30423,
    96721,31993,45541,7376,132425,71889,178420,446221,108925,260438,102283,4056,2948,77259,83943,38199,125457,36830,123208,391,36356,138390,99456,92051,3502,239674,36201,114068,75270,3160,39536,218269,
    27622,12173,56780,8501,127192,66434,47097,13635,2561,98519,73258,96646,123095,5710,42788,66384,49394,12035,7389,23253,61155,251141,4195,439,16897,56354,25580,66462,110064,188570,17260,12827,
    9699,13844,208611,7653,89448,41275,5078,37917,53356,45195,15877,74097,19628,231041,21225,15175,220310,3514,79626,97496,21622,20434,48926,95346,83036,47481,10584,14331,9885,4023,29396,21139,
    112214,87100,83793,9796,6087,423,60612,11748,26713,29951,132442,40260,17901,55713,5620,88019,161912,177970,3729,49808,91492,35869,138357,40508,3440,61216,56765,68562,68594,2747,88777,43463,
    9266,44125,1567,2354,92238,29774,47207,47789,8087,20375,191924,3415,6866,22316,82861,233038,150194,13698,143688,29411,72175,16465,14358,220015,80701,53366,59020,22661,13459,20745,8739,76074,
    31836,46743,45518,51271,43243,19787,114669,18136,239700,15692,105609,60536,95846,27460,7762,225232,44749,11206,14819,1690,50647,170657,224611,139596,21945,134017,15972,174955,230538,2804,25876,121127,
    120612,18921,14091,435,132371,178953,144326,158152,244604,220898,21478,121856,5193,4031,105823,11008,105637,134379,253591,97747,34661,247232,20987,6949,41341,106816,110210,45958,68775,150399,11104,93886,
    85393,28015,147749,112829,1874,19994,21402,16367,8771,33037,11041,96701,33718,36354,26705,23369,49672,29673,72422,32419,77403,36496,28454,23255,595452,242129,61562,58092,99507,41978,40275,32822,
    6490,1688,175006,8864,58895,13716,45499,120546,128742,24764,141091,121483,7704,83412,14149,58968,39239,165272,32855,72184,73217,52628,13081,73279,43816,9383,216195,56823,62824,48448,191659,3540,
    37804,223316,171995,17606,199976,21733,141024,23939,22361,42786,77686,3523,80005,1542,22284,32365,87514,43833,4665,93155,94832,32683,134693,9494,14089,54921,16128,131782,4574,168587,76247,7989,
    139975,821,8368,108503,59142,158797,137,205170,75523,18074,13682,91077,100268,65492,54879,15629,43906,38056,45569,40180,53442,24989,20763,24867,15152,30094,129619,140074,2547,23241,27435,7171,
    186002,4003,5665,192737,17011,57494,230276,241405,19513,27773,95035,92634,204282,5213,32107,87507,3343,10550,3806,71001,60568,10837,23329,144168,128318,1900,47551,4240,119250,50444,64351,85851,
    4298,169567,1401,13814,51871,3524,75657,25885,41336,136110,12759,77034,71759,22871,604,13904,21921,84968,84920,208954,45074,13960,4204,102255,98169,58850,58448,58879,145889,22357,8919,58428,
    99427,13803,157733,68068,11350,61811,360594,118202,1237,824,163104,118356,5520,769,31581,20685,28799,181670,40637,38360,7803,8532,69133,37235,53702,86519,85294,62552,21026,8827,142049,30386,
    136352,11344,158995,19682,38293,242831,103750,55804,128690,108982,27181,18409,12158,167408,120214,132169,90132,134213,7909,28749,44600,10115,55121,16581,10184,82321,25270,21542,26957,2707,106897,145041,
    39459,145473,48977,26927,126025,157588,249490,64382,78904,11519,1284,9871,82999,78364,173378,109477,59373,50500,2168,30838,39301,154212,66143,91333,150198,28707,45440,20859,120529,33550,21869,80014,
    153042,19905,153475,81658,20177,158807,120156,38566,50089,6373,63762,19510,14764,26971,108976,72526,271571,84066,18309,66438,30530,98093,65740,53411,123161,23236,24050,64130,38975,177329,37078,133183,
    101562,89382,51844,19732,22941,26188,51520,22735,5648,43118,130081,12788,124654,200339,25097,48211,109243,196680,216387,69966,69817,55482,6031,5293,71675,18384,137078,73066,49162,68808,11413,25901,
    106884,643,4412,18355,21241,36413,7382,16629,107795,6893,5332,242,30258,49533,74544,39490,16572,4199,12724,122748,188262,108611,126989,88570,141456,72114,87870,20276,7688,37800,22712,59241,
    60718,170557,299711,3515,8271,16537,107094,81327,11044,299399,71715,154123,32440,16413,169052,42581,104608,33812,5696,16661,103419,161,39832,179084,236109,71375,67676,75508,93156,21777,80970,58192,
    43293,31757,51423,41531,128929,182898,12880,113231,42107,61632,45914,4884,67180,4744,128700,2781,25201,36266,194380,87971,115254,341,41014,57871,185488,92043,17835,89050,130954,19517,84683,21380,
    72813,45915,93851,203411,167547,176973,63085,59916,20537,17002,36711,31276,39969,36726,65357,13243,38432,15644,94063,10719,22582,47135,16038,5381,184022,23165,76012,35198,1139,18638,45545,84452,
    27199,192134,119684,123811,5655,13706,141932,24822,17767,37181,5142,34476,97412,225589,175180,68777,122606,11285,10611,55686,209377,100096,22340,26689,27070,51760,149649,30372,35871,50512,21058,17439,
    326617,170142,107982,135181,188954,85308,56136,9593,42680,26872,58659,5746,73512,25617,2549,48114,80911,1733,156604,26196,22629,16115,47515,69763,3011,81888,4772,72580,95021,23422,61841,69210,
    315242,20699,13055,19951,157737,52563,31431,59838,383,35462,55449,68880,41821,63984,213573,50441,41808,53480,40494,130778,19335,64598,138641,25152,27950,8191,57199,35528,15674,204275,70906,3181,
    25677,26876,2717,132658,110950,49839,49173,20862,35375,20135,50308,213100,76835,103314,64615,7399,59108,22329,92119,34649,57370,20920,11016,129444,35262,68761,92220,17938,16569,14039,59057,72434,
    160415,16248,7148,40010,37706,58080,149680,137070,78086,105307,67671,478,32041,27870,179796,13035,49691,26716,81195,147295,137143,13139,168200,45495,9782,24335,30927,557,172080,226060,57625,14169,
    50148,53124,40398,22321,77917,74830,6334,70846,6323,77024,9517,93307,10110,13831,4136,54992,69172,15584,33047,77148,17711,31085,33621,126215,21795,114268,35065,145060,59511,11859,154026,131303,
    76184,102024,58089,66420,135114,32471,26586,9983,31046,232116,194394,99288,132319,610,10459,98229,59105,34807,29993,22965,157578,4107,28141,140655,20549,7101,7846,55412,80778,17135,7430,73220,
    57649,27939,10941,92844,158421,173174,64726,12726,65143,202755,176021,57189,4575,7195,177904,25156,72235,146111,11686,22007,21899,135284,138978,752,10797,65724,5168,151662,92745,109290,75372,160210,
    34035,17369,97529,60335,106079,2306,2423,4131,80159,158934,136359,59711,4508,40343,250673,65860,78304,17795,104032,148124,25350,58256,33525,20642,75457,81761,183350,24569,46458,63924,58666,8047,
    32937,81997,33987,7245,25623,17931,5112,122123,47,80630,79317,15250,8531,7845,42854,87493,104751,31479,59823,168974,84953,28434,95840,86398,8138,40995,4860,26024,36508,101200,49636,8174,
    187199,50053,89152,20854,66310,61067,8004,30413,115274,278866,106773,120445,13253,40328,1516,70360,32461,1703,301530,572,38536,75536,423620,18713,1916,3143,70650,60724,42007,14851,262515,136679,
    187160,70985,131034,54573,35055,14435,225137,23005,26325,174156,20786,195824,84394,19162,85376,70194,35963,49566,21279,91399,94216,64873,68891,55512,45590,3382,26979,72069,97782,126859,187860,246200 >>

parts == <<[first |-> 2336, keys |-> keyPrefixMap1],
       [first |-> 21536, keys |-> keyPrefixMap2],
       [first |-> 42336, keys |-> keyPrefixMap3],
       [first |-> 63136, keys |-> keyPrefixMap4]>>

\* Every part is of 150 rows.
Rows == 150

RowLength == 16

PartLength == Rows * RowLength

InPart(prefix, part) == prefix - part.first \in 0..(PartLength - 1)

Known(prefix) == \E n \in DOMAIN parts : InPart(prefix, parts[n])

PartOf(prefix) == CHOOSE n \in DOMAIN parts : InPart(prefix, parts[n])

\* keyPrefixMap[prefix]
KeyAt(prefix) ==
    LET part == parts[PartOf(prefix)]
    IN  part.keys[prefix - part.first + 1]

-----------------------------------------------------------------------------
SHA2_256 == 18  \* mh.SHA2_256

\* binary.BigEndian.PutUint32; no number of the map has more than 24 bits.
BigEndian(n) == <<0, n \div 65536, (n \div 256) % 256, n % 256>>

LittleEndian(n) == <<n % 256, (n \div 256) % 256, n \div 65536, 0>>

Zeros(n) == [i \in 1..n |-> 0]

\* inp: the candidate with a number, as the search hashes it.
Candidate(i) == <<SHA2_256, 32>> \o BigEndian(i) \o Zeros(28)

\* id: the peer ID that GenRandPeerIDWithCPL makes of a key of the map.
PeerIDFor_LittleEndian(key) == <<SHA2_256, 32>> \o LittleEndian(key) \o Zeros(28)

PeerIDFor(key) == <<SHA2_256, 32>> \o BigEndian(key) \o Zeros(28)

ConvertPeerID(id) == Sha256(id)

\* The first 16 bits of a hash.
PrefixOf(hash) == hash[1][1]

-----------------------------------------------------------------------------
Init == targetPrefix \in {parts[n].first : n \in DOMAIN parts}

\* From the last prefix of a part back to the first one.
Next ==
    LET part == parts[PartOf(targetPrefix)]
    IN  targetPrefix' = part.first + ((targetPrefix + 1 - part.first) % PartLength)

Spec == Init /\ [][Next]_targetPrefix

-----------------------------------------------------------------------------
\* The candidate whose turn it is with targetPrefix: no two prefixes have one.
number ==
    LET n == PartOf(targetPrefix)
    IN  (n - 1) * PartLength + targetPrefix - parts[n].first

(***************************************************************************)
(* The file is the one that the search would write today: the peer ID made *)
(* of an entry has a hash that begins with the entry's prefix, which is    *)
(* what GenRandPeerIDWithCPL relies on to hit a Cpl; and no candidate that *)
(* the search comes to earlier has this prefix.  (generate/main.go.)       *)
(***************************************************************************)
FileHoldsFirstCandidates ==
    /\ PrefixOf(ConvertPeerID(PeerIDFor(KeyAt(targetPrefix)))) = targetPrefix
    /\ LET prefix == PrefixOf(Sha256(Candidate(number)))
       IN  Known(prefix) => KeyAt(prefix) <= number
=============================================================================
